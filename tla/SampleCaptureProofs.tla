------------------------- MODULE SampleCaptureProofs -------------------------
(***************************************************************************)
(* What the limiter and the ledger of the capture session guarantee for    *)
(* every number of workers and identities, every budget and every batch.   *)
(***************************************************************************)
EXTENDS SampleCapture, SharedFacts, TLAPS

------------------------------------------------------------------------------
(* The inductive invariant.  A reading is never ahead of the clock, nor is  *)
(* the window; the attempts of the windows before the current one are paid  *)
(* for by the seconds before it; and what made a worker give up its batch   *)
(* still holds.                                                             *)

\* What the program counter of a worker says of its local variables.
WorkerOK(w) ==
  /\ worker[w] \in Busy \cup {Idle}
  /\ worker[w] # Idle =>
       /\ worker[w].clock <= now
       /\ worker[w].pc \notin {"match_histograms", "skip_histograms", "match_floats"}
            => worker[w].floats >= 1
       /\ worker[w].pc = "skip" => worker[w].reason \in FloatReasons
       /\ worker[w].pc = "skip" /\ worker[w].reason = "duration_limit"
            => worker[w].clock >= Duration
       /\ worker[w].pc = "skip" /\ worker[w].reason = "sample_limit"
            => limiter.attempts >= MaxSamples

BudgetOK(lim, n) ==
  /\ lim \in [attempts : 0..MaxSamples, windowStart : Nat, windowCount : 0..Rate]
  /\ lim.windowStart <= n
  /\ lim.attempts <= Rate * (lim.windowStart \div Second) + lim.windowCount

LimiterOK == BudgetOK(limiter, now)

LedgerOK ==
  /\ matched \in [Identities -> [SampleTypes -> Nat]]
  /\ captured \in [Identities -> Nat]
  /\ skipped \in [Identities -> [Reasons -> Nat]]
  /\ truncated \in [Identities -> Nat]

Inv ==
  /\ now \in Nat
  /\ started \in Nat
  /\ LimiterOK
  /\ LedgerOK
  /\ worker \in [Workers -> Busy \cup {Idle}]
  /\ \A w \in Workers : WorkerOK(w)

LEMMA InvType == Inv => TypeOK
BY DEF Inv, LimiterOK, BudgetOK, LedgerOK, TypeOK

LEMMA InvRate == Inv => RateEnvelope
<1> SUFFICES ASSUME Inv PROVE RateEnvelope
  OBVIOUS
<1> DEFINE p == limiter.windowStart \div Second
           q == now \div Second
<1>1. /\ limiter.windowStart \in Nat /\ now \in Nat /\ limiter.windowStart <= now
      /\ limiter.attempts <= Rate * p + limiter.windowCount
      /\ limiter.windowCount <= Rate /\ limiter.windowCount \in Nat
      /\ limiter.attempts \in Nat /\ Rate \in Nat /\ Second \in Nat \ {0}
  BY BudgetAssumption, ClockAssumption DEF Inv, LimiterOK, BudgetOK
<1>2. p \in Nat /\ q \in Nat /\ p <= q
  BY <1>1, DivBounds, DivMonotone
<1> HIDE DEF p, q
<1>3. Rate * p <= Rate * q /\ Rate * (q + 1) = Rate * q + Rate
      /\ Rate * p \in Nat /\ Rate * q \in Nat
  BY <1>1, <1>2, BudgetGrows
<1>4. limiter.attempts <= Rate * (q + 1)
  BY <1>1, <1>3
<1> QED
  BY <1>4 DEF RateEnvelope, q

LEMMA InvGivesUp == Inv => GivesUpOnlyTheRefused
<1> SUFFICES ASSUME Inv, NEW w \in Workers, worker[w].pc = "skip",
                    worker[w].reason \in Permanent,
                    NEW t \in worker[w].clock..MaxTime
             PROVE  Refusal(limiter, t) \in Permanent
  BY DEF GivesUpOnlyTheRefused
<1>1. WorkerOK(w) /\ worker[w] # Idle
  BY DEF Inv, Idle
<1>2. worker[w].clock \in Nat /\ t \in Nat /\ worker[w].clock <= t
  BY <1>1, ClockAssumption DEF WorkerOK, Busy
<1>3. CASE worker[w].reason = "duration_limit"
  <2>1. t >= Duration
    BY <1>1, <1>2, <1>3, BudgetAssumption DEF WorkerOK
  <2> QED
    BY <2>1 DEF Refusal, Permanent
<1>4. CASE worker[w].reason = "sample_limit"
  <2>1. limiter.attempts >= MaxSamples
    BY <1>1, <1>4 DEF WorkerOK
  <2>2. CASE t >= Duration
    BY <2>2 DEF Refusal, Permanent
  <2>3. CASE t < Duration
    <3>1. ~(t >= Duration)
      BY <1>2, <2>3, BudgetAssumption
    <3> QED
      BY <2>1, <2>3, <3>1 DEF Refusal, Permanent
  <2> QED
    BY <1>2, <2>2, <2>3, BudgetAssumption
<1> QED
  BY <1>3, <1>4 DEF Permanent

LEMMA InitInv == Init => Inv
<1> SUFFICES ASSUME Init PROVE Inv
  OBVIOUS
<1>1. LimiterOK
  <2>1. 0 \div Second \in Nat
    BY ClockAssumption, DivBounds
  <2>2. Rate * (0 \div Second) \in Nat
    BY <2>1, BudgetAssumption, BudgetGrows
  <2> QED
    BY <2>2, BudgetAssumption DEF Init, LimiterOK, BudgetOK
<1>2. LedgerOK
  BY DEF Init, LedgerOK
<1>3. \A w \in Workers : WorkerOK(w)
  BY DEF Init, WorkerOK
<1> QED
  BY <1>1, <1>2, <1>3 DEF Init, Inv

\* reserve keeps the budget, and never takes an attempt back, for every reading
\* that is not ahead of the clock.
LEMMA ReserveKeepsBudget ==
  ASSUME NEW lim, NEW n \in Nat, NEW t \in Nat, t <= n, BudgetOK(lim, n)
  PROVE  /\ BudgetOK(Reserved(lim, t), n)
         /\ Reserved(lim, t).attempts >= lim.attempts
<1> DEFINE roll == Rolled(lim, t)
           p == lim.windowStart \div Second
           q == roll.windowStart \div Second
<1>1. /\ lim = [ attempts |-> lim.attempts, windowStart |-> lim.windowStart,
                 windowCount |-> lim.windowCount ]
      /\ lim.attempts \in 0..MaxSamples /\ lim.windowStart \in Nat
      /\ lim.windowCount \in 0..Rate /\ lim.windowStart <= n
      /\ lim.attempts <= Rate * p + lim.windowCount
  BY DEF BudgetOK
<1>2. /\ Rate \in Nat /\ Second \in Nat \ {0} /\ MaxSamples \in Nat /\ Duration \in Nat
  BY BudgetAssumption, ClockAssumption
<1>3. roll \in [attempts : 0..MaxSamples, windowStart : Nat, windowCount : 0..Rate]
  <2>1. CASE t >= lim.windowStart + Second
    <3>1. roll = [attempts |-> lim.attempts, windowStart |-> t, windowCount |-> 0]
      BY <1>1, <2>1 DEF Rolled
    <3> QED
      BY <1>1, <1>2, <3>1
  <2>2. CASE ~(t >= lim.windowStart + Second)
    BY <2>2 DEF Rolled, BudgetOK
  <2> QED
    BY <2>1, <2>2
<1>4. /\ roll = [ attempts |-> roll.attempts, windowStart |-> roll.windowStart,
                  windowCount |-> roll.windowCount ]
      /\ roll.attempts = lim.attempts /\ roll.windowStart <= n
  BY <1>1, <1>3 DEF Rolled
<1>5. p \in Nat /\ q \in Nat /\ Rate * p \in Nat /\ Rate * q \in Nat
  BY <1>1, <1>2, <1>3, DivBounds, BudgetGrows
<1>6. lim.attempts <= Rate * q + roll.windowCount
  <2>1. CASE t >= lim.windowStart + Second
    <3>1. roll.windowStart = t /\ roll.windowCount = 0
      BY <1>1, <2>1 DEF Rolled
    <3>2. p + 1 <= q
      BY <1>1, <1>2, <2>1, <3>1, DivAdvances
    <3> HIDE DEF p, q, roll
    <3>3. Rate * (p + 1) <= Rate * q /\ Rate * (p + 1) = Rate * p + Rate
      <4>1. p + 1 \in Nat
        BY <1>5
      <4>2. Rate * (p + 1) <= Rate * q
        BY <1>2, <1>5, <3>2, <4>1, BudgetGrows
      <4>3. Rate * (p + 1) = Rate * p + Rate
        BY <1>2, <1>5, BudgetGrows
      <4> QED
        BY <4>2, <4>3
    <3> QED
      BY <1>1, <1>2, <1>5, <3>1, <3>3
  <2>2. CASE ~(t >= lim.windowStart + Second)
    BY <1>1, <2>2 DEF Rolled
  <2> QED
    BY <2>1, <2>2
<1>7. BudgetOK(roll, n)
  BY <1>3, <1>4, <1>6 DEF BudgetOK
<1>8. CASE Refusal(lim, t) \in Permanent
  <2>1. Reserved(lim, t) = lim
    BY <1>8 DEF Reserved, Permanent
  <2> QED
    BY <1>1, <1>2, <2>1
<1>9. CASE Refusal(lim, t) = "rate_limit"
  <2>1. Reserved(lim, t) = roll
    BY <1>9 DEF Reserved, Permanent
  <2> QED
    BY <1>1, <1>4, <1>7, <2>1
<1>10. CASE Refusal(lim, t) \notin Permanent /\ Refusal(lim, t) # "rate_limit"
  <2>1. /\ lim.attempts < MaxSamples /\ roll.windowCount < Rate
    <3>1. t < Duration /\ lim.attempts < MaxSamples
      BY <1>1, <1>2, <1>10 DEF Refusal, Permanent
    <3>2. ~(roll.windowCount >= Rate)
      BY <1>1, <1>2, <1>10, <3>1 DEF Refusal, Permanent
    <3> QED
      BY <1>2, <1>3, <3>1, <3>2
  <2>2. Reserved(lim, t) = [roll EXCEPT !.windowCount = @ + 1, !.attempts = @ + 1]
    BY <1>10 DEF Reserved
  <2> HIDE DEF roll
  <2>3. Reserved(lim, t) = [ attempts |-> roll.attempts + 1,
                             windowStart |-> roll.windowStart,
                             windowCount |-> roll.windowCount + 1 ]
    BY <1>4, <2>2
  <2> DEFINE r == Reserved(lim, t)
  <2>4. /\ r.attempts = lim.attempts + 1 /\ r.windowStart = roll.windowStart
        /\ r.windowCount = roll.windowCount + 1
        /\ r = [ attempts |-> r.attempts, windowStart |-> r.windowStart,
                 windowCount |-> r.windowCount ]
    BY <1>4, <2>3
  <2> HIDE DEF r
  <2>5. /\ r \in [attempts : 0..MaxSamples, windowStart : Nat, windowCount : 0..Rate]
        /\ r.windowStart <= n
    BY <1>1, <1>2, <1>3, <1>4, <2>1, <2>4
  <2>6. r.attempts <= Rate * (r.windowStart \div Second) + r.windowCount
    BY <1>1, <1>3, <1>5, <1>6, <2>4
  <2> QED
    BY <1>1, <2>4, <2>5, <2>6 DEF BudgetOK, r
<1> QED
  BY <1>8, <1>9, <1>10

------------------------------------------------------------------------------
(* Every step keeps the invariant.  The steps of a worker that leave the    *)
(* limiter alone share one argument: the other workers do not notice.       *)

\* A step of w that writes only its own record and the ledger.
LEMMA WorkerStep ==
  ASSUME Inv, NEW w \in Workers, NEW r, worker' = [worker EXCEPT ![w] = r],
         UNCHANGED << now, limiter >>, started' \in Nat, LedgerOK',
         r \in Busy \cup {Idle},
         r # Idle =>
           /\ r.clock <= now
           /\ r.pc \notin {"match_histograms", "skip_histograms", "match_floats"}
                => r.floats >= 1
           /\ r.pc = "skip" => r.reason \in FloatReasons
           /\ r.pc = "skip" /\ r.reason = "duration_limit" => r.clock >= Duration
           /\ r.pc = "skip" /\ r.reason = "sample_limit" => limiter.attempts >= MaxSamples
  PROVE  Inv'
<1>1. worker' \in [Workers -> Busy \cup {Idle}] /\ worker'[w] = r
  BY DEF Inv
<1>2. ASSUME NEW u \in Workers PROVE WorkerOK(u)'
  <2>1. CASE u = w
    BY <1>1, <2>1 DEF WorkerOK
  <2>2. CASE u # w
    <3>1. worker'[u] = worker[u] /\ WorkerOK(u)
      BY <2>2 DEF Inv
    <3> QED
      BY <3>1 DEF WorkerOK
  <2> QED
    BY <2>1, <2>2
<1> QED
  BY <1>1, <1>2 DEF Inv, LimiterOK

\* What a busy worker is.
LEMMA BusyWorker ==
  ASSUME Inv, NEW w \in Workers, worker[w] # Idle
  PROVE  /\ worker[w] \in Busy
         /\ worker[w] = [ pc |-> worker[w].pc, id |-> worker[w].id,
                          hists |-> worker[w].hists, floats |-> worker[w].floats,
                          long |-> worker[w].long, clock |-> worker[w].clock,
                          reason |-> worker[w].reason ]
         /\ worker[w].id \in Identities /\ worker[w].hists \in Nat
         /\ worker[w].floats \in Nat /\ worker[w].long \in BOOLEAN
         /\ worker[w].clock \in Nat /\ worker[w].clock <= now
         /\ worker[w].reason \in Reasons \cup {"none"}
<1>1. WorkerOK(w)
  BY DEF Inv
<1> QED
  BY <1>1 DEF WorkerOK, Busy

\* A worker at a step of inspect is busy, and has a float left past the first ones.
LEMMA PcBusy ==
  ASSUME Inv, NEW w \in Workers, worker[w].pc # "idle"
  PROVE  /\ worker[w] # Idle /\ worker[w] \in Busy /\ worker[w].clock <= now
         /\ worker[w].id \in Identities /\ worker[w].hists \in Nat
         /\ worker[w].floats \in Nat
         /\ worker[w].pc \notin {"match_histograms", "skip_histograms", "match_floats"}
              => worker[w].floats >= 1
<1>1. worker[w] # Idle /\ WorkerOK(w)
  BY DEF Idle, Inv
<1>2. worker[w] \in Busy
  BY <1>1 DEF WorkerOK
<1> HIDE DEF Inv
<1>3. worker[w].id \in Identities /\ worker[w].hists \in Nat /\ worker[w].floats \in Nat
  BY <1>2 DEF Busy
<1> QED
  BY <1>1, <1>2, <1>3 DEF WorkerOK

\* Where NextFloat takes a worker.
LEMMA NextFloatStep ==
  ASSUME Inv, NEW w \in Workers, NextFloat(w), worker[w] # Idle,
         worker[w].pc \notin {"match_histograms", "skip_histograms", "match_floats"},
         UNCHANGED << now, limiter, started >>, LedgerOK'
  PROVE  Inv'
<1>1. worker[w].floats >= 1
  BY DEF Inv, WorkerOK
<1>2. CASE worker[w].floats = 1
  <2>1. worker' = [worker EXCEPT ![w] = Idle]
    BY <1>2 DEF NextFloat
  <2> QED
    BY <2>1, WorkerStep DEF Inv
<1>3. CASE worker[w].floats # 1
  <2> DEFINE r == [worker[w] EXCEPT !.pc = "read_clock", !.floats = @ - 1,
                                    !.reason = "none"]
  <2>1. worker' = [worker EXCEPT ![w] = r]
    BY <1>3 DEF NextFloat
  <2>2. /\ worker[w] \in Busy /\ worker[w].clock <= now
        /\ worker[w].floats - 1 \in Nat /\ worker[w].floats - 1 >= 1
    <3>1. worker[w] \in Busy /\ worker[w].clock <= now /\ worker[w].floats \in Nat
      BY BusyWorker
    <3> QED
      BY <1>1, <1>3, <3>1
  <2> DEFINE q == worker[w]
  <2> HIDE DEF q
  <2>3. r \in Busy /\ r.clock <= now /\ r.floats >= 1 /\ r.pc = "read_clock"
    <3>1. q \in Busy /\ q.clock <= now /\ q.floats - 1 \in Nat /\ q.floats - 1 >= 1
      BY <2>2 DEF q
    <3>2. r = [q EXCEPT !.pc = "read_clock", !.floats = @ - 1, !.reason = "none"]
      BY DEF q
    <3> HIDE DEF r
    <3> QED
      BY <3>1, <3>2 DEF Busy, PCs
  <2> HIDE DEF r
  <2> QED
    BY <2>1, <2>3, WorkerStep DEF Inv
<1> QED
  BY <1>2, <1>3

\* Adding to a counter of the ledger.
LEMMA AddMatched ==
  ASSUME LedgerOK, NEW i \in Identities, NEW t \in SampleTypes, NEW n \in Nat,
         matched' = [matched EXCEPT ![i][t] = @ + n],
         UNCHANGED << captured, skipped, truncated >>
  PROVE  LedgerOK'
BY DEF LedgerOK

LEMMA AddSkipped ==
  ASSUME LedgerOK, NEW i \in Identities, NEW r \in Reasons, NEW n \in Nat,
         skipped' = [skipped EXCEPT ![i][r] = @ + n],
         UNCHANGED << matched, captured, truncated >>
  PROVE  LedgerOK'
BY DEF LedgerOK

LEMMA InspectInv ==
  ASSUME Inv, NEW w \in Workers, NEW i \in Identities, NEW s \in Series, Inspect(w, i, s)
  PROVE  Inv'
<1> DEFINE r == [ pc |-> IF s.hists > 0 THEN "match_histograms" ELSE "match_floats",
                  id |-> i, hists |-> s.hists, floats |-> s.floats, long |-> s.long,
                  clock |-> 0, reason |-> "none" ]
<1>1. s.hists \in Nat /\ s.floats \in Nat /\ s.long \in BOOLEAN
  BY SeriesAssumption
<1>2. r \in Busy /\ r.clock <= now /\ r.pc \in {"match_histograms", "match_floats"}
  BY <1>1 DEF Inv, Busy, PCs
<1>3. worker' = [worker EXCEPT ![w] = r] /\ started' \in Nat /\ LedgerOK'
  BY DEF Inspect, Inv, ledger, LedgerOK
<1> HIDE DEF r
<1> QED
  BY <1>2, <1>3, WorkerStep DEF Inspect

LEMMA MatchHistogramsInv ==
  ASSUME Inv, NEW w \in Workers, MatchHistograms(w)
  PROVE  Inv'
<1> DEFINE q == worker[w]
           r == [q EXCEPT !.pc = "skip_histograms"]
<1>1. q # Idle /\ q \in Busy /\ q.clock <= now /\ q.id \in Identities /\ q.hists \in Nat
  <2>1. worker[w].pc # "idle"
    BY DEF MatchHistograms
  <2> QED
    BY <2>1, PcBusy
<1>2. worker' = [worker EXCEPT ![w] = r]
  BY DEF MatchHistograms, Goto, Inv
<1>3. LedgerOK'
  BY <1>1, AddMatched DEF MatchHistograms, Inv, SampleTypes
<1> HIDE DEF q
<1>4. r \in Busy /\ r.clock <= now /\ r.pc = "skip_histograms"
  BY <1>1 DEF Busy, PCs
<1> HIDE DEF r
<1> QED
  BY <1>2, <1>3, <1>4, WorkerStep DEF MatchHistograms, Inv

LEMMA SkipHistogramsInv ==
  ASSUME Inv, NEW w \in Workers, SkipHistograms(w)
  PROVE  Inv'
<1> DEFINE q == worker[w]
           r == [q EXCEPT !.pc = "match_floats", !.hists = 0]
<1>1. q # Idle /\ q \in Busy /\ q.clock <= now /\ q.id \in Identities /\ q.hists \in Nat
  <2>1. worker[w].pc # "idle"
    BY DEF SkipHistograms
  <2> QED
    BY <2>1, PcBusy
<1>2. worker' = [worker EXCEPT ![w] = r]
  BY DEF SkipHistograms, Inv
<1>3. LedgerOK'
  BY <1>1, AddSkipped DEF SkipHistograms, Inv, Reasons
<1> HIDE DEF q
<1>4. r \in Busy /\ r.clock <= now /\ r.pc = "match_floats"
  BY <1>1 DEF Busy, PCs
<1> HIDE DEF r
<1> QED
  BY <1>2, <1>3, <1>4, WorkerStep DEF SkipHistograms, Inv

LEMMA MatchFloatsInv ==
  ASSUME Inv, NEW w \in Workers, MatchFloats(w)
  PROVE  Inv'
<1> DEFINE q == worker[w]
           r == IF q.floats = 0 THEN Idle ELSE [q EXCEPT !.pc = "read_clock"]
<1>1. /\ q # Idle /\ q \in Busy /\ q.clock <= now
      /\ q.id \in Identities /\ q.floats \in Nat
  <2>1. worker[w].pc # "idle"
    BY DEF MatchFloats
  <2> QED
    BY <2>1, PcBusy
<1>2. worker' = [worker EXCEPT ![w] = r]
  BY DEF MatchFloats
<1>3. LedgerOK'
  BY <1>1, AddMatched DEF MatchFloats, Inv, SampleTypes
<1> HIDE DEF q
<1>4. \/ r = Idle
      \/ r \in Busy /\ r.clock <= now /\ r.pc = "read_clock" /\ r.floats >= 1
  BY <1>1 DEF Busy, PCs
<1> HIDE DEF r
<1> QED
  BY <1>2, <1>3, <1>4, WorkerStep DEF MatchFloats, Inv

LEMMA ReadClockInv ==
  ASSUME Inv, NEW w \in Workers, ReadClock(w)
  PROVE  Inv'
<1> DEFINE q == worker[w]
           r == [q EXCEPT !.pc = "reserve", !.clock = now]
<1>1. q # Idle /\ q \in Busy /\ q.floats >= 1 /\ now \in Nat
  <2>1. worker[w].pc = "read_clock"
    BY DEF ReadClock
  <2> QED
    BY <2>1, PcBusy DEF Inv
<1>2. worker' = [worker EXCEPT ![w] = r] /\ LedgerOK'
  BY DEF ReadClock, Inv, ledger, LedgerOK
<1> HIDE DEF q
<1>3. r \in Busy /\ r.clock <= now /\ r.floats >= 1 /\ r.pc = "reserve"
  <2>1. r.clock = now /\ r.floats = q.floats /\ r.pc = "reserve"
    BY <1>1 DEF Busy
  <2>2. r \in Busy
    BY <1>1 DEF Busy, PCs
  <2> QED
    BY <1>1, <2>1, <2>2
<1> HIDE DEF r
<1> QED
  BY <1>2, <1>3, WorkerStep DEF ReadClock, Inv

LEMMA LogInv ==
  ASSUME Inv, NEW w \in Workers, NEW outcome \in Outcomes, Log(w, outcome)
  PROVE  Inv'
<1> DEFINE q == worker[w]
           r == [q EXCEPT !.reason = outcome,
                          !.pc = IF outcome = "none" THEN "capture" ELSE "skip"]
<1>1. q # Idle /\ q \in Busy /\ q.clock <= now /\ q.floats >= 1
  <2>1. worker[w].pc = "log"
    BY DEF Log
  <2> QED
    BY <2>1, PcBusy
<1>2. worker' = [worker EXCEPT ![w] = r] /\ LedgerOK'
  BY DEF Log, Inv, ledger, LedgerOK
<1> HIDE DEF q
<1>3. /\ r \in Busy /\ r.clock <= now /\ r.floats >= 1
      /\ r.pc = "skip" => r.reason \in {"log_disabled", "log_error"}
  BY <1>1 DEF Busy, PCs, Outcomes, Reasons, FloatReasons
<1> HIDE DEF r
<1> QED
  BY <1>2, <1>3, WorkerStep DEF Log, Inv, FloatReasons

\* reserve moves the limiter under every other worker: what it refused one of
\* them for still holds, because attempts only grow.
LEMMA ReserveInv ==
  ASSUME Inv, NEW w \in Workers, Reserve(w)
  PROVE  Inv'
<1> DEFINE q == worker[w]
           t == worker[w].clock
           reason == Refusal(limiter, t)
           r == [q EXCEPT !.reason = reason,
                          !.pc = IF reason = "none" THEN "log" ELSE "skip"]
<1>1. q # Idle /\ q \in Busy /\ t \in Nat /\ t <= now /\ q.floats >= 1 /\ q.clock = t
  <2>1. worker[w].pc = "reserve"
    BY DEF Reserve
  <2>2. q # Idle /\ q \in Busy /\ q.clock <= now /\ q.floats >= 1
    BY <2>1, PcBusy
  <2> QED
    BY <2>2 DEF Busy
<1>2. /\ limiter' = Reserved(limiter, t) /\ worker' = [worker EXCEPT ![w] = r]
      /\ now' = now /\ started' = started /\ now \in Nat /\ LedgerOK'
  BY DEF Reserve, Inv, ledger, LedgerOK
<1>3. /\ LimiterOK' /\ limiter'.attempts >= limiter.attempts
      /\ limiter.attempts \in Nat /\ limiter'.attempts \in Nat
  BY <1>1, <1>2, ReserveKeepsBudget DEF Inv, LimiterOK, BudgetOK
<1>4. /\ reason \in FloatReasons \cup {"none"}
      /\ reason = "duration_limit" => t >= Duration
      /\ reason = "sample_limit" => limiter.attempts >= MaxSamples
  BY DEF Refusal, FloatReasons
<1> HIDE DEF q, t, reason
<1>5. /\ r \in Busy /\ r.clock = t /\ r.floats >= 1 /\ r.reason = reason
      /\ r.pc \in {"log", "skip"} /\ (r.pc = "skip" => reason # "none")
  BY <1>1, <1>4 DEF Busy, PCs, Reasons
<1> HIDE DEF r
<1>6. worker' \in [Workers -> Busy \cup {Idle}] /\ worker'[w] = r
  BY <1>2, <1>5 DEF Inv
<1>7. WorkerOK(w)'
  <2>1. r.pc = "skip" /\ r.reason = "sample_limit" => limiter'.attempts >= MaxSamples
    BY <1>3, <1>4, <1>5, BudgetAssumption
  <2> QED
    BY <1>1, <1>2, <1>4, <1>5, <1>6, <2>1 DEF WorkerOK
<1>8. ASSUME NEW u \in Workers, u # w PROVE WorkerOK(u)'
  <2>1. worker'[u] = worker[u] /\ WorkerOK(u)
    BY <1>2, <1>8 DEF Inv
  <2>2. limiter.attempts >= MaxSamples => limiter'.attempts >= MaxSamples
    BY <1>3, BudgetAssumption
  <2> QED
    BY <1>2, <2>1, <2>2 DEF WorkerOK
<1> QED
  BY <1>2, <1>3, <1>6, <1>7, <1>8 DEF Inv

LEMMA SkipInv ==
  ASSUME Inv, NEW w \in Workers, Skip(w)
  PROVE  Inv'
<1>1. /\ worker[w].pc = "skip" /\ worker[w] # Idle /\ worker[w].id \in Identities
      /\ worker[w].floats \in Nat
  <2>1. worker[w].pc = "skip"
    BY DEF Skip
  <2> QED
    BY <2>1, PcBusy
<1>2. worker[w].reason \in Reasons
  BY <1>1 DEF Inv, WorkerOK, Reasons
<1>3. UNCHANGED << now, limiter, started, matched, captured, truncated >>
  BY DEF Skip
<1>4. CASE worker[w].reason \in Permanent
  <2>1. worker' = [worker EXCEPT ![w] = Idle]
    BY <1>4 DEF Skip
  <2>2. LedgerOK'
    BY <1>1, <1>2, <1>3, <1>4, AddSkipped DEF Skip, Inv
  <2> QED
    BY <1>3, <2>1, <2>2, WorkerStep DEF Inv
<1>5. CASE worker[w].reason \notin Permanent
  <2>1. NextFloat(w)
    BY <1>5 DEF Skip
  <2>2. LedgerOK'
    BY <1>1, <1>2, <1>3, <1>5, AddSkipped DEF Skip, Inv
  <2> QED
    BY <1>1, <1>3, <2>1, <2>2, NextFloatStep
<1> QED
  BY <1>4, <1>5

LEMMA CaptureInv ==
  ASSUME Inv, NEW w \in Workers, Capture(w)
  PROVE  Inv'
<1> DEFINE q == worker[w]
           r == [q EXCEPT !.pc = "truncate"]
<1>1. /\ q.pc = "capture" /\ q # Idle /\ q \in Busy /\ q.id \in Identities
      /\ q.clock <= now /\ q.floats >= 1
  <2>1. worker[w].pc = "capture"
    BY DEF Capture
  <2> QED
    BY <2>1, PcBusy
<1>2. UNCHANGED << now, limiter, started >> /\ LedgerOK'
  BY <1>1 DEF Capture, Inv, LedgerOK
<1>3. CASE q.long
  <2>1. worker' = [worker EXCEPT ![w] = r]
    BY <1>3 DEF Capture, Goto
  <2> HIDE DEF q
  <2>2. r \in Busy /\ r.clock <= now /\ r.floats >= 1 /\ r.pc = "truncate"
    BY <1>1 DEF Busy, PCs
  <2> HIDE DEF r
  <2> QED
    BY <1>2, <2>1, <2>2, WorkerStep DEF Inv
<1>4. CASE ~q.long
  BY <1>1, <1>2, <1>4, NextFloatStep DEF Capture
<1> QED
  BY <1>3, <1>4

LEMMA TruncateInv ==
  ASSUME Inv, NEW w \in Workers, Truncate(w)
  PROVE  Inv'
<1>1. worker[w].pc = "truncate" /\ worker[w] # Idle /\ worker[w].id \in Identities
  <2>1. worker[w].pc = "truncate"
    BY DEF Truncate
  <2> QED
    BY <2>1, PcBusy
<1>2. UNCHANGED << now, limiter, started >> /\ LedgerOK' /\ NextFloat(w)
  BY <1>1 DEF Truncate, Inv, LedgerOK
<1> QED
  BY <1>1, <1>2, NextFloatStep

LEMMA TickInv ==
  ASSUME Inv, Tick
  PROVE  Inv'
<1>1. /\ now \in Nat /\ now' \in Nat /\ now <= now' /\ limiter' = limiter
      /\ worker' = worker /\ started' = started /\ LedgerOK'
  BY DEF Tick, Inv, ledger, LedgerOK
<1>2. LimiterOK'
  BY <1>1 DEF Inv, LimiterOK, BudgetOK
<1>3. ASSUME NEW w \in Workers PROVE WorkerOK(w)'
  <2>1. WorkerOK(w)
    BY DEF Inv
  <2>2. worker[w] # Idle => worker[w].clock \in Nat
    BY <2>1 DEF WorkerOK, Busy
  <2> QED
    BY <1>1, <2>1, <2>2 DEF WorkerOK
<1> QED
  BY <1>1, <1>2, <1>3 DEF Inv

LEMMA NextInv == Inv /\ [Next]_vars => Inv'
<1> SUFFICES ASSUME Inv, [Next]_vars PROVE Inv'
  OBVIOUS
<1>1. CASE \E w \in Workers, i \in Identities, s \in Series : Inspect(w, i, s)
  BY <1>1, InspectInv
<1>2. ASSUME NEW w \in Workers, Work(w) PROVE Inv'
  BY <1>2, MatchHistogramsInv, SkipHistogramsInv, MatchFloatsInv, ReadClockInv,
     ReserveInv, LogInv, SkipInv, CaptureInv, TruncateInv DEF Work
<1>3. CASE Tick
  BY <1>3, TickInv
<1>4. CASE UNCHANGED vars
  BY <1>4 DEF vars, ledger, Inv, LimiterOK, LedgerOK, WorkerOK
<1> QED
  BY <1>1, <1>2, <1>3, <1>4 DEF Next

\* Readings, window and budgets fit each other at every moment (sampleCapture.reserve).
THEOREM AlwaysInv == Spec => []Inv
BY InitInv, NextInv, PTL DEF Spec

\* The session keeps its types: the attempts stay within MaxSamples and the count
\* of a window within Rate, whatever the interleaving (sampleCapture.reserve).
THEOREM TypeCorrect == Spec => []TypeOK
BY AlwaysInv, InvType, PTL

\* No interleaving of late readings makes more attempts than Rate for each second
\* of the session begun.
THEOREM RateIsBounded == Spec => []RateEnvelope
BY AlwaysInv, InvRate, PTL

\* inspect's early return on an exhausted budget skips nothing that a later
\* reading could still have captured.
THEOREM EarlyReturnIsSound == Spec => []GivesUpOnlyTheRefused
BY AlwaysInv, InvGivesUp, PTL

------------------------------------------------------------------------------
(* The accounts.  What is still missing from the ledger of an identity is    *)
(* what the workers hold, each as a function of its record; every step       *)
(* changes the record of one worker and the ledger of its identity by the    *)
(* same amount.                                                              *)

LogReasons == {"log_disabled", "log_error"}

\* What a worker with record x is still to account for.
AtIdentity(x, i) == x # Idle /\ x.id = i
Floats(x) ==
  CASE x.pc \in {"read_clock", "reserve", "log", "skip", "capture"} -> x.floats
    [] x.pc = "truncate" -> x.floats - 1
    [] OTHER -> 0
FloatsOf(x, i) == IF AtIdentity(x, i) THEN Floats(x) ELSE 0
HistsOf(x, i) == IF AtIdentity(x, i) /\ x.pc = "skip_histograms" THEN x.hists ELSE 0
Truncates(x, i) == AtIdentity(x, i) /\ x.pc = "truncate"
Holds(x) ==
  \/ x.pc \in {"log", "capture"}
  \/ x.pc = "skip" /\ x.reason \in LogReasons

One(b) == IF b THEN 1 ELSE 0

\* What the ledger is missing.
FloatGap(i) == matched[i].float - captured[i] - SkippedOver(i, FloatReasons)
HistGap(i) == matched[i].histogram - skipped[i].unsupported_sample_type
TruncateGap(i) == captured[i] - truncated[i]
Handed(i) == captured[i] + SkippedOver(i, LogReasons)
HandedAll == [i \in Identities |-> Handed(i)]
AttemptGap == limiter.attempts - SumFunctionOnSet(HandedAll, Identities)

FloatsOfAll(i) == [w \in Workers |-> FloatsOf(worker[w], i)]
HistsOfAll(i) == [w \in Workers |-> HistsOf(worker[w], i)]
TruncatingAt(i) == {w \in Workers : Truncates(worker[w], i)}
Holders == {w \in Workers : Holds(worker[w])}

LedgerAccounted(i) ==
  /\ FloatGap(i) = SumFunctionOnSet(FloatsOfAll(i), Workers)
  /\ HistGap(i) = SumFunctionOnSet(HistsOfAll(i), Workers)
  /\ Cardinality(TruncatingAt(i)) <= TruncateGap(i)

AInv ==
  /\ Inv
  /\ \A i \in Identities : LedgerAccounted(i)
  /\ AttemptGap = Cardinality(Holders)

LEMMA FiniteReasons == IsFiniteSet(FloatReasons) /\ IsFiniteSet(LogReasons)
<1>1. LogReasons = {"log_disabled"} \cup {"log_error"}
  BY DEF LogReasons
<1>2. FloatReasons = {"duration_limit"} \cup ({"sample_limit"} \cup ({"rate_limit"} \cup LogReasons))
  BY DEF FloatReasons, LogReasons
<1> QED
  BY <1>1, <1>2, FS_Singleton, FS_Union

LEMMA SkippedType ==
  ASSUME Inv, NEW i \in Identities
  PROVE  /\ SkippedOver(i, FloatReasons) \in Int /\ SkippedOver(i, LogReasons) \in Int
         /\ Handed(i) \in Int /\ matched[i].float \in Int /\ matched[i].histogram \in Int
         /\ captured[i] \in Int /\ truncated[i] \in Int /\ skipped[i].unsupported_sample_type \in Int
<1>1. /\ skipped[i] \in [Reasons -> Nat] /\ captured[i] \in Nat /\ matched[i] \in [SampleTypes -> Nat]
      /\ truncated[i] \in Nat
  BY DEF Inv, LedgerOK
<1>2. /\ \A r \in FloatReasons : skipped[i][r] \in Int
      /\ \A r \in LogReasons : skipped[i][r] \in Int
      /\ skipped[i].unsupported_sample_type \in Int /\ matched[i].float \in Int /\ matched[i].histogram \in Int
  BY <1>1 DEF Reasons, FloatReasons, LogReasons, SampleTypes
<1>3. SkippedOver(i, FloatReasons) \in Int /\ SkippedOver(i, LogReasons) \in Int
  BY <1>2, FiniteReasons, SumOfInt DEF SkippedOver
<1> QED
  BY <1>1, <1>2, <1>3 DEF Handed

\* The sum over R grows by n at identity i, and at no other.
SkippedMoves(i, R, n) ==
  /\ SkippedOver(i, R)' = SkippedOver(i, R) + n
  /\ \A k \in Identities \ {i} : SkippedOver(k, R)' = SkippedOver(k, R)

\* A skip of n samples for reason r adds them to every sum over r, and to no other.
LEMMA SkippedOverMoves ==
  ASSUME Inv, NEW i \in Identities, NEW r \in Reasons, NEW n \in Nat,
         skipped' = [skipped EXCEPT ![i][r] = @ + n],
         NEW R, R \subseteq Reasons, IsFiniteSet(R)
  PROVE  SkippedMoves(i, R, IF r \in R THEN n ELSE 0)
<1> DEFINE f == skipped[i]
           g == skipped'[i]
<1>1. skipped \in [Identities -> [Reasons -> Nat]]
  BY DEF Inv, LedgerOK
<1>2. /\ f \in [Reasons -> Nat] /\ g = [f EXCEPT ![r] = @ + n]
      /\ \A k \in Identities \ {i} : skipped'[k] = skipped[k]
  BY <1>1
<1>3. /\ \A q \in R : f[q] \in Int /\ g[q] \in Int
      /\ \A q \in R \ {r} : g[q] = f[q]
      /\ g[r] = f[r] + n /\ f[r] \in Nat
  BY <1>2
<1> HIDE DEF f, g
<1>4. SumFunctionOnSet(g, R) = SumFunctionOnSet(f, R) + (IF r \in R THEN n ELSE 0)
  <2>1. CASE r \in R
    <3>1. SumFunctionOnSet(g, R) = SumFunctionOnSet(f, R) - f[r] + g[r] /\ SumFunctionOnSet(f, R) \in Int
      BY <1>3, <2>1, SumOfChange
    <3> QED
      BY <1>3, <2>1, <3>1
  <2>2. CASE r \notin R
    <3>1. SumFunctionOnSet(g, R) = SumFunctionOnSet(f, R) /\ SumFunctionOnSet(f, R) \in Int
      BY <1>3, <2>2, SumOfAgree, SumOfInt
    <3> QED
      BY <2>2, <3>1
  <2> QED
    BY <2>1, <2>2
<1> QED
  BY <1>2, <1>4 DEF SkippedMoves, SkippedOver, f, g

\* What one identity hands over shows in the attempts accounted for.
LEMMA HandedMoves ==
  ASSUME Inv, Inv', NEW i \in Identities, NEW n \in Int, Handed(i)' = Handed(i) + n,
         \A k \in Identities \ {i} : Handed(k)' = Handed(k)
  PROVE  /\ SumFunctionOnSet(HandedAll, Identities)' = SumFunctionOnSet(HandedAll, Identities) + n
         /\ SumFunctionOnSet(HandedAll, Identities) \in Int
<1> DEFINE f == HandedAll
           g == HandedAll'
<1>1. \A k \in Identities : f[k] = Handed(k) /\ g[k] = Handed(k)' /\ f[k] \in Int
  BY SkippedType DEF HandedAll
<1>2. \A k \in Identities : g[k] \in Int
  BY <1>1
<1> HIDE DEF f, g
<1>3. /\ SumFunctionOnSet(g, Identities) = SumFunctionOnSet(f, Identities) - f[i] + g[i]
      /\ SumFunctionOnSet(f, Identities) \in Int
  BY <1>1, <1>2, FiniteAssumption, SumOfChange
<1> QED
  BY <1>1, <1>3 DEF f, g

LEMMA HeldTypes ==
  ASSUME NEW x \in Busy \cup {Idle}, NEW i
  PROVE  FloatsOf(x, i) \in Int /\ HistsOf(x, i) \in Int
BY DEF FloatsOf, HistsOf, AtIdentity, Floats, Busy

\* A sample is captured, or what is at "truncate" moves with the counter.
TruncateMoves(x, y, i) ==
  \/ TruncateGap(i)' = TruncateGap(i) + One(Truncates(y, i)) - One(Truncates(x, i))
  \/ TruncateGap(i)' = TruncateGap(i) + 1 /\ ~Truncates(x, i)

\* One worker's record is what a step changes of the workers' part of the accounts.
LEMMA LedgerMoves ==
  ASSUME Inv, Inv', NEW w \in Workers, NEW y, worker' = [worker EXCEPT ![w] = y],
         NEW i \in Identities, LedgerAccounted(i),
         FloatGap(i)' = FloatGap(i) + FloatsOf(y, i) - FloatsOf(worker[w], i),
         HistGap(i)' = HistGap(i) + HistsOf(y, i) - HistsOf(worker[w], i),
         TruncateMoves(worker[w], y, i)
  PROVE  LedgerAccounted(i)'
<1> DEFINE f == FloatsOfAll(i)
           g == FloatsOfAll(i)'
           h == HistsOfAll(i)
           k == HistsOfAll(i)'
           A == TruncatingAt(i)
           B == TruncatingAt(i)'
<1>1. /\ \A u \in Workers : worker[u] \in Busy \cup {Idle} /\ worker'[u] \in Busy \cup {Idle}
      /\ worker'[w] = y /\ \A u \in Workers \ {w} : worker'[u] = worker[u]
  BY DEF Inv
<1>2. /\ \A u \in Workers : f[u] \in Int /\ g[u] \in Int /\ h[u] \in Int /\ k[u] \in Int
      /\ \A u \in Workers \ {w} : g[u] = f[u] /\ k[u] = h[u]
      /\ f[w] = FloatsOf(worker[w], i) /\ g[w] = FloatsOf(y, i)
      /\ h[w] = HistsOf(worker[w], i) /\ k[w] = HistsOf(y, i)
  <2>1. \A u \in Workers : /\ f[u] = FloatsOf(worker[u], i) /\ g[u] = FloatsOf(worker'[u], i)
                           /\ h[u] = HistsOf(worker[u], i) /\ k[u] = HistsOf(worker'[u], i)
    BY DEF FloatsOfAll, HistsOfAll
  <2> HIDE DEF f, g, h, k
  <2>2. \A u \in Workers : /\ f[u] \in Int /\ h[u] \in Int
                           /\ g[u] \in Int /\ k[u] \in Int
    <3> TAKE u \in Workers
    <3>1. worker[u] \in Busy \cup {Idle} /\ worker'[u] \in Busy \cup {Idle}
      BY <1>1
    <3>2. /\ FloatsOf(worker[u], i) \in Int /\ HistsOf(worker[u], i) \in Int
          /\ FloatsOf(worker'[u], i) \in Int /\ HistsOf(worker'[u], i) \in Int
      BY ONLY <3>1, HeldTypes
    <3> QED
      BY <2>1, <3>2
  <2>3. worker'[w] = y /\ \A u \in Workers \ {w} : worker'[u] = worker[u]
    BY <1>1
  <2> QED
    BY ONLY <2>1, <2>2, <2>3, w \in Workers
<1> HIDE DEF f, g, h, k
<1>3. /\ SumFunctionOnSet(g, Workers) = SumFunctionOnSet(f, Workers) - f[w] + g[w]
      /\ SumFunctionOnSet(f, Workers) \in Int
  BY <1>2, FiniteAssumption, SumOfChange
<1>4. /\ SumFunctionOnSet(k, Workers) = SumFunctionOnSet(h, Workers) - h[w] + k[w]
      /\ SumFunctionOnSet(h, Workers) \in Int
  BY <1>2, FiniteAssumption, SumOfChange
<1>5. /\ FloatGap(i) = SumFunctionOnSet(f, Workers) /\ HistGap(i) = SumFunctionOnSet(h, Workers)
      /\ Cardinality(A) <= TruncateGap(i)
  BY DEF LedgerAccounted, f, h
<1>6. FloatGap(i)' = SumFunctionOnSet(g, Workers) /\ HistGap(i)' = SumFunctionOnSet(k, Workers)
  BY <1>2, <1>3, <1>4, <1>5
<1>7. Cardinality(B) <= TruncateGap(i)'
  <2>1. A \ {w} = B \ {w} /\ IsFiniteSet(A) /\ (w \in A <=> Truncates(worker[w], i)) /\ (w \in B <=> Truncates(y, i))
    BY <1>1, FS_Subset, FiniteAssumption DEF TruncatingAt
  <2> HIDE DEF A, B
  <2>2. /\ Cardinality(A) \in Nat /\ Cardinality(B) \in Nat
        /\ Cardinality(B) = Cardinality(A) - One(Truncates(worker[w], i)) + One(Truncates(y, i))
    BY <2>1, CardinalityOfChange DEF One
  <2>3. TruncateGap(i) \in Int
    BY SkippedType DEF TruncateGap
  <2> QED
    BY <1>5, <2>2, <2>3 DEF One, TruncateMoves
<1> QED
  BY <1>6, <1>7 DEF LedgerAccounted, g, k, B

LEMMA HoldersMove ==
  ASSUME Inv, Inv', NEW w \in Workers, NEW y, worker' = [worker EXCEPT ![w] = y],
         AttemptGap = Cardinality(Holders),
         AttemptGap' = AttemptGap + One(Holds(y)) - One(Holds(worker[w]))
  PROVE  (AttemptGap = Cardinality(Holders))'
<1> DEFINE A == Holders
           B == Holders'
<1>1. worker'[w] = y /\ \A u \in Workers \ {w} : worker'[u] = worker[u]
  BY DEF Inv
<1>2. A \ {w} = B \ {w} /\ IsFiniteSet(A) /\ (w \in A <=> Holds(worker[w])) /\ (w \in B <=> Holds(y))
  BY <1>1, FS_Subset, FiniteAssumption DEF Holders
<1> HIDE DEF A, B
<1>3. /\ Cardinality(A) \in Nat /\ Cardinality(B) \in Nat
      /\ Cardinality(B) = Cardinality(A) - One(Holds(worker[w])) + One(Holds(y))
  BY <1>2, CardinalityOfChange DEF One
<1>4. AttemptGap = Cardinality(A)
  BY DEF A
<1>5. AttemptGap' = Cardinality(B)
  BY <1>3, <1>4 DEF One
<1> QED
  BY <1>5 DEF B

\* A step of w at identity i, in which the ledger of i gains what the record of w loses, and the
\* ledgers of the others stay.
LEMMA AccountsMove ==
  ASSUME AInv, Inv', NEW w \in Workers, NEW y, worker' = [worker EXCEPT ![w] = y],
         NEW i \in Identities,
         AtIdentity(worker[w], i) \/ worker[w] = Idle, AtIdentity(y, i) \/ y = Idle,
         FloatGap(i)' = FloatGap(i) + FloatsOf(y, i) - FloatsOf(worker[w], i),
         HistGap(i)' = HistGap(i) + HistsOf(y, i) - HistsOf(worker[w], i),
         TruncateMoves(worker[w], y, i),
         \A k \in Identities \ {i} : /\ matched'[k] = matched[k] /\ captured'[k] = captured[k]
                                     /\ skipped'[k] = skipped[k] /\ truncated'[k] = truncated[k],
         AttemptGap' = AttemptGap + One(Holds(y)) - One(Holds(worker[w]))
  PROVE  AInv'
<1>1. ASSUME NEW k \in Identities, k # i PROVE LedgerAccounted(k)'
  <2>1. /\ FloatsOf(y, k) = 0 /\ FloatsOf(worker[w], k) = 0 /\ HistsOf(y, k) = 0
        /\ HistsOf(worker[w], k) = 0 /\ ~Truncates(y, k) /\ ~Truncates(worker[w], k)
    BY <1>1 DEF FloatsOf, HistsOf, Truncates, AtIdentity
  <2>2. FloatGap(k)' = FloatGap(k) /\ HistGap(k)' = HistGap(k) /\ TruncateGap(k)' = TruncateGap(k)
    BY <1>1 DEF FloatGap, HistGap, TruncateGap, SkippedOver
  <2>3. FloatGap(k) \in Int /\ HistGap(k) \in Int /\ TruncateGap(k) \in Int
    BY SkippedType DEF FloatGap, HistGap, TruncateGap, AInv
  <2>4. /\ FloatGap(k)' = FloatGap(k) + FloatsOf(y, k) - FloatsOf(worker[w], k)
        /\ HistGap(k)' = HistGap(k) + HistsOf(y, k) - HistsOf(worker[w], k)
        /\ TruncateMoves(worker[w], y, k)
    BY <2>1, <2>2, <2>3 DEF One, TruncateMoves
  <2> QED
    BY <2>4, LedgerMoves DEF AInv
<1>2. LedgerAccounted(i)'
  <2>1. Inv /\ LedgerAccounted(i)
    BY DEF AInv
  <2> QED
    BY <2>1, LedgerMoves
<1>3. (AttemptGap = Cardinality(Holders))'
  BY HoldersMove DEF AInv
<1> QED
  BY <1>1, <1>2, <1>3 DEF AInv

LEMMA GapTypes ==
  ASSUME Inv, NEW i \in Identities
  PROVE  /\ FloatGap(i) \in Int /\ HistGap(i) \in Int /\ TruncateGap(i) \in Int /\ AttemptGap \in Int
         /\ limiter.attempts \in Int /\ SumFunctionOnSet(HandedAll, Identities) \in Int
<1>1. limiter.attempts \in Int
  BY DEF Inv, LimiterOK, BudgetOK
<1>2. \A k \in Identities : HandedAll[k] \in Int
  BY SkippedType DEF HandedAll
<1>3. SumFunctionOnSet(HandedAll, Identities) \in Int
  BY <1>2, FiniteAssumption, SumOfInt
<1> QED
  BY <1>1, <1>3, SkippedType DEF FloatGap, HistGap, TruncateGap, AttemptGap

\* As long as nothing is captured or skipped after a reservation, the attempts accounted for stay.
LEMMA AttemptsStay ==
  ASSUME \A k \in Identities : Handed(k)' = Handed(k), UNCHANGED limiter
  PROVE  AttemptGap' = AttemptGap
BY DEF AttemptGap, HandedAll

\* A step that leaves the ledger alone.
LEMMA QuietAccounts ==
  ASSUME AInv, Inv', NEW w \in Workers, NEW y, worker' = [worker EXCEPT ![w] = y],
         NEW i \in Identities, UNCHANGED << matched, captured, skipped, truncated >>,
         AtIdentity(worker[w], i) \/ worker[w] = Idle, AtIdentity(y, i) \/ y = Idle,
         FloatsOf(y, i) = FloatsOf(worker[w], i), HistsOf(y, i) = HistsOf(worker[w], i),
         ~Truncates(y, i), ~Truncates(worker[w], i),
         limiter'.attempts = limiter.attempts + One(Holds(y)) - One(Holds(worker[w]))
  PROVE  AInv'
<1>1. /\ FloatGap(i)' = FloatGap(i) /\ HistGap(i)' = HistGap(i) /\ TruncateGap(i)' = TruncateGap(i)
      /\ HandedAll' = HandedAll
  BY DEF FloatGap, HistGap, TruncateGap, HandedAll, Handed, SkippedOver
<1>2. /\ FloatGap(i) \in Int /\ HistGap(i) \in Int /\ TruncateGap(i) \in Int /\ limiter.attempts \in Int
      /\ SumFunctionOnSet(HandedAll, Identities) \in Int
  BY GapTypes DEF AInv
<1>3. worker[w] \in Busy \cup {Idle}
  BY DEF AInv, Inv
<1>4. FloatsOf(worker[w], i) \in Int /\ HistsOf(worker[w], i) \in Int
  BY ONLY <1>3, HeldTypes
<1>5. /\ FloatGap(i)' = FloatGap(i) + FloatsOf(y, i) - FloatsOf(worker[w], i)
      /\ HistGap(i)' = HistGap(i) + HistsOf(y, i) - HistsOf(worker[w], i)
  BY <1>1, <1>2, <1>4
<1>6. TruncateMoves(worker[w], y, i)
  BY <1>1, <1>2 DEF TruncateMoves, One
<1>7. AttemptGap' = AttemptGap + One(Holds(y)) - One(Holds(worker[w]))
  BY <1>1, <1>2 DEF AttemptGap, One
<1> QED
  BY <1>5, <1>6, <1>7, AccountsMove

LEMMA InspectAccounts ==
  ASSUME AInv, Inv', NEW w \in Workers, NEW i \in Identities, NEW s \in Series, Inspect(w, i, s)
  PROVE  AInv'
<1> DEFINE y == [ pc |-> IF s.hists > 0 THEN "match_histograms" ELSE "match_floats",
                  id |-> i, hists |-> s.hists, floats |-> s.floats, long |-> s.long,
                  clock |-> 0, reason |-> "none" ]
<1>1. /\ worker' = [worker EXCEPT ![w] = y] /\ worker[w] = Idle
      /\ UNCHANGED << matched, captured, skipped, truncated, limiter >>
  BY DEF Inspect, ledger
<1>2. y.pc \in {"match_histograms", "match_floats"} /\ y.id = i /\ y # Idle
  BY DEF Idle
<1> HIDE DEF y
<1>3. /\ AtIdentity(y, i) /\ FloatsOf(y, i) = 0 /\ HistsOf(y, i) = 0 /\ ~Truncates(y, i) /\ ~Holds(y)
      /\ FloatsOf(Idle, i) = 0 /\ HistsOf(Idle, i) = 0 /\ ~Truncates(Idle, i) /\ ~Holds(Idle)
  BY <1>2 DEF AtIdentity, FloatsOf, HistsOf, Truncates, Holds, Floats, Idle
<1>4. limiter'.attempts = limiter.attempts + One(Holds(y)) - One(Holds(worker[w]))
  BY <1>1, <1>3, GapTypes DEF AInv, One
<1> QED
  BY <1>1, <1>3, <1>4, QuietAccounts

LEMMA ReadClockAccounts ==
  ASSUME AInv, Inv', NEW w \in Workers, ReadClock(w)
  PROVE  AInv'
<1> DEFINE q == worker[w]
           y == [q EXCEPT !.pc = "reserve", !.clock = now]
<1>1. q # Idle /\ q \in Busy /\ q.pc = "read_clock" /\ q.id \in Identities
  <2>1. worker[w].pc = "read_clock"
    BY DEF ReadClock
  <2> QED
    BY <2>1, PcBusy DEF AInv
<1>2. /\ worker' = [worker EXCEPT ![w] = y]
      /\ UNCHANGED << matched, captured, skipped, truncated, limiter >>
  BY DEF ReadClock, ledger, AInv, Inv
<1> HIDE DEF q
<1>3. y.pc = "reserve" /\ y.id = q.id /\ y.floats = q.floats /\ y # Idle
  BY <1>1 DEF Busy, Idle
<1> HIDE DEF y
<1>4. /\ AtIdentity(q, q.id) /\ AtIdentity(y, q.id) /\ FloatsOf(y, q.id) = FloatsOf(q, q.id)
      /\ HistsOf(y, q.id) = HistsOf(q, q.id) /\ ~Truncates(y, q.id) /\ ~Truncates(q, q.id)
      /\ ~Holds(y) /\ ~Holds(q)
  BY <1>1, <1>3 DEF AtIdentity, FloatsOf, HistsOf, Truncates, Holds, Floats
<1>5. limiter'.attempts = limiter.attempts + One(Holds(y)) - One(Holds(q))
  BY <1>1, <1>2, <1>4, GapTypes DEF AInv, One
<1> QED
  BY <1>1, <1>2, <1>4, <1>5, QuietAccounts DEF q

\* A reservation is an attempt, and only a reservation is.
LEMMA ReservedAttempts ==
  ASSUME NEW lim, NEW t,
         lim \in [attempts : 0..MaxSamples, windowStart : Nat, windowCount : 0..Rate]
  PROVE  /\ Reserved(lim, t).attempts = lim.attempts + One(Refusal(lim, t) = "none")
         /\ Refusal(lim, t) \in {"duration_limit", "sample_limit", "rate_limit", "none"}
<1> DEFINE reason == Refusal(lim, t)
           roll == Rolled(lim, t)
<1>1. reason \in {"duration_limit", "sample_limit", "rate_limit", "none"}
  BY DEF Refusal
<1>2. lim.attempts \in Int /\ roll.attempts = lim.attempts
  BY DEF Rolled
<1>3. /\ reason \in Permanent => Reserved(lim, t) = lim
      /\ reason = "rate_limit" => Reserved(lim, t) = roll
      /\ reason = "none" => Reserved(lim, t) = [roll EXCEPT !.windowCount = @ + 1, !.attempts = @ + 1]
  BY DEF Reserved, Permanent
<1>4. roll = [attempts |-> roll.attempts, windowStart |-> roll.windowStart, windowCount |-> roll.windowCount]
  BY DEF Rolled
<1> HIDE DEF reason, roll
<1>5. CASE reason = "none"
  <2>1. Reserved(lim, t).attempts = roll.attempts + 1
    BY <1>3, <1>4, <1>5
  <2> QED
    BY <1>1, <1>2, <1>5, <2>1 DEF One, reason
<1>6. CASE reason # "none"
  <2>1. Reserved(lim, t).attempts = lim.attempts
    BY <1>1, <1>2, <1>3, <1>6 DEF Permanent
  <2> QED
    BY <1>1, <1>2, <1>6, <2>1 DEF One, reason
<1> QED
  BY <1>5, <1>6

LEMMA ReserveAccounts ==
  ASSUME AInv, Inv', NEW w \in Workers, Reserve(w)
  PROVE  AInv'
<1> DEFINE q == worker[w]
           reason == Refusal(limiter, worker[w].clock)
           y == [q EXCEPT !.reason = reason, !.pc = IF reason = "none" THEN "log" ELSE "skip"]
<1>1. q # Idle /\ q \in Busy /\ q.pc = "reserve" /\ q.id \in Identities
  <2>1. worker[w].pc = "reserve"
    BY DEF Reserve
  <2> QED
    BY <2>1, PcBusy DEF AInv
<1>2. /\ worker' = [worker EXCEPT ![w] = y] /\ limiter' = Reserved(limiter, worker[w].clock)
      /\ UNCHANGED << matched, captured, skipped, truncated >>
  BY DEF Reserve, ledger, AInv, Inv
<1>3. /\ limiter'.attempts = limiter.attempts + One(reason = "none") /\ limiter.attempts \in Int
      /\ reason \in {"duration_limit", "sample_limit", "rate_limit", "none"}
  BY <1>2, ReservedAttempts DEF AInv, Inv, LimiterOK, BudgetOK
<1> HIDE DEF q, reason
<1>4. /\ y.pc = (IF reason = "none" THEN "log" ELSE "skip") /\ y.reason = reason
      /\ y.id = q.id /\ y.floats = q.floats /\ y # Idle
  BY <1>1 DEF Busy, Idle
<1> HIDE DEF y
<1>5. /\ AtIdentity(q, q.id) /\ AtIdentity(y, q.id) /\ FloatsOf(y, q.id) = FloatsOf(q, q.id)
      /\ HistsOf(y, q.id) = HistsOf(q, q.id) /\ ~Truncates(y, q.id) /\ ~Truncates(q, q.id)
      /\ (Holds(y) <=> reason = "none") /\ ~Holds(q)
  BY <1>1, <1>3, <1>4 DEF AtIdentity, FloatsOf, HistsOf, Truncates, Holds, Floats, LogReasons
<1>6. limiter'.attempts = limiter.attempts + One(Holds(y)) - One(Holds(q))
  BY <1>3, <1>5 DEF One
<1> QED
  BY <1>1, <1>2, <1>5, <1>6, QuietAccounts DEF q

LEMMA LogAccounts ==
  ASSUME AInv, Inv', NEW w \in Workers, NEW outcome \in Outcomes, Log(w, outcome)
  PROVE  AInv'
<1> DEFINE q == worker[w]
           y == [q EXCEPT !.reason = outcome, !.pc = IF outcome = "none" THEN "capture" ELSE "skip"]
<1>1. q # Idle /\ q \in Busy /\ q.pc = "log" /\ q.id \in Identities
  <2>1. worker[w].pc = "log"
    BY DEF Log
  <2> QED
    BY <2>1, PcBusy DEF AInv
<1>2. /\ worker' = [worker EXCEPT ![w] = y]
      /\ UNCHANGED << matched, captured, skipped, truncated, limiter >>
  BY DEF Log, ledger, AInv, Inv
<1> HIDE DEF q
<1>3. /\ y.pc = (IF outcome = "none" THEN "capture" ELSE "skip") /\ y.reason = outcome
      /\ y.id = q.id /\ y.floats = q.floats /\ y # Idle
  BY <1>1 DEF Busy, Idle
<1> HIDE DEF y
<1>4. /\ AtIdentity(q, q.id) /\ AtIdentity(y, q.id) /\ FloatsOf(y, q.id) = FloatsOf(q, q.id)
      /\ HistsOf(y, q.id) = HistsOf(q, q.id) /\ ~Truncates(y, q.id) /\ ~Truncates(q, q.id)
      /\ Holds(y) /\ Holds(q)
  BY <1>1, <1>3 DEF AtIdentity, FloatsOf, HistsOf, Truncates, Holds, Floats, LogReasons, Outcomes
<1>5. limiter'.attempts = limiter.attempts + One(Holds(y)) - One(Holds(q))
  BY <1>1, <1>2, <1>4, GapTypes DEF AInv, One
<1> QED
  BY <1>1, <1>2, <1>4, <1>5, QuietAccounts DEF q

LEMMA MatchHistogramsAccounts ==
  ASSUME AInv, Inv', NEW w \in Workers, MatchHistograms(w)
  PROVE  AInv'
<1> DEFINE q == worker[w]
           y == [q EXCEPT !.pc = "skip_histograms"]
<1>0. PICK i \in Identities : i = q.id
  <2>1. worker[w].pc = "match_histograms"
    BY DEF MatchHistograms
  <2> QED
    BY <2>1, PcBusy DEF AInv
<1>1. q # Idle /\ q \in Busy /\ q.pc = "match_histograms" /\ i \in Identities /\ q.hists \in Nat
  <2>1. worker[w].pc = "match_histograms"
    BY DEF MatchHistograms
  <2> QED
    BY <2>1, PcBusy DEF AInv
<1>2. /\ worker' = [worker EXCEPT ![w] = y] /\ matched' = [matched EXCEPT ![i].histogram = @ + q.hists]
      /\ UNCHANGED << limiter, captured, skipped, truncated >>
  BY <1>0 DEF MatchHistograms, Goto, AInv, Inv
<1>3. y.pc = "skip_histograms" /\ y.id = i /\ y.hists = q.hists /\ y # Idle
  <2> HIDE DEF q
  <2> QED
    BY <1>0, <1>1 DEF Busy, Idle
<1>4. matched \in [Identities -> [SampleTypes -> Nat]]
  BY DEF AInv, Inv, LedgerOK
<1> HIDE DEF y, q
<1>5. /\ AtIdentity(q, i) /\ AtIdentity(y, i) /\ FloatsOf(q, i) = 0 /\ FloatsOf(y, i) = 0
      /\ HistsOf(q, i) = 0 /\ HistsOf(y, i) = q.hists /\ ~Truncates(q, i) /\ ~Truncates(y, i)
      /\ ~Holds(q) /\ ~Holds(y)
  BY <1>0, <1>1, <1>3 DEF AtIdentity, FloatsOf, HistsOf, Truncates, Holds, Floats
<1>6. /\ matched'[i].histogram = matched[i].histogram + q.hists /\ matched'[i].float = matched[i].float
      /\ \A k \in Identities \ {i} : matched'[k] = matched[k]
  BY <1>1, <1>2, <1>4 DEF SampleTypes
<1>7. /\ FloatGap(i)' = FloatGap(i) /\ TruncateGap(i)' = TruncateGap(i) /\ AttemptGap' = AttemptGap
      /\ HistGap(i)' = HistGap(i) + q.hists
  <2>1. HandedAll' = HandedAll
    BY <1>2 DEF HandedAll, Handed, SkippedOver
  <2>2. matched[i].histogram \in Int /\ skipped[i].unsupported_sample_type \in Int
    BY <1>1, SkippedType DEF AInv
  <2> QED
    BY <1>1, <1>2, <1>6, <2>1, <2>2 DEF FloatGap, TruncateGap, AttemptGap, HistGap, SkippedOver
<1>8. FloatGap(i) \in Int /\ HistGap(i) \in Int /\ TruncateGap(i) \in Int /\ AttemptGap \in Int
  BY <1>1, GapTypes DEF AInv
<1>9. /\ FloatGap(i)' = FloatGap(i) + FloatsOf(y, i) - FloatsOf(q, i)
      /\ HistGap(i)' = HistGap(i) + HistsOf(y, i) - HistsOf(q, i)
      /\ TruncateMoves(q, y, i)
      /\ AttemptGap' = AttemptGap + One(Holds(y)) - One(Holds(q))
  BY <1>1, <1>5, <1>7, <1>8 DEF TruncateMoves, One
<1> QED
  BY <1>1, <1>2, <1>5, <1>6, <1>9, AccountsMove DEF q

LEMMA SkipHistogramsAccounts ==
  ASSUME AInv, Inv', NEW w \in Workers, SkipHistograms(w)
  PROVE  AInv'
<1> DEFINE q == worker[w]
           y == [q EXCEPT !.pc = "match_floats", !.hists = 0]
           r == "unsupported_sample_type"
<1>0. PICK i \in Identities : i = q.id
  <2>1. worker[w].pc = "skip_histograms"
    BY DEF SkipHistograms
  <2> QED
    BY <2>1, PcBusy DEF AInv
<1>1. q # Idle /\ q \in Busy /\ q.pc = "skip_histograms" /\ i \in Identities /\ q.hists \in Nat
  <2>1. worker[w].pc = "skip_histograms"
    BY DEF SkipHistograms
  <2> QED
    BY <2>1, PcBusy DEF AInv
<1>2. /\ worker' = [worker EXCEPT ![w] = y] /\ skipped' = [skipped EXCEPT ![i][r] = @ + q.hists]
      /\ UNCHANGED << limiter, matched, captured, truncated >>
  BY <1>0 DEF SkipHistograms, AInv, Inv
<1>3. y.pc = "match_floats" /\ y.id = i /\ y # Idle
  <2> HIDE DEF q
  <2> QED
    BY <1>0, <1>1 DEF Busy, Idle
<1>4. skipped \in [Identities -> [Reasons -> Nat]] /\ r \in Reasons /\ r \notin FloatReasons /\ r \notin LogReasons
      /\ FloatReasons \subseteq Reasons /\ LogReasons \subseteq Reasons
  BY DEF AInv, Inv, LedgerOK, Reasons, FloatReasons, LogReasons
<1> HIDE DEF y, q
<1>5. /\ AtIdentity(q, i) /\ AtIdentity(y, i) /\ FloatsOf(q, i) = 0 /\ FloatsOf(y, i) = 0
      /\ HistsOf(q, i) = q.hists /\ HistsOf(y, i) = 0 /\ ~Truncates(q, i) /\ ~Truncates(y, i)
      /\ ~Holds(q) /\ ~Holds(y)
  BY <1>0, <1>1, <1>3 DEF AtIdentity, FloatsOf, HistsOf, Truncates, Holds, Floats
<1>6. /\ skipped'[i][r] = skipped[i][r] + q.hists
      /\ \A k \in Identities \ {i} : skipped'[k] = skipped[k]
  BY <1>1, <1>2, <1>4
<1>7. \A k \in Identities : /\ SkippedOver(k, FloatReasons)' = SkippedOver(k, FloatReasons)
                            /\ SkippedOver(k, LogReasons)' = SkippedOver(k, LogReasons)
  <2>1. Inv /\ IsFiniteSet(FloatReasons) /\ IsFiniteSet(LogReasons)
    BY FiniteReasons DEF AInv
  <2> HIDE DEF r
  <2>2. /\ SkippedMoves(i, FloatReasons, IF r \in FloatReasons THEN q.hists ELSE 0)
        /\ SkippedMoves(i, LogReasons, IF r \in LogReasons THEN q.hists ELSE 0)
    BY ONLY <1>1, <1>2, <1>4, <2>1, SkippedOverMoves
  <2>3. SkippedMoves(i, FloatReasons, 0) /\ SkippedMoves(i, LogReasons, 0)
    BY <1>4, <2>2
  <2>4. SkippedOver(i, FloatReasons) \in Int /\ SkippedOver(i, LogReasons) \in Int
    BY <1>1, <2>1, SkippedType
  <2> QED
    BY <2>3, <2>4 DEF SkippedMoves
<1>8. /\ FloatGap(i)' = FloatGap(i) /\ TruncateGap(i)' = TruncateGap(i) /\ AttemptGap' = AttemptGap
      /\ HistGap(i)' = HistGap(i) - q.hists
  <2>1. HandedAll' = HandedAll
    BY <1>2, <1>7 DEF HandedAll, Handed
  <2>2. matched[i].histogram \in Int /\ skipped[i].unsupported_sample_type \in Int
    BY <1>1, SkippedType DEF AInv
  <2> QED
    BY <1>1, <1>2, <1>6, <1>7, <2>1, <2>2 DEF FloatGap, TruncateGap, AttemptGap, HistGap
<1>9. FloatGap(i) \in Int /\ HistGap(i) \in Int /\ TruncateGap(i) \in Int /\ AttemptGap \in Int
  BY <1>1, GapTypes DEF AInv
<1>10. /\ FloatGap(i)' = FloatGap(i) + FloatsOf(y, i) - FloatsOf(q, i)
       /\ HistGap(i)' = HistGap(i) + HistsOf(y, i) - HistsOf(q, i)
       /\ TruncateMoves(q, y, i)
       /\ AttemptGap' = AttemptGap + One(Holds(y)) - One(Holds(q))
  BY <1>1, <1>5, <1>8, <1>9 DEF TruncateMoves, One
<1> QED
  BY <1>1, <1>2, <1>5, <1>6, <1>10, AccountsMove DEF q

LEMMA MatchFloatsAccounts ==
  ASSUME AInv, Inv', NEW w \in Workers, MatchFloats(w)
  PROVE  AInv'
<1> DEFINE q == worker[w]
           y == IF q.floats = 0 THEN Idle ELSE [q EXCEPT !.pc = "read_clock"]
<1>0. PICK i \in Identities : i = q.id
  <2>1. worker[w].pc = "match_floats"
    BY DEF MatchFloats
  <2> QED
    BY <2>1, PcBusy DEF AInv
<1>1. q # Idle /\ q \in Busy /\ q.pc = "match_floats" /\ i \in Identities /\ q.floats \in Nat
  <2>1. worker[w].pc = "match_floats"
    BY DEF MatchFloats
  <2> QED
    BY <2>1, PcBusy DEF AInv
<1>2. /\ worker' = [worker EXCEPT ![w] = y] /\ matched' = [matched EXCEPT ![i].float = @ + q.floats]
      /\ UNCHANGED << limiter, captured, skipped, truncated >>
  BY <1>0 DEF MatchFloats, AInv, Inv
<1>3. \/ y = Idle /\ q.floats = 0
      \/ y.pc = "read_clock" /\ y.id = i /\ y.floats = q.floats /\ y # Idle
  <2> HIDE DEF q
  <2> QED
    BY <1>0, <1>1 DEF Busy, Idle
<1>4. matched \in [Identities -> [SampleTypes -> Nat]]
  BY DEF AInv, Inv, LedgerOK
<1> HIDE DEF y, q
<1>5. /\ AtIdentity(q, i) /\ (AtIdentity(y, i) \/ y = Idle) /\ FloatsOf(q, i) = 0 /\ FloatsOf(y, i) = q.floats
      /\ HistsOf(q, i) = 0 /\ HistsOf(y, i) = 0 /\ ~Truncates(q, i) /\ ~Truncates(y, i)
      /\ ~Holds(q) /\ ~Holds(y)
  BY <1>0, <1>1, <1>3 DEF AtIdentity, FloatsOf, HistsOf, Truncates, Holds, Floats, Idle
<1>6. /\ matched'[i].float = matched[i].float + q.floats /\ matched'[i].histogram = matched[i].histogram
      /\ \A k \in Identities \ {i} : matched'[k] = matched[k]
  BY <1>1, <1>2, <1>4 DEF SampleTypes
<1>7. /\ HistGap(i)' = HistGap(i) /\ TruncateGap(i)' = TruncateGap(i) /\ AttemptGap' = AttemptGap
      /\ FloatGap(i)' = FloatGap(i) + q.floats
  <2>1. HandedAll' = HandedAll
    BY <1>2 DEF HandedAll, Handed, SkippedOver
  <2>2. matched[i].float \in Int /\ captured[i] \in Int /\ SkippedOver(i, FloatReasons) \in Int
    BY <1>1, SkippedType DEF AInv
  <2>3. SkippedOver(i, FloatReasons)' = SkippedOver(i, FloatReasons)
    BY <1>2 DEF SkippedOver
  <2> QED
    BY <1>1, <1>2, <1>6, <2>1, <2>2, <2>3 DEF FloatGap, TruncateGap, AttemptGap, HistGap
<1>8. FloatGap(i) \in Int /\ HistGap(i) \in Int /\ TruncateGap(i) \in Int /\ AttemptGap \in Int
  BY <1>1, GapTypes DEF AInv
<1>9. /\ FloatGap(i)' = FloatGap(i) + FloatsOf(y, i) - FloatsOf(q, i)
      /\ HistGap(i)' = HistGap(i) + HistsOf(y, i) - HistsOf(q, i)
      /\ TruncateMoves(q, y, i)
      /\ AttemptGap' = AttemptGap + One(Holds(y)) - One(Holds(q))
  BY <1>1, <1>5, <1>7, <1>8 DEF TruncateMoves, One
<1> QED
  BY <1>1, <1>2, <1>5, <1>6, <1>9, AccountsMove DEF q

\* Where NextFloat takes a worker, as a function of its record.
NextOf(x) ==
  IF x.floats = 1 THEN Idle ELSE [x EXCEPT !.pc = "read_clock", !.floats = @ - 1, !.reason = "none"]

\* What is left of a batch after its first float.
LEMMA NextOfHolds ==
  ASSUME NEW x \in Busy, NEW i, AtIdentity(x, i), x.floats >= 1, NEW y, y = NextOf(x)
  PROVE  /\ AtIdentity(y, i) \/ y = Idle
         /\ FloatsOf(y, i) = x.floats - 1 /\ HistsOf(y, i) = 0 /\ ~Truncates(y, i) /\ ~Holds(y)
<1>1. CASE x.floats = 1
  <2>1. y = Idle
    BY <1>1 DEF NextOf
  <2> QED
    BY <1>1, <2>1 DEF FloatsOf, HistsOf, Truncates, Holds, AtIdentity, Idle
<1>2. CASE x.floats # 1
  <2>1. y.pc = "read_clock" /\ y.floats = x.floats - 1 /\ y.id = x.id /\ y # Idle
    BY <1>2 DEF NextOf, Busy, Idle
  <2> QED
    BY <2>1 DEF FloatsOf, HistsOf, Truncates, Holds, AtIdentity, Floats
<1> QED
  BY <1>1, <1>2

LEMMA SkipAccounts ==
  ASSUME AInv, Inv', NEW w \in Workers, Skip(w)
  PROVE  AInv'
<1> DEFINE q == worker[w]
           permanent == q.reason \in Permanent
           y == IF permanent THEN Idle ELSE NextOf(q)
<1>0. worker[w].pc = "skip" /\ q # Idle /\ q \in Busy /\ q.floats \in Nat /\ q.floats >= 1 /\ q.id \in Identities
  <2>1. worker[w].pc = "skip"
    BY DEF Skip
  <2> QED
    BY <2>1, PcBusy DEF AInv
<1>1. PICK i \in Identities : i = q.id
  BY <1>0
<1>2. PICK r \in FloatReasons : r = q.reason
  <2>1. WorkerOK(w)
    BY DEF AInv, Inv
  <2> QED
    BY <1>0, <2>1 DEF WorkerOK
<1>3. PICK n \in Nat : n = IF permanent THEN q.floats ELSE 1
  BY <1>0
<1>4. /\ worker' = [worker EXCEPT ![w] = y] /\ skipped' = [skipped EXCEPT ![i][r] = @ + n]
      /\ UNCHANGED << limiter, matched, captured, truncated >>
  BY <1>1, <1>2, <1>3 DEF Skip, NextFloat, NextOf
<1>5. /\ skipped \in [Identities -> [Reasons -> Nat]] /\ r \in Reasons /\ r # "unsupported_sample_type"
      /\ FloatReasons \subseteq Reasons /\ LogReasons \subseteq Reasons
      /\ (permanent => r \notin LogReasons)
  BY <1>2 DEF AInv, Inv, LedgerOK, Reasons, FloatReasons, LogReasons, Permanent
<1> HIDE DEF permanent, q
<1>6. /\ AtIdentity(q, i) /\ FloatsOf(q, i) = q.floats /\ HistsOf(q, i) = 0 /\ ~Truncates(q, i)
      /\ (Holds(q) <=> r \in LogReasons) /\ q.pc = "skip"
  BY <1>0, <1>1, <1>2 DEF AtIdentity, FloatsOf, HistsOf, Truncates, Holds, Floats, q
<1>7. /\ AtIdentity(y, i) \/ y = Idle
      /\ FloatsOf(y, i) = q.floats - n /\ HistsOf(y, i) = 0 /\ ~Truncates(y, i) /\ ~Holds(y)
  <2>1. CASE permanent
    BY <1>0, <1>3, <2>1 DEF FloatsOf, HistsOf, Truncates, Holds, AtIdentity, Idle
  <2>2. CASE ~permanent
    <3>1. y = NextOf(q) /\ n = 1
      BY <1>3, <2>2
    <3> HIDE DEF y
    <3> QED
      BY <1>0, <1>6, <3>1, NextOfHolds
  <2> QED
    BY <2>1, <2>2
<1> HIDE DEF y
<1>8. /\ SkippedMoves(i, FloatReasons, n) /\ SkippedMoves(i, LogReasons, One(r \in LogReasons))
  <2>1. Inv /\ IsFiniteSet(FloatReasons) /\ IsFiniteSet(LogReasons)
    BY FiniteReasons DEF AInv
  <2>2. /\ SkippedMoves(i, FloatReasons, IF r \in FloatReasons THEN n ELSE 0)
        /\ SkippedMoves(i, LogReasons, IF r \in LogReasons THEN n ELSE 0)
    BY ONLY i \in Identities, n \in Nat, <1>4, <1>5, <2>1, SkippedOverMoves
  <2>3. r \in LogReasons => n = 1
    BY <1>3, <1>5
  <2> QED
    BY <2>2, <2>3 DEF One
<1>9. \A k \in Identities \ {i} : skipped'[k] = skipped[k]
  BY <1>4, <1>5
<1>10. skipped'[i].unsupported_sample_type = skipped[i].unsupported_sample_type
  BY <1>4, <1>5
<1>11. AttemptGap' = AttemptGap - One(r \in LogReasons) /\ AttemptGap \in Int
  <2>1. PICK d \in Int : d = One(r \in LogReasons)
    BY DEF One
  <2>2. captured[i] \in Int /\ SkippedOver(i, LogReasons) \in Int /\ Inv
    BY SkippedType DEF AInv
  <2>3. Handed(i)' = Handed(i) + d
    BY <1>4, <1>8, <2>1, <2>2 DEF Handed, SkippedMoves
  <2>4. \A k \in Identities \ {i} : Handed(k)' = Handed(k)
    BY <1>4, <1>8 DEF Handed, SkippedMoves
  <2>5. SumFunctionOnSet(HandedAll, Identities)' = SumFunctionOnSet(HandedAll, Identities) + d
    BY <2>2, <2>3, <2>4, HandedMoves
  <2>6. SumFunctionOnSet(HandedAll, Identities) \in Int /\ limiter.attempts \in Int
    BY <2>2, GapTypes
  <2> QED
    BY <1>4, <2>1, <2>5, <2>6 DEF AttemptGap
<1>12. FloatGap(i)' = FloatGap(i) - n /\ HistGap(i)' = HistGap(i) /\ TruncateGap(i)' = TruncateGap(i)
  <2>1. matched[i].float \in Int /\ captured[i] \in Int /\ SkippedOver(i, FloatReasons) \in Int
    BY SkippedType DEF AInv
  <2> QED
    BY <1>4, <1>8, <1>10, <2>1 DEF FloatGap, HistGap, TruncateGap, SkippedMoves
<1>13. FloatGap(i) \in Int /\ HistGap(i) \in Int /\ TruncateGap(i) \in Int
  BY GapTypes DEF AInv
<1>14. /\ FloatGap(i)' = FloatGap(i) + FloatsOf(y, i) - FloatsOf(q, i)
       /\ HistGap(i)' = HistGap(i) + HistsOf(y, i) - HistsOf(q, i)
       /\ TruncateMoves(q, y, i)
       /\ AttemptGap' = AttemptGap + One(Holds(y)) - One(Holds(q))
  BY <1>0, <1>6, <1>7, <1>11, <1>12, <1>13 DEF TruncateMoves, One
<1> QED
  BY <1>4, <1>6, <1>7, <1>9, <1>14, AccountsMove DEF q

LEMMA CaptureAccounts ==
  ASSUME AInv, Inv', NEW w \in Workers, Capture(w)
  PROVE  AInv'
<1> DEFINE q == worker[w]
           y == IF q.long THEN [q EXCEPT !.pc = "truncate"] ELSE NextOf(q)
<1>0. worker[w].pc = "capture" /\ q # Idle /\ q \in Busy /\ q.floats \in Nat /\ q.floats >= 1 /\ q.id \in Identities
  <2>1. worker[w].pc = "capture"
    BY DEF Capture
  <2> QED
    BY <2>1, PcBusy DEF AInv
<1>1. PICK i \in Identities : i = q.id
  BY <1>0
<1>2. /\ worker' = [worker EXCEPT ![w] = y] /\ captured' = [captured EXCEPT ![i] = @ + 1]
      /\ UNCHANGED << limiter, matched, skipped, truncated >>
  BY <1>1 DEF Capture, Goto, NextFloat, NextOf
<1>3. captured \in [Identities -> Nat]
  BY DEF AInv, Inv, LedgerOK
<1> HIDE DEF q
<1>4. /\ AtIdentity(q, i) /\ FloatsOf(q, i) = q.floats /\ HistsOf(q, i) = 0 /\ ~Truncates(q, i) /\ Holds(q)
  BY <1>0, <1>1 DEF AtIdentity, FloatsOf, HistsOf, Truncates, Holds, Floats, q
<1>5. /\ AtIdentity(y, i) \/ y = Idle
      /\ FloatsOf(y, i) = q.floats - 1 /\ HistsOf(y, i) = 0 /\ ~Holds(y)
  <2>1. CASE q.long
    <3>1. y.pc = "truncate" /\ y.floats = q.floats /\ y.id = q.id /\ y # Idle
      BY <1>0, <2>1 DEF Busy, Idle
    <3> HIDE DEF y
    <3> QED
      BY <1>1, <3>1 DEF FloatsOf, HistsOf, Holds, AtIdentity, Floats
  <2>2. CASE ~q.long
    <3>1. y = NextOf(q)
      BY <2>2
    <3> HIDE DEF y
    <3> QED
      BY <1>0, <1>4, <3>1, NextOfHolds
  <2> QED
    BY <2>1, <2>2
<1> HIDE DEF y
<1>6. captured'[i] = captured[i] + 1 /\ captured[i] \in Int /\ \A k \in Identities \ {i} : captured'[k] = captured[k]
  BY <1>2, <1>3
<1>7. AttemptGap' = AttemptGap - 1 /\ AttemptGap \in Int
  <2>1. PICK d \in Int : d = 1
    OBVIOUS
  <2>2. SkippedOver(i, LogReasons) \in Int /\ Inv
    BY SkippedType DEF AInv
  <2>3. Handed(i)' = Handed(i) + d
    BY <1>2, <1>6, <2>1, <2>2 DEF Handed, SkippedOver
  <2>4. \A k \in Identities \ {i} : Handed(k)' = Handed(k)
    BY <1>2, <1>6 DEF Handed, SkippedOver
  <2>5. SumFunctionOnSet(HandedAll, Identities)' = SumFunctionOnSet(HandedAll, Identities) + d
    BY <2>2, <2>3, <2>4, HandedMoves
  <2>6. SumFunctionOnSet(HandedAll, Identities) \in Int /\ limiter.attempts \in Int
    BY <2>2, GapTypes
  <2> QED
    BY <1>2, <2>1, <2>5, <2>6 DEF AttemptGap
<1>8. FloatGap(i)' = FloatGap(i) - 1 /\ HistGap(i)' = HistGap(i) /\ TruncateGap(i)' = TruncateGap(i) + 1
  <2>1. matched[i].float \in Int /\ SkippedOver(i, FloatReasons) \in Int /\ truncated[i] \in Int
    BY SkippedType DEF AInv
  <2> QED
    BY <1>2, <1>6, <2>1 DEF FloatGap, HistGap, TruncateGap, SkippedOver
<1>9. FloatGap(i) \in Int /\ HistGap(i) \in Int /\ TruncateGap(i) \in Int
  BY GapTypes DEF AInv
<1>10. /\ FloatGap(i)' = FloatGap(i) + FloatsOf(y, i) - FloatsOf(q, i)
       /\ HistGap(i)' = HistGap(i) + HistsOf(y, i) - HistsOf(q, i)
       /\ TruncateMoves(q, y, i)
       /\ AttemptGap' = AttemptGap + One(Holds(y)) - One(Holds(q))
  BY <1>0, <1>4, <1>5, <1>7, <1>8, <1>9 DEF TruncateMoves, One
<1> QED
  BY <1>2, <1>4, <1>5, <1>6, <1>10, AccountsMove DEF q

LEMMA TruncateAccounts ==
  ASSUME AInv, Inv', NEW w \in Workers, Truncate(w)
  PROVE  AInv'
<1> DEFINE q == worker[w]
           y == NextOf(q)
<1>0. worker[w].pc = "truncate" /\ q # Idle /\ q \in Busy /\ q.floats \in Nat /\ q.floats >= 1 /\ q.id \in Identities
  <2>1. worker[w].pc = "truncate"
    BY DEF Truncate
  <2> QED
    BY <2>1, PcBusy DEF AInv
<1>1. PICK i \in Identities : i = q.id
  BY <1>0
<1>2. /\ worker' = [worker EXCEPT ![w] = y] /\ truncated' = [truncated EXCEPT ![i] = @ + 1]
      /\ UNCHANGED << limiter, matched, skipped, captured >>
  BY <1>1 DEF Truncate, NextFloat, NextOf
<1>3. truncated \in [Identities -> Nat]
  BY DEF AInv, Inv, LedgerOK
<1> HIDE DEF q, y
<1>4. /\ AtIdentity(q, i) /\ FloatsOf(q, i) = q.floats - 1 /\ HistsOf(q, i) = 0 /\ Truncates(q, i) /\ ~Holds(q)
  BY <1>0, <1>1 DEF AtIdentity, FloatsOf, HistsOf, Truncates, Holds, Floats, q
<1>5. /\ AtIdentity(y, i) \/ y = Idle
      /\ FloatsOf(y, i) = q.floats - 1 /\ HistsOf(y, i) = 0 /\ ~Truncates(y, i) /\ ~Holds(y)
  BY <1>0, <1>4, NextOfHolds DEF y
<1>6. truncated'[i] = truncated[i] + 1 /\ \A k \in Identities \ {i} : truncated'[k] = truncated[k]
  BY <1>2, <1>3
<1>7. AttemptGap' = AttemptGap
  BY <1>2, AttemptsStay DEF Handed, SkippedOver
<1>8. FloatGap(i)' = FloatGap(i) /\ HistGap(i)' = HistGap(i) /\ TruncateGap(i)' = TruncateGap(i) - 1
  <2>1. captured[i] \in Int /\ truncated[i] \in Int
    BY SkippedType DEF AInv
  <2> QED
    BY <1>2, <1>6, <2>1 DEF FloatGap, HistGap, TruncateGap, SkippedOver
<1>9. FloatGap(i) \in Int /\ HistGap(i) \in Int /\ TruncateGap(i) \in Int /\ AttemptGap \in Int
  BY GapTypes DEF AInv
<1>10. /\ FloatGap(i)' = FloatGap(i) + FloatsOf(y, i) - FloatsOf(q, i)
       /\ HistGap(i)' = HistGap(i) + HistsOf(y, i) - HistsOf(q, i)
       /\ TruncateMoves(q, y, i)
       /\ AttemptGap' = AttemptGap + One(Holds(y)) - One(Holds(q))
  BY <1>0, <1>4, <1>5, <1>7, <1>8, <1>9 DEF TruncateMoves, One
<1> QED
  BY <1>2, <1>4, <1>5, <1>6, <1>10, AccountsMove DEF q

LEMMA InitAInv == Init => AInv
<1> SUFFICES ASSUME Init PROVE AInv
  OBVIOUS
<1>1. Inv
  BY InitInv
<1>2. ASSUME NEW i \in Identities PROVE LedgerAccounted(i) /\ Handed(i) = 0
  <2> DEFINE f == FloatsOfAll(i)
             h == HistsOfAll(i)
  <2>1. /\ \A w \in Workers : f[w] = 0 /\ h[w] = 0
        /\ TruncatingAt(i) = {}
    BY DEF Init, FloatsOfAll, HistsOfAll, TruncatingAt, FloatsOf, HistsOf, Truncates, AtIdentity
  <2> HIDE DEF f, h
  <2>2. SumFunctionOnSet(f, Workers) = 0 /\ SumFunctionOnSet(h, Workers) = 0
    BY <2>1, FiniteAssumption, SumOfZero
  <2>3. Cardinality(TruncatingAt(i)) = 0
    BY <2>1, FS_EmptySet
  <2>4. SkippedOver(i, FloatReasons) = 0 /\ SkippedOver(i, LogReasons) = 0
    <3>1. \A r \in FloatReasons \cup LogReasons : skipped[i][r] = 0
      BY DEF Init, Reasons, FloatReasons, LogReasons
    <3> QED
      BY <3>1, FiniteReasons, SumOfZero DEF SkippedOver
  <2>5. /\ matched[i].float = 0 /\ matched[i].histogram = 0 /\ captured[i] = 0 /\ truncated[i] = 0
        /\ skipped[i].unsupported_sample_type = 0
    BY DEF Init, SampleTypes, Reasons
  <2> QED
    BY <2>2, <2>3, <2>4, <2>5 DEF LedgerAccounted, FloatGap, HistGap, TruncateGap, Handed, f, h
<1>3. AttemptGap = Cardinality(Holders)
  <2>1. \A i \in Identities : HandedAll[i] = 0
    BY <1>2 DEF HandedAll
  <2>2. SumFunctionOnSet(HandedAll, Identities) = 0
    BY <2>1, FiniteAssumption, SumOfZero
  <2>3. Holders = {} /\ limiter.attempts = 0
    BY DEF Init, Holders, Holds, Idle
  <2>4. Cardinality(Holders) = 0
    BY <2>3, FS_EmptySet
  <2> QED
    BY <2>2, <2>3, <2>4 DEF AttemptGap
<1> QED
  BY <1>1, <1>2, <1>3 DEF AInv

LEMMA NextAInv == AInv /\ [Next]_vars => AInv'
<1> SUFFICES ASSUME AInv, [Next]_vars PROVE AInv'
  OBVIOUS
<1>1. Inv'
  BY NextInv DEF AInv
<1>2. CASE \E w \in Workers, i \in Identities, s \in Series : Inspect(w, i, s)
  BY <1>1, <1>2, InspectAccounts
<1>3. ASSUME NEW w \in Workers, Work(w) PROVE AInv'
  BY <1>1, <1>3, MatchHistogramsAccounts, SkipHistogramsAccounts, MatchFloatsAccounts,
     ReadClockAccounts, ReserveAccounts, LogAccounts, SkipAccounts, CaptureAccounts,
     TruncateAccounts DEF Work
<1>4. CASE Tick \/ UNCHANGED vars
  <2>1. UNCHANGED << limiter, matched, captured, skipped, truncated, worker >>
    BY <1>4 DEF Tick, vars, ledger
  <2>2. \A i \in Identities : LedgerAccounted(i)' /\ Handed(i)' = Handed(i)
    BY <2>1 DEF AInv, LedgerAccounted, FloatGap, HistGap, TruncateGap, SkippedOver, FloatsOfAll,
                HistsOfAll, TruncatingAt, Handed
  <2>3. AttemptGap' = AttemptGap /\ Holders' = Holders
    BY <2>1, <2>2, AttemptsStay DEF Holders
  <2> QED
    BY <1>1, <2>2, <2>3 DEF AInv
<1> QED
  BY <1>2, <1>3, <1>4 DEF Next

LEMMA AlwaysAInv == Spec => []AInv
BY InitAInv, NextAInv, PTL DEF Spec

LEMMA AInvBalanced == AInv => LedgerBalanced
<1> SUFFICES ASSUME AInv, NEW i \in Identities
             PROVE  /\ matched[i].float = captured[i] + SkippedOver(i, FloatReasons)
                                            + SumFunction(PendingFloats(i))
                    /\ matched[i].histogram = skipped[i].unsupported_sample_type
                                                + SumFunction(PendingHists(i))
                    /\ truncated[i] + Cardinality(InspectingAt(i, "truncate")) <= captured[i]
  BY DEF LedgerBalanced
<1> DEFINE f == FloatsOfAll(i)
           h == HistsOfAll(i)
<1>1. PendingFloats(i) = f /\ PendingHists(i) = h
  BY DEF PendingFloats, PendingHists, FloatsOfAll, HistsOfAll, FloatsOf, HistsOf, Floats,
         AtIdentity, Inspecting, InspectingAt, Pending
<1>2. InspectingAt(i, "truncate") = TruncatingAt(i)
  BY DEF InspectingAt, Inspecting, TruncatingAt, Truncates, AtIdentity
<1>3. DOMAIN f = Workers /\ DOMAIN h = Workers /\ \A w \in Workers : f[w] \in Int /\ h[w] \in Int
  <2>1. \A w \in Workers : worker[w] \in Busy \cup {Idle}
    BY DEF AInv, Inv
  <2> QED
    BY <2>1, HeldTypes DEF FloatsOfAll, HistsOfAll
<1>4. LedgerAccounted(i)
  BY DEF AInv
<1> HIDE DEF f, h
<1>5. /\ SumFunction(f) = SumFunctionOnSet(f, Workers) /\ SumFunction(h) = SumFunctionOnSet(h, Workers)
      /\ SumFunctionOnSet(f, Workers) \in Int /\ SumFunctionOnSet(h, Workers) \in Int
  BY <1>3, FiniteAssumption, SumOfWhole, SumOfInt
<1>6. FloatGap(i) = SumFunction(f) /\ HistGap(i) = SumFunction(h) /\ Cardinality(TruncatingAt(i)) <= TruncateGap(i)
  BY <1>4, <1>5 DEF LedgerAccounted, f, h
<1>7. /\ matched[i].float \in Int /\ captured[i] \in Int /\ SkippedOver(i, FloatReasons) \in Int
      /\ matched[i].histogram \in Int /\ skipped[i].unsupported_sample_type \in Int /\ truncated[i] \in Int
  BY SkippedType DEF AInv
<1>8. Cardinality(TruncatingAt(i)) \in Nat
  BY FS_Subset, FS_CardinalityType, FiniteAssumption DEF TruncatingAt
<1> QED
  BY <1>1, <1>2, <1>5, <1>6, <1>7, <1>8 DEF FloatGap, HistGap, TruncateGap

LEMMA AInvAttempts == AInv => AttemptsAccounted
<1> SUFFICES ASSUME AInv PROVE AttemptsAccounted
  OBVIOUS
<1> DEFINE f == [i \in Identities |-> captured[i] + SkippedOver(i, {"log_disabled", "log_error"})]
<1>1. f = HandedAll
  BY DEF HandedAll, Handed, LogReasons
<1>2. {w \in Workers : HoldsAttempt(w)} = Holders
  BY DEF HoldsAttempt, Holders, Holds, LogReasons
<1>3. DOMAIN HandedAll = Identities
  BY DEF HandedAll
<1>4. SumFunction(HandedAll) = SumFunctionOnSet(HandedAll, Identities)
  BY <1>3, SumOfWhole
<1>5. AttemptGap = Cardinality(Holders) /\ limiter.attempts \in Int
  BY DEF AInv, Inv, LimiterOK, BudgetOK
<1>6. \A i \in Identities : HandedAll[i] \in Int
  BY SkippedType DEF AInv, HandedAll
<1>7. SumFunctionOnSet(HandedAll, Identities) \in Int /\ Cardinality(Holders) \in Nat
  BY <1>6, FiniteAssumption, SumOfInt, FS_Subset, FS_CardinalityType DEF Holders
<1>8. limiter.attempts = SumFunction(HandedAll) + Cardinality(Holders)
  BY <1>4, <1>5, <1>7 DEF AttemptGap
<1> QED
  BY <1>1, <1>2, <1>8 DEF AttemptsAccounted

\* For every number of handlers, identities and batches, the samples an identity has matched are
\* captured, skipped, or in the hands of a handler that is still at its batch, and nothing is
\* captured or truncated ahead of its time (sampleCapture.inspect).
THEOREM LedgerIsBalanced == Spec => []LedgerBalanced
BY AlwaysAInv, AInvBalanced, PTL

\* Every attempt of the session's budget ends as a captured sample or a failed write, or is one
\* that a handler still holds (sampleCapture.reserve and inspect).
THEOREM AttemptsAreAccounted == Spec => []AttemptsAccounted
BY AlwaysAInv, AInvAttempts, PTL
==============================================================================
