-------------------------------- MODULE LoadGen --------------------------------
(***************************************************************************)
(* The load generator, cmd/rwi-loadgen/main.go: workers that number,       *)
(* generate and send requests until the context is done, counters that     *)
(* they add to one after the other, and the main goroutine, which prints   *)
(* snapshots of the counters while they run and a summary when all of them *)
(* have returned.  The four ratios are zero: all samples are meant to be   *)
(* good.  Two error paths are left out, which no message of the generator  *)
(* and no address that validate accepts can take: a message that cannot be *)
(* encoded, and a request that cannot be built.                            *)
(***************************************************************************)
EXTENDS Integers, Sequences, FiniteSets

CONSTANTS
  Workers,           \* the goroutines of cfg.workers
  SeriesPerRequest, SamplesPerSeries, ActiveSeries,
  PathCount,         \* tenants, sinks and writers take turns with every request
  MaxTime,           \* bound of the model: the clock stops here, in milliseconds
  MaxRequests        \* bound of the model: no round begins after so many requests

\* cfg.validate.
ASSUME CountsAssumption ==
  /\ SeriesPerRequest \in Nat \ {0} /\ SamplesPerSeries \in Nat \ {0}
  /\ ActiveSeries \in Nat \ {0} /\ PathCount \in Nat \ {0}
ASSUME WorkersAssumption == IsFiniteSet(Workers) /\ Workers # {}
ASSUME BoundsAssumption == MaxTime \in Nat /\ MaxRequests \in Nat

VARIABLES
  done,        \* the context is done: the duration is over, or a signal came
  requestSeq,  \* the number of the next request
  now,         \* the clock
  stats,       \* loadStats, and what it leaves out
  worker,      \* where each worker is, and what it has still to count
  reporter,    \* where the main goroutine is, what it has read and has still to read
  sent,        \* history: the requests generated, by number and time
  cut          \* history: requests given up because the context was done

generatorVars == << done, requestSeq, now, stats, worker, reporter, sent, cut >>

\* A status is 2xx, another one, or one of 600 and more, for which the table of statuses has no
\* place: it is counted under none, and "unlisted" is a history of how many were, which
\* the program has not and no snapshot reads.  The counts of series, samples, bytes and
\* nanoseconds are added before "latencies", by the same for every response, and left out.
Counters == {"requests", "successes", "transportErrors", "latencies", "status2xx", "statusOther",
             "unlisted"}

Zero == [c \in Counters |-> 0]

GeneratorInit ==
  /\ done = FALSE
  /\ requestSeq = 0
  /\ now = 0
  /\ stats = Zero
  /\ worker = [w \in Workers |-> [pc |-> "pace", count |-> << >>]]
  /\ reporter = [pc |-> "watch", snap |-> Zero, read |-> << >>]
  /\ sent = {}
  /\ cut = 0

------------------------------------------------------------------------------
(* The requests.                                                            *)

\* The series of a request: the next ones of the cycle, from wherever the last one ended.
SeriesOf(seq) ==
  {(((seq * SeriesPerRequest) % ActiveSeries) + idx) % ActiveSeries : idx \in 0..(SeriesPerRequest - 1)}

\* Slip of cycleLen: rounded down, so that a cycle is over before its last series.
cycleLenDown == ActiveSeries \div SeriesPerRequest

\* The requests it takes to send every series.
cycleLen == (ActiveSeries + SeriesPerRequest - 1) \div SeriesPerRequest

pathIndex(seq) == (seq \div cycleLen) % PathCount

\* The samples of a series end with the present millisecond; a value tells the position
\* of its sample in the request.
SamplesAt(nowMs) ==
  {[ts |-> nowMs - SamplesPerSeries + idx, value |-> idx] : idx \in 0..(SamplesPerSeries - 1)}

------------------------------------------------------------------------------
(* The workers.                                                             *)

\* Slip of Pace: no look at the context after the wait, which without a rate is none.
PaceForgetsContext(w) ==
  /\ worker[w].pc = "pace"
  /\ done \/ requestSeq < MaxRequests
  /\ worker' = [worker EXCEPT ![w].pc = "generate"]
  /\ UNCHANGED << done, requestSeq, now, stats, reporter, sent, cut >>

\* pacer.Wait, and the look at the context after it.
Pace(w) ==
  /\ worker[w].pc = "pace"
  /\ done \/ requestSeq < MaxRequests
  /\ worker' = [worker EXCEPT ![w].pc = IF done THEN "gone" ELSE "generate"]
  /\ UNCHANGED << done, requestSeq, now, stats, reporter, sent, cut >>

\* A request is numbered, by an atomic addition, and generated.  The number is taken a moment
\* before the clock is read; no property relates the order of the two among workers.
Generate(w, t) ==
  /\ worker[w].pc = "generate"
  /\ t >= now /\ now' = t
  /\ requestSeq' = requestSeq + 1
  /\ sent' = sent \cup {[seq |-> requestSeq, nowMs |-> t]}
  /\ worker' = [worker EXCEPT ![w].pc = "send"]
  /\ UNCHANGED << done, stats, reporter, cut >>

Statuses == {"2xx", "other", "unlisted"}

\* client.Do has an answer.  What observeResponse adds to, in its order.
Answered(w, status) ==
  /\ worker[w].pc = "send"
  /\ worker' = [worker EXCEPT ![w] =
       [ pc |-> "count",
         count |-> CASE status = "2xx" -> << "requests", "successes", "status2xx", "latencies" >>
                     [] status = "other" -> << "requests", "statusOther", "latencies" >>
                     [] status = "unlisted" -> << "requests", "unlisted", "latencies" >> ]]
  /\ UNCHANGED << done, requestSeq, now, stats, reporter, sent, cut >>

\* Slip of Failed: the request knows of no context and the client of no timeout.
FailedWithoutContext(w) ==
  /\ worker[w].pc = "send"
  /\ ~done
  /\ worker' = [worker EXCEPT ![w] =
       [pc |-> "count", count |-> << "requests", "transportErrors", "latencies" >>]]
  /\ UNCHANGED << done, requestSeq, now, stats, reporter, sent, cut >>

\* client.Do fails, at the latest when its timeout is over: no error when the context is
\* done, and the worker returns.
Failed(w) ==
  /\ worker[w].pc = "send"
  /\ worker' = [worker EXCEPT ![w] =
       IF done THEN [pc |-> "gone", count |-> << >>]
       ELSE [pc |-> "count", count |-> << "requests", "transportErrors", "latencies" >>]]
  /\ cut' = IF done THEN cut + 1 ELSE cut
  /\ UNCHANGED << done, requestSeq, now, stats, reporter, sent >>

\* One atomic addition of observeResponse or observeTransportError, or the look at a status
\* that is too large for the table.
Count(w) ==
  /\ worker[w].pc = "count"
  /\ LET rest == Tail(worker[w].count) IN
     /\ stats' = [stats EXCEPT ![Head(worker[w].count)] = @ + 1]
     /\ worker' = [worker EXCEPT ![w] =
                     [pc |-> IF rest = << >> THEN "pace" ELSE "count", count |-> rest]]
  /\ UNCHANGED << done, requestSeq, now, reporter, sent, cut >>

------------------------------------------------------------------------------
(* The main goroutine.                                                      *)

\* Slip of ReadOrder: the latencies are read before the requests.
ReadOrderLatenciesFirst ==
  << "latencies", "requests", "successes", "transportErrors", "status2xx", "statusOther" >>

\* loadStats.snapshot loads one counter after the other.
ReadOrder ==
  << "requests", "successes", "transportErrors", "latencies", "status2xx", "statusOther" >>

AllGone == \A w \in Workers : worker[w].pc = "gone"

\* The ticker of printProgress.
Progress ==
  /\ reporter.pc = "watch"
  /\ reporter' = [pc |-> "progress", snap |-> Zero, read |-> ReadOrder]
  /\ UNCHANGED << done, requestSeq, now, stats, worker, sent, cut >>

\* Slip of Summarise: the end of the context is taken for the end of the workers.
SummariseWhenDone ==
  /\ reporter.pc \in {"watch", "wait"}
  /\ done
  /\ reporter' = [pc |-> "summary", snap |-> Zero, read |-> ReadOrder]
  /\ UNCHANGED << done, requestSeq, now, stats, worker, sent, cut >>

\* The context ends before the workers do: no more progress lines.
StopWatching ==
  /\ reporter.pc = "watch"
  /\ done
  /\ reporter' = [reporter EXCEPT !.pc = "wait"]
  /\ UNCHANGED << done, requestSeq, now, stats, worker, sent, cut >>

\* The wait group is down: printProgress returns, and the summary takes a last snapshot.
Summarise ==
  /\ reporter.pc \in {"watch", "wait"}
  /\ AllGone
  /\ reporter' = [pc |-> "summary", snap |-> Zero, read |-> ReadOrder]
  /\ UNCHANGED << done, requestSeq, now, stats, worker, sent, cut >>

Read ==
  /\ reporter.read # << >>
  /\ reporter' = [reporter EXCEPT !.snap[Head(reporter.read)] = stats[Head(reporter.read)], !.read = Tail(@)]
  /\ UNCHANGED << done, requestSeq, now, stats, worker, sent, cut >>

\* A snapshot is printed; the program ends with the summary.
Report ==
  /\ reporter.pc \in {"progress", "summary"}
  /\ reporter.read = << >>
  /\ reporter' = IF reporter.pc = "progress" THEN [pc |-> "watch", snap |-> Zero, read |-> << >>]
                                         ELSE [reporter EXCEPT !.pc = "exit"]
  /\ UNCHANGED << done, requestSeq, now, stats, worker, sent, cut >>

\* The duration is over, or a signal comes.
EndOfContext ==
  /\ ~done
  /\ done' = TRUE
  /\ UNCHANGED << requestSeq, now, stats, worker, reporter, sent, cut >>

\* What a worker does whether the server answers or not.
WorkerStep(w) ==
  \/ Pace(w)
  \/ \E t \in 0..MaxTime : Generate(w, t)
  \/ Failed(w)
  \/ Count(w)

GeneratorNext ==
  \/ \E w \in Workers : WorkerStep(w) \/ \E status \in Statuses : Answered(w, status)
  \/ Progress
  \/ StopWatching
  \/ Summarise
  \/ Read
  \/ Report
  \/ EndOfContext

GeneratorSpec == GeneratorInit /\ [][GeneratorNext]_generatorVars

\* A worker is scheduled, and client.Do returns for its timeout although no server need ever
\* answer.  The main goroutine reads and prints; a select among a ticker and channels that are
\* closed chooses at random, and so a channel in the end.  Nothing makes the ticker tick, and
\* the context need not end.
FairGeneratorSpec ==
  /\ GeneratorSpec
  /\ \A w \in Workers : WF_generatorVars(WorkerStep(w))
  /\ WF_generatorVars(Read \/ Report) /\ SF_generatorVars(StopWatching \/ Summarise)

------------------------------------------------------------------------------
(* Types.                                                                   *)

\* The type invariant.  A worker that finds the context done takes no number any more: of all
\* rounds begun before at most one for each worker goes on.
GeneratorTypeOK ==
  /\ done \in BOOLEAN
  /\ requestSeq \in 0..(MaxRequests + Cardinality(Workers))
  /\ now \in 0..MaxTime
  /\ stats \in [Counters -> Nat]
  /\ worker \in [Workers -> [pc : {"pace", "generate", "send", "count", "gone"}, count : Seq(Counters)]]
  /\ \A w \in Workers : (worker[w].pc = "count") <=> (worker[w].count # << >>)
  /\ reporter \in [pc : {"watch", "progress", "wait", "summary", "exit"}, snap : [Counters -> Nat],
                   read : Seq(Counters)]
  /\ sent \subseteq [seq : Nat, nowMs : 0..MaxTime]
  /\ cut \in 0..Cardinality(Workers)

------------------------------------------------------------------------------
(* Safety.                                                                  *)

Answers(s) == s["status2xx"] + s["statusOther"]

\* The summary is exact: every request that was numbered is in it once, as answered
\* or failed, but for those cut by the end of the test, at most one of each
\* worker; and its counters, read one after the other, belong to one moment.  What the
\* statuses lack is what was answered with 600 or more: those are among
\* the requests and the latencies, and among no status.
SummaryExact ==
  reporter.pc = "exit" =>
    LET s == reporter.snap IN
    /\ s["requests"] = Answers(s) + s["transportErrors"] + stats["unlisted"]
    /\ s["latencies"] = s["requests"]
    /\ s["successes"] = s["status2xx"]
    /\ requestSeq = s["requests"] + cut
    /\ cut <= Cardinality(Workers)

\* A progress line may show more successes than requests, but what it lacks is bounded: of
\* the requests it counts, the outcome and the latency of at most one for each worker
\* is missing, the answers of 600 or more apart, which are under no status.
\* The order in which snapshot reads what the workers write is why.
ProgressLag ==
  reporter.pc \in {"progress", "summary"} /\ reporter.read = << >> =>
    LET s == reporter.snap IN
    /\ s["requests"] <= Answers(s) + s["transportErrors"] + stats["unlisted"] + Cardinality(Workers)
    /\ s["requests"] <= s["latencies"] + Cardinality(Workers)

\* README, Load Testing: with -path-count=2 the generator triggers cross-path collisions.
\* Once every path has had its turn each has carried every active series, also when the
\* series do not divide into requests, and whichever worker takes which number.  It is about
\* the requests generated: one of them may fail, or be cut by the end of the context.
EveryPathCarriesEverySeries ==
  requestSeq >= cycleLen * PathCount =>
    \A series \in 0..(ActiveSeries - 1), path \in 0..(PathCount - 1) :
      \E r \in sent : series \in SeriesOf(r.seq) /\ pathIndex(r.seq) = path

------------------------------------------------------------------------------
(* What the documentation says.                                             *)

\* The flag conflict-ratio is the "Fraction of samples generated with repeated timestamps
\* and changing values": at zero no series has one timestamp with two values.
BaselineHasNoConflicts ==
  \A q, r \in sent :
    SeriesOf(q.seq) \cap SeriesOf(r.seq) # {} =>
      \A a \in SamplesAt(q.nowMs), b \in SamplesAt(r.nowMs) : a.ts = b.ts => a.value = b.value

------------------------------------------------------------------------------
(* Liveness.                                                                *)

\* When the context is done the generator ends with its summary, however many
\* requests are under way and however often the ticker ticks.
EndsWithSummary == done ~> reporter.pc = "exit"
==============================================================================
