-------------------------- MODULE ReceiveHTTPProofs --------------------------
(***************************************************************************)
(* What holds of the receive endpoint for any number of requests and any   *)
(* limit: the admission channel and the gauge count the handlers they are  *)
(* meant to count, and the counters agree with the answers.                *)
(***************************************************************************)
EXTENDS ReceiveHTTP, FiniteSetTheorems, TLAPS

\* The gauge counts the handlers between its two updates.
GaugeExact == inFlight = Cardinality(At(InGauge))

Unanswered ==
  {"absent", "admit", "inc_gauge", "overloaded", "read", "decode", "inspect", "observe"}

\* A handler has answered once it is past its observation, and it has a result when
\* it gets there; it has none before its body is read.
AnswersOf(r) ==
  /\ request[r].pc \in Unanswered => request[r].status = "none"
  /\ request[r].pc = "observe" => request[r].result \in Results \ {"overloaded"}
  /\ request[r].pc = "inspect" => request[r].result \in {"ok", "bad_data", "empty"}
  /\ request[r].pc \in {"admit", "inc_gauge", "overloaded", "read", "decode"}
       => request[r].result = "none"

Answers == \A r \in Requests : AnswersOf(r)

Inv ==
  /\ TypeOK
  /\ SlotsHeld
  /\ GaugeExact
  /\ Answers
  /\ CountedAsAnswered
  /\ DecodeErrorsAgree

USE RequestsAssumption, InFlightAssumption, BodiesAssumption

------------------------------------------------------------------------------
(* Counting.                                                                *)

One(b) == IF b THEN 1 ELSE 0

LEMMA Subsets ==
  ASSUME NEW S \in SUBSET Requests
  PROVE  IsFiniteSet(S) /\ Cardinality(S) \in Nat
BY FS_Subset, FS_CardinalityType

\* Of two sets that differ in one element at most, one has one more than the other.
LEMMA OneDiffers ==
  ASSUME NEW S \in SUBSET Requests, NEW T \in SUBSET Requests, NEW r \in Requests,
         \A s \in Requests \ {r} : s \in S <=> s \in T
  PROVE  Cardinality(T) = Cardinality(S) + One(r \in T) - One(r \in S)
<1>1. IsFiniteSet(S) /\ IsFiniteSet(T) /\ Cardinality(S) \in Nat /\ Cardinality(T) \in Nat
  BY Subsets
<1>2. CASE r \in S /\ r \notin T
  <2>1. T = S \ {r}
    BY <1>2
  <2>2. Cardinality(T) = Cardinality(S) - 1
    BY <1>1, <1>2, <2>1, FS_RemoveElement
  <2> QED
    BY <1>1, <1>2, <2>2 DEF One
<1>3. CASE r \notin S /\ r \in T
  <2>1. T = S \cup {r}
    BY <1>3
  <2>2. Cardinality(T) = Cardinality(S) + 1
    BY <1>1, <1>3, <2>1, FS_AddElement
  <2> QED
    BY <1>1, <1>3, <2>2 DEF One
<1>4. CASE (r \in S) <=> (r \in T)
  <2>1. S = T
    BY <1>4
  <2> QED
    BY <1>1, <1>4, <2>1 DEF One
<1> QED
  BY <1>2, <1>3, <1>4

\* A step of the handler of r.
Moves(r) ==
  /\ request \in [Requests -> Handled \cup {Absent}]
  /\ request' \in [Requests -> Handled \cup {Absent}]
  /\ request'[r] \in Handled
  /\ \A s \in Requests \ {r} : request'[s] = request[s]

LEMMA AtMoves ==
  ASSUME NEW r \in Requests, NEW P, Moves(r)
  PROVE  Cardinality(At(P)') = Cardinality(At(P)) + One(request'[r].pc \in P)
                                                  - One(request[r].pc \in P)
<1>1. At(P) \in SUBSET Requests /\ At(P)' \in SUBSET Requests
  BY DEF At
<1>2. \A s \in Requests \ {r} : s \in At(P) <=> s \in At(P)'
  BY DEF At, Moves
<1>3. (r \in At(P) <=> request[r].pc \in P) /\ (r \in At(P)' <=> request'[r].pc \in P)
  BY DEF At
<1>4. Cardinality(At(P)') = Cardinality(At(P)) + One(r \in At(P)') - One(r \in At(P))
  BY <1>1, <1>2, OneDiffers
<1> QED
  BY <1>3, <1>4 DEF One

LEMMA AnsweredMoves ==
  ASSUME NEW r \in Requests, NEW st, Moves(r)
  PROVE  Cardinality(Answered(st)') =
           Cardinality(Answered(st)) + One(request'[r].status = st)
                                     - One(request[r].status = st)
<1>1. Answered(st) \in SUBSET Requests /\ Answered(st)' \in SUBSET Requests
  BY DEF Answered
<1>2. \A s \in Requests \ {r} : s \in Answered(st) <=> s \in Answered(st)'
  BY DEF Answered, Moves
<1>3. /\ r \in Answered(st) <=> request[r].status = st
      /\ r \in Answered(st)' <=> request'[r].status = st
  BY DEF Answered
<1>4. Cardinality(Answered(st)') =
        Cardinality(Answered(st)) + One(r \in Answered(st)') - One(r \in Answered(st))
  BY <1>1, <1>2, OneDiffers
<1> QED
  BY <1>3, <1>4 DEF One

LEMMA UndecodedMoves ==
  ASSUME NEW r \in Requests, Moves(r)
  PROVE  Cardinality(Undecoded') =
           Cardinality(Undecoded) + One(r \in Undecoded') - One(r \in Undecoded)
<1>1. Undecoded \in SUBSET Requests /\ Undecoded' \in SUBSET Requests
  BY DEF Undecoded
<1>2. \A s \in Requests \ {r} : s \in Undecoded <=> s \in Undecoded'
  BY DEF Undecoded, Moves
<1> QED
  BY <1>1, <1>2, OneDiffers

LEMMA CountsAreNat ==
  ASSUME NEW P, NEW st
  PROVE  /\ Cardinality(At(P)) \in Nat
         /\ Cardinality(Answered(st)) \in Nat
         /\ Cardinality(Undecoded) \in Nat
<1>1. At(P) \in SUBSET Requests /\ Answered(st) \in SUBSET Requests
        /\ Undecoded \in SUBSET Requests
  BY DEF At, Answered, Undecoded
<1> QED
  BY <1>1, Subsets

------------------------------------------------------------------------------
(* A step.                                                                  *)

\* What the shared variables owe to the step of one handler.
Balance(r) ==
  /\ admission' = admission + One(request'[r].pc \in HoldsSlot) - One(request[r].pc \in HoldsSlot)
  /\ admission' <= MaxInFlightRequests
  /\ inFlight' = inFlight + One(request'[r].pc \in InGauge) - One(request[r].pc \in InGauge)
  /\ requests' \in [Results -> Nat]
  /\ decodeErrors' \in Nat
  /\ requests'["too_large"] = requests["too_large"] + One(request'[r].status = "413")
                                                    - One(request[r].status = "413")
  /\ requests'["decode_error"] = requests["decode_error"] + One(request'[r].status = "400")
                                                          - One(request[r].status = "400")
  /\ requests'["overloaded"] + requests'["ok"] + requests'["bad_data"] + requests'["empty"]
       = requests["overloaded"] + requests["ok"] + requests["bad_data"] + requests["empty"]
           + One(request'[r].status = "204") - One(request[r].status = "204")
  /\ decodeErrors' - requests'["decode_error"]
       = decodeErrors - requests["decode_error"] + One(r \in Undecoded') - One(r \in Undecoded)

LEMMA BalancedStep ==
  ASSUME NEW r \in Requests, Inv, Moves(r), Balance(r), AnswersOf(r)'
  PROVE  Inv'
<1> USE DEF Inv
<1>1. SlotsHeld'
  <2>1. admission' = Cardinality(At(HoldsSlot)')
    BY AtMoves, CountsAreNat DEF SlotsHeld, Balance, One
  <2> QED
    BY <2>1 DEF SlotsHeld, Balance
<1>2. GaugeExact'
  BY AtMoves, CountsAreNat DEF GaugeExact, Balance, One
<1>3. Answers'
  BY DEF Answers, AnswersOf, Moves
<1>4. DecodeErrorsAgree'
  <2>1. requests["decode_error"] \in Nat /\ requests'["decode_error"] \in Nat
          /\ decodeErrors \in Nat /\ decodeErrors' \in Nat
    BY DEF TypeOK, Balance, Results
  <2>2. Cardinality(Undecoded) \in Nat
    BY CountsAreNat
  <2> QED
    BY <2>1, <2>2, UndecodedMoves DEF DecodeErrorsAgree, Balance, One
<1>5. CountedAsAnswered'
  <2>1. \A st : /\ Cardinality(Answered(st)) \in Nat
                /\ Cardinality(Answered(st)') = Cardinality(Answered(st))
                     + One(request'[r].status = st) - One(request[r].status = st)
    BY AnsweredMoves, CountsAreNat
  <2>2. requests \in [Results -> Nat]
    BY DEF TypeOK
  <2>3. requests'["too_large"] = Cardinality(Answered("413")')
    BY <2>1 DEF CountedAsAnswered, Balance
  <2>4. requests'["decode_error"] = Cardinality(Answered("400")')
    BY <2>1 DEF CountedAsAnswered, Balance
  <2>5. requests'["overloaded"] + requests'["ok"] + requests'["bad_data"] + requests'["empty"]
          = Cardinality(Answered("204")')
    BY <2>1 DEF CountedAsAnswered, Balance
  <2> QED
    BY <1>4, <2>3, <2>4, <2>5 DEF CountedAsAnswered
<1>6. TypeOK'
  <2>1. /\ At(HoldsSlot)' \in SUBSET Requests
        /\ At(InGauge)' \in SUBSET Requests
    BY DEF At
  <2>2. Cardinality(At(HoldsSlot)') \in Nat /\ Cardinality(At(InGauge)') \in Nat
    BY <2>1, Subsets
  <2>3. admission' \in 0..MaxInFlightRequests /\ inFlight' \in Nat
    BY <1>1, <1>2, <2>2 DEF SlotsHeld, GaugeExact
  <2> QED
    BY <2>3 DEF TypeOK, Balance, Moves
<1> QED
  BY <1>1, <1>2, <1>3, <1>4, <1>5, <1>6

------------------------------------------------------------------------------
(* Typing of the changes a step makes to its request.                       *)

LEMMA PresentIsHandled ==
  ASSUME NEW r \in Requests, TypeOK, request[r].pc # "absent"
  PROVE  request[r] \in Handled
BY DEF TypeOK, Absent

\* Where only the place of a handler changes.
LEMMA GotoMoves ==
  ASSUME NEW r \in Requests, TypeOK, request[r].pc # "absent", NEW pc \in PCs, Goto(r, pc)
  PROVE  /\ Moves(r)
         /\ request'[r].pc = pc
         /\ request'[r].status = request[r].status
         /\ request'[r].result = request[r].result
<1>1. request[r] \in Handled
  BY PresentIsHandled
<1>2. request' = [request EXCEPT ![r] = [request[r] EXCEPT !.pc = pc]]
  BY DEF Goto
<1>3. [request[r] EXCEPT !.pc = pc] \in Handled
  BY <1>1 DEF Handled
<1> QED
  BY <1>1, <1>2, <1>3 DEF Moves, TypeOK, Handled

\* Where its status changes too.
LEMMA StatusMoves ==
  ASSUME NEW r \in Requests, TypeOK, request[r].pc # "absent",
         NEW pc \in PCs, NEW st \in Statuses,
         request' = [request EXCEPT ![r].pc = pc, ![r].status = st]
  PROVE  /\ Moves(r)
         /\ request'[r].pc = pc
         /\ request'[r].status = st
         /\ request'[r].result = request[r].result
<1>1. request[r] \in Handled
  BY PresentIsHandled
<1>2. request' = [request EXCEPT ![r] = [request[r] EXCEPT !.pc = pc, !.status = st]]
  BY <1>1 DEF TypeOK
<1>3. [request[r] EXCEPT !.pc = pc, !.status = st] \in Handled
  BY <1>1 DEF Handled
<1> QED
  BY <1>1, <1>2, <1>3 DEF Moves, TypeOK, Handled

\* Where its result changes too.
LEMMA ResultMoves ==
  ASSUME NEW r \in Requests, TypeOK, request[r].pc # "absent",
         NEW pc \in PCs, NEW res \in Results \cup {"none"},
         request' = [request EXCEPT ![r].pc = pc, ![r].result = res]
  PROVE  /\ Moves(r)
         /\ request'[r].pc = pc
         /\ request'[r].status = request[r].status
         /\ request'[r].result = res
<1>1. request[r] \in Handled
  BY PresentIsHandled
<1>2. request' = [request EXCEPT ![r] = [request[r] EXCEPT !.pc = pc, !.result = res]]
  BY <1>1 DEF TypeOK
<1>3. [request[r] EXCEPT !.pc = pc, !.result = res] \in Handled
  BY <1>1 DEF Handled
<1> QED
  BY <1>1, <1>2, <1>3 DEF Moves, TypeOK, Handled

------------------------------------------------------------------------------
(* The actions.                                                             *)

LEMMA TryAdmitKeeps ==
  ASSUME NEW r \in Requests, Inv, TryAdmit(r)
  PROVE  Inv'
<1> DEFINE pc == IF admission < MaxInFlightRequests THEN "inc_gauge" ELSE "overloaded"
<1>1. TypeOK /\ AnswersOf(r)
  BY DEF Inv, Answers
<1>2. request[r].pc = "admit" /\ request[r].status = "none" /\ request[r].result = "none"
  BY <1>1 DEF TryAdmit, AnswersOf, Unanswered
<1>3. Goto(r, pc) /\ pc \in PCs
  BY DEF TryAdmit, PCs
<1>4. /\ Moves(r)
      /\ request'[r].pc = pc
      /\ request'[r].status = "none"
      /\ request'[r].result = "none"
  BY <1>1, <1>2, <1>3, GotoMoves
<1>5. AnswersOf(r)'
  BY <1>4 DEF AnswersOf
<1>6. r \notin Undecoded /\ r \notin Undecoded'
  BY <1>2, <1>4 DEF Undecoded
<1>7. Balance(r)
  BY <1>1, <1>2, <1>4, <1>6 DEF Balance, TryAdmit, One, HoldsSlot, InGauge, TypeOK, Results
<1> QED
  BY <1>4, <1>5, <1>7, BalancedStep

LEMMA IncGaugeKeeps ==
  ASSUME NEW r \in Requests, Inv, IncGauge(r)
  PROVE  Inv'
<1>1. TypeOK /\ SlotsHeld /\ AnswersOf(r)
  BY DEF Inv, Answers
<1>2. request[r].pc = "inc_gauge" /\ request[r].status = "none" /\ request[r].result = "none"
  BY <1>1 DEF IncGauge, AnswersOf, Unanswered
<1>3. /\ Moves(r)
      /\ request'[r].pc = "read"
      /\ request'[r].status = "none"
      /\ request'[r].result = "none"
  BY <1>1, <1>2, GotoMoves DEF IncGauge, PCs
<1>4. AnswersOf(r)'
  BY <1>3 DEF AnswersOf
<1>5. r \notin Undecoded /\ r \notin Undecoded'
  BY <1>2, <1>3 DEF Undecoded
<1>6. Balance(r)
  BY <1>1, <1>2, <1>3, <1>5
    DEF Balance, IncGauge, One, HoldsSlot, InGauge, TypeOK, SlotsHeld, Results
<1> QED
  BY <1>3, <1>4, <1>6, BalancedStep

LEMMA ReadBodyKeeps ==
  ASSUME NEW r \in Requests, Inv, ReadBody(r)
  PROVE  Inv'
<1> DEFINE pc == IF ReadFails(request[r].body) THEN "observe" ELSE "decode"
           res == IF ReadFails(request[r].body) THEN "too_large" ELSE request[r].result
<1>1. TypeOK /\ SlotsHeld /\ AnswersOf(r)
  BY DEF Inv, Answers
<1>2. request[r].pc = "read" /\ request[r].status = "none" /\ request[r].result = "none"
  BY <1>1 DEF ReadBody, AnswersOf, Unanswered
<1>3. request' = [request EXCEPT ![r].pc = pc, ![r].result = res]
  BY <1>2 DEF ReadBody
<1>4. pc \in PCs /\ res \in Results \cup {"none"}
  BY <1>2 DEF PCs, Results
<1>5. /\ Moves(r)
      /\ request'[r].pc = pc
      /\ request'[r].status = "none"
      /\ request'[r].result = res
  <2> HIDE DEF pc, res
  <2> QED
    BY <1>1, <1>2, <1>3, <1>4, ResultMoves
<1>6. AnswersOf(r)'
  BY <1>2, <1>5 DEF AnswersOf, Results
<1>7. r \notin Undecoded /\ r \notin Undecoded'
  BY <1>2, <1>5 DEF Undecoded
<1>8. Balance(r)
  BY <1>1, <1>2, <1>5, <1>7
    DEF Balance, ReadBody, shared, One, HoldsSlot, InGauge, TypeOK, SlotsHeld, Results
<1> QED
  BY <1>5, <1>6, <1>8, BalancedStep

\* Whatever a body's verdict is, it is a result, and not that of a full endpoint.
LEMMA VerdictIsResult ==
  ASSUME NEW b \in Bodies
  PROVE  Verdict(b) \in Results \ {"overloaded"}
<1>1. b.form \in Forms
  BY DEF Forms
<1> QED
  BY <1>1 DEF Verdict, Forms, ReadFails, Results

LEMMA DecodeKeeps ==
  ASSUME NEW r \in Requests, Inv, Decode(r)
  PROVE  Inv'
<1> DEFINE res == Verdict(request[r].body)
           pc == IF res \in {"ok", "bad_data", "empty"} THEN "inspect" ELSE "observe"
<1>1. TypeOK /\ SlotsHeld /\ AnswersOf(r)
  BY DEF Inv, Answers
<1>2. request[r].pc = "decode" /\ request[r].status = "none" /\ request[r].result = "none"
  BY <1>1 DEF Decode, AnswersOf, Unanswered
<1>3. request[r].body \in Bodies
  BY <1>1, <1>2, PresentIsHandled DEF Handled
<1>4. res \in Results \ {"overloaded"} /\ pc \in PCs
  BY <1>3, VerdictIsResult DEF PCs
<1>5. /\ request' = [request EXCEPT ![r].pc = pc, ![r].result = res]
      /\ decodeErrors' = decodeErrors + (IF res = "decode_error" THEN 1 ELSE 0)
  BY DEF Decode
<1> HIDE DEF res
<1>6. /\ Moves(r)
      /\ request'[r].pc = pc
      /\ request'[r].status = "none"
      /\ request'[r].result = res
  <2> HIDE DEF pc
  <2> QED
    BY <1>1, <1>2, <1>4, <1>5, ResultMoves
<1>7. AnswersOf(r)'
  BY <1>4, <1>6 DEF AnswersOf
<1>8. r \notin Undecoded /\ (r \in Undecoded' <=> res = "decode_error")
  BY <1>2, <1>6 DEF Undecoded, Moves, Handled, PCs, Absent
<1>9. Balance(r)
  BY <1>1, <1>2, <1>5, <1>6, <1>8
    DEF Balance, Decode, One, HoldsSlot, InGauge, TypeOK, SlotsHeld, Results
<1> QED
  BY <1>6, <1>7, <1>9, BalancedStep

LEMMA InspectKeeps ==
  ASSUME NEW r \in Requests, Inv, Inspect(r)
  PROVE  Inv'
<1>1. TypeOK /\ SlotsHeld /\ AnswersOf(r)
  BY DEF Inv, Answers
<1>2. /\ request[r].pc = "inspect" /\ request[r].status = "none"
      /\ request[r].result \in {"ok", "bad_data", "empty"}
  BY <1>1 DEF Inspect, AnswersOf, Unanswered
<1>3. ASSUME request[r].valid
      PROVE  Moves(r) /\ request'[r].pc = "observe" /\ request'[r].status = "none"
               /\ request'[r].result = request[r].result
  BY <1>1, <1>2, <1>3, GotoMoves DEF Inspect, PCs
<1>4. ASSUME ~request[r].valid
      PROVE  Moves(r) /\ request'[r].pc = "release" /\ request'[r].status = "dropped"
               /\ request'[r].result = request[r].result
  <2>1. request' = [request EXCEPT ![r].pc = "release", ![r].status = "dropped"]
    BY <1>4 DEF Inspect
  <2> QED
    BY <1>1, <1>2, <2>1, StatusMoves DEF PCs, Statuses
<1>5. /\ Moves(r)
      /\ \/ request'[r].pc = "observe" /\ request'[r].status = "none"
         \/ request'[r].pc = "release" /\ request'[r].status = "dropped"
      /\ request'[r].result = request[r].result
  BY <1>3, <1>4
<1>6. AnswersOf(r)'
  BY <1>2, <1>5 DEF AnswersOf, Unanswered, Results
<1>7. r \notin Undecoded /\ r \notin Undecoded'
  BY <1>2, <1>5 DEF Undecoded
<1>8. Balance(r)
  BY <1>1, <1>2, <1>5, <1>7
    DEF Balance, Inspect, shared, One, HoldsSlot, InGauge, TypeOK, SlotsHeld, Results
<1> QED
  BY <1>5, <1>6, <1>8, BalancedStep

\* What an observation does to its request: one whose labels are taken is counted and
\* answered, another is dropped.
LEMMA ObserveMoves ==
  ASSUME NEW r \in Requests, TypeOK, request[r].pc # "absent",
         NEW res, NEW pc \in PCs, Observe(r, res, pc)
  PROVE  /\ Moves(r)
         /\ request'[r].pc = pc
         /\ request'[r].result = request[r].result
         /\ request[r].valid => /\ request'[r].status = Status(res)
                                /\ requests' = [requests EXCEPT ![res] = @ + 1]
         /\ ~request[r].valid => request'[r].status = "dropped" /\ requests' = requests
<1>1. CASE request[r].valid
  <2>1. Status(res) \in Statuses
    BY DEF Status, Statuses
  <2>2. request' = [request EXCEPT ![r].pc = pc, ![r].status = Status(res)]
    BY <1>1 DEF Observe
  <2>3. /\ Moves(r)
        /\ request'[r].pc = pc
        /\ request'[r].status = Status(res)
        /\ request'[r].result = request[r].result
    BY <2>1, <2>2, StatusMoves
  <2> QED
    BY <1>1, <2>3 DEF Observe
<1>2. CASE ~request[r].valid
  <2>1. request' = [request EXCEPT ![r].pc = pc, ![r].status = "dropped"]
    BY <1>2 DEF Observe
  <2> QED
    BY <1>2, <2>1, StatusMoves DEF Observe, Statuses
<1> QED
  BY <1>1, <1>2

LEMMA OverloadedKeeps ==
  ASSUME NEW r \in Requests, Inv, Overloaded(r)
  PROVE  Inv'
<1>1. TypeOK /\ SlotsHeld /\ AnswersOf(r)
  BY DEF Inv, Answers
<1>2. request[r].pc = "overloaded" /\ request[r].status = "none" /\ request[r].result = "none"
  BY <1>1 DEF Overloaded, AnswersOf, Unanswered
<1>3. /\ Moves(r)
      /\ request'[r].pc = "gone"
      /\ request'[r].result = "none"
      /\ request[r].valid => /\ request'[r].status = "204"
                             /\ requests' = [requests EXCEPT !["overloaded"] = @ + 1]
      /\ ~request[r].valid => request'[r].status = "dropped" /\ requests' = requests
  BY <1>1, <1>2, ObserveMoves DEF Overloaded, PCs, Status
<1>4. AnswersOf(r)'
  BY <1>3 DEF AnswersOf, Unanswered
<1>5. r \notin Undecoded /\ r \notin Undecoded'
  BY <1>2, <1>3 DEF Undecoded
<1>6. Balance(r)
  BY <1>1, <1>2, <1>3, <1>5
    DEF Balance, Overloaded, One, HoldsSlot, InGauge, TypeOK, SlotsHeld, Results
<1> QED
  BY <1>3, <1>4, <1>6, BalancedStep

LEMMA ObserveResultKeeps ==
  ASSUME NEW r \in Requests, Inv, ObserveResult(r)
  PROVE  Inv'
<1> DEFINE res == request[r].result
<1>1. TypeOK /\ SlotsHeld /\ AnswersOf(r)
  BY DEF Inv, Answers
<1>2. /\ request[r].pc = "observe" /\ request[r].status = "none"
      /\ res \in Results \ {"overloaded"}
  BY <1>1 DEF ObserveResult, AnswersOf, Unanswered
<1>3. /\ Moves(r)
      /\ request'[r].pc = "release"
      /\ request'[r].result = res
      /\ request[r].valid => /\ request'[r].status = Status(res)
                             /\ requests' = [requests EXCEPT ![res] = @ + 1]
      /\ ~request[r].valid => request'[r].status = "dropped" /\ requests' = requests
  BY <1>1, <1>2, ObserveMoves DEF ObserveResult, PCs
<1>4. AnswersOf(r)'
  BY <1>3 DEF AnswersOf, Unanswered
<1>5. /\ r \in Undecoded <=> res = "decode_error"
      /\ r \in Undecoded' <=> res = "decode_error" /\ ~request[r].valid
  <2>1. request[r] # Absent /\ request'[r] # Absent
    BY <1>2, <1>3 DEF Absent
  <2> QED
    BY <1>2, <1>3, <2>1 DEF Undecoded, Status
<1>6. Balance(r)
  <2>1. /\ admission' = admission /\ inFlight' = inFlight /\ decodeErrors' = decodeErrors
        /\ requests \in [Results -> Nat] /\ decodeErrors \in Nat
        /\ admission \in Nat /\ inFlight \in Nat /\ admission <= MaxInFlightRequests
    BY <1>1 DEF ObserveResult, TypeOK, SlotsHeld
  <2>2. CASE request[r].valid
    BY <1>2, <1>3, <1>5, <2>1, <2>2 DEF Balance, One, HoldsSlot, InGauge, Results, Status
  <2>3. CASE ~request[r].valid
    BY <1>2, <1>3, <1>5, <2>1, <2>3 DEF Balance, One, HoldsSlot, InGauge, Results
  <2> QED
    BY <2>2, <2>3
<1> QED
  BY <1>3, <1>4, <1>6, BalancedStep

LEMMA ReleaseKeeps ==
  ASSUME NEW r \in Requests, Inv, Release(r)
  PROVE  Inv'
<1>1. TypeOK /\ SlotsHeld /\ GaugeExact
  BY DEF Inv
<1>2. request[r].pc = "release"
  BY DEF Release
<1>3. /\ Moves(r)
      /\ request'[r].pc = "dec_gauge"
      /\ request'[r].status = request[r].status
      /\ request'[r].result = request[r].result
  BY <1>1, <1>2, GotoMoves DEF Release, PCs
<1>4. AnswersOf(r)'
  BY <1>3 DEF AnswersOf, Unanswered
<1>5. r \in Undecoded <=> r \in Undecoded'
  BY <1>2, <1>3 DEF Undecoded, Absent
<1>6. Balance(r)
  <2>1. requests \in [Results -> Nat] /\ decodeErrors \in Nat /\ admission \in Nat
          /\ inFlight \in Nat /\ admission <= MaxInFlightRequests
    BY <1>1 DEF TypeOK, SlotsHeld
  <2>2. requests' = requests /\ decodeErrors' = decodeErrors
    BY DEF Release
  <2> QED
    BY <1>2, <1>3, <1>5, <2>1, <2>2 DEF Balance, Release, One, HoldsSlot, InGauge, Results
<1> QED
  BY <1>3, <1>4, <1>6, BalancedStep

LEMMA DecGaugeKeeps ==
  ASSUME NEW r \in Requests, Inv, DecGauge(r)
  PROVE  Inv'
<1>1. TypeOK /\ SlotsHeld /\ GaugeExact
  BY DEF Inv
<1>2. request[r].pc = "dec_gauge"
  BY DEF DecGauge
<1>3. /\ Moves(r)
      /\ request'[r].pc = "gone"
      /\ request'[r].status = request[r].status
      /\ request'[r].result = request[r].result
  BY <1>1, <1>2, GotoMoves DEF DecGauge, PCs
<1>4. AnswersOf(r)'
  BY <1>3 DEF AnswersOf, Unanswered
<1>5. r \in Undecoded <=> r \in Undecoded'
  BY <1>2, <1>3 DEF Undecoded, Absent
<1>6. Balance(r)
  <2>1. requests \in [Results -> Nat] /\ decodeErrors \in Nat /\ admission \in Nat
          /\ inFlight \in Nat /\ admission <= MaxInFlightRequests
    BY <1>1 DEF TypeOK, SlotsHeld
  <2>2. requests' = requests /\ decodeErrors' = decodeErrors
    BY DEF DecGauge
  <2> QED
    BY <1>2, <1>3, <1>5, <2>1, <2>2 DEF Balance, DecGauge, One, HoldsSlot, InGauge, Results
<1> QED
  BY <1>3, <1>4, <1>6, BalancedStep

LEMMA ArriveKeeps ==
  ASSUME NEW r \in Requests, NEW post \in BOOLEAN, NEW b \in Bodies, NEW valid \in BOOLEAN,
         Inv, Arrive(r, post, b, valid)
  PROVE  Inv'
<1> DEFINE h == [ pc |-> IF post THEN "admit" ELSE "gone",
                  status |-> IF post THEN "none" ELSE "405",
                  body |-> b, valid |-> valid, result |-> "none" ]
<1>1. TypeOK /\ SlotsHeld
  BY DEF Inv
<1>2. request[r] = Absent /\ request' = [request EXCEPT ![r] = h]
  BY DEF Arrive
<1>3. h \in Handled
  BY DEF Handled, PCs, Statuses
<1>4. Moves(r) /\ request'[r] = h
  <2> HIDE DEF h
  <2>1. request \in [Requests -> Handled \cup {Absent}]
    BY <1>1 DEF TypeOK
  <2>2. request' \in [Requests -> Handled \cup {Absent}]
    BY <1>2, <1>3, <2>1
  <2>3. request'[r] = h /\ \A s \in Requests \ {r} : request'[s] = request[s]
    BY <1>2, <2>1
  <2> QED
    BY <1>3, <2>1, <2>2, <2>3 DEF Moves
<1>5. AnswersOf(r)'
  BY <1>4 DEF AnswersOf, Unanswered
<1>6. r \notin Undecoded /\ r \notin Undecoded'
  BY <1>2, <1>4 DEF Undecoded
<1>7. Balance(r)
  <2>1. requests \in [Results -> Nat] /\ decodeErrors \in Nat /\ admission \in Nat
          /\ inFlight \in Nat /\ admission <= MaxInFlightRequests
    BY <1>1 DEF TypeOK, SlotsHeld
  <2>2. UNCHANGED shared
    BY DEF Arrive
  <2> QED
    BY <1>2, <1>4, <1>6, <2>1, <2>2
      DEF Balance, shared, One, HoldsSlot, InGauge, Results, Absent
<1> QED
  BY <1>4, <1>5, <1>7, BalancedStep

------------------------------------------------------------------------------
(* The theorems.                                                            *)

LEMMA InitInv == Init => Inv
<1> SUFFICES ASSUME Init PROVE Inv
  OBVIOUS
<1>1. TypeOK /\ Answers
  BY DEF Init, TypeOK, Answers, AnswersOf, Absent, Unanswered
<1>2. /\ At(HoldsSlot) = {} /\ At(InGauge) = {} /\ Undecoded = {}
      /\ Answered("204") = {} /\ Answered("400") = {} /\ Answered("413") = {}
  BY DEF Init, At, HoldsSlot, InGauge, Undecoded, Answered, Absent
<1>3. Cardinality({}) = 0
  BY FS_EmptySet
<1>4. SlotsHeld /\ GaugeExact
  BY <1>2, <1>3 DEF Init, SlotsHeld, GaugeExact
<1>5. DecodeErrorsAgree
  BY <1>2, <1>3 DEF Init, DecodeErrorsAgree, Results
<1>6. CountedAsAnswered
  <2>1. /\ requests["too_large"] = Cardinality(Answered("413"))
        /\ requests["decode_error"] = Cardinality(Answered("400"))
        /\ requests["overloaded"] + requests["ok"] + requests["bad_data"] + requests["empty"]
             = Cardinality(Answered("204"))
    BY <1>2, <1>3 DEF Init, Results
  <2> QED
    BY <1>5, <2>1 DEF CountedAsAnswered
<1> QED
  BY <1>1, <1>4, <1>5, <1>6 DEF Inv

LEMMA NextInv == Inv /\ [Next]_vars => Inv'
<1> SUFFICES ASSUME Inv, [Next]_vars PROVE Inv'
  OBVIOUS
<1>1. ASSUME NEW r \in Requests, Step(r) PROVE Inv'
  BY <1>1, TryAdmitKeeps, IncGaugeKeeps, OverloadedKeeps, DecodeKeeps, InspectKeeps,
     ObserveResultKeeps, ReleaseKeeps, DecGaugeKeeps DEF Step
<1>2. CASE UNCHANGED vars
  BY <1>2 DEF vars, Inv, TypeOK, SlotsHeld, GaugeExact, Answers, AnswersOf,
              CountedAsAnswered, DecodeErrorsAgree, At, Answered, Undecoded
<1> QED
  BY <1>1, <1>2, ArriveKeeps, ReadBodyKeeps DEF Next

\* The inductive invariant holds in every behaviour.
THEOREM AlwaysInv == Spec => []Inv
BY InitInv, NextInv, PTL DEF Spec

\* The variables keep their types, the channel its capacity.
THEOREM TypeCorrect == Spec => []TypeOK
<1>1. Inv => TypeOK
  BY DEF Inv
<1> QED
  BY <1>1, AlwaysInv, PTL

\* For any number of requests and slots, whatever becomes of a handler, the tokens
\* are the handlers at work: the limit on concurrent decoding is kept and no slot
\* is lost.
THEOREM SlotsAreHeld == Spec => []SlotsHeld
<1>1. Inv => SlotsHeld
  BY DEF Inv
<1> QED
  BY <1>1, AlwaysInv, PTL

\* The gauge agrees with the channel when no handler is between the two.
THEOREM GaugeAgrees == Spec => []GaugeSettles
<1>1. Inv => GaugeSettles
  <2> SUFFICES ASSUME Inv, At({"inc_gauge", "dec_gauge"}) = {} PROVE inFlight = admission
    BY DEF GaugeSettles
  <2>1. At(HoldsSlot) = At(InGauge)
    BY DEF At, HoldsSlot, InGauge
  <2> QED
    BY <2>1 DEF Inv, SlotsHeld, GaugeExact
<1> QED
  BY <1>1, AlwaysInv, PTL

\* Every answered POST is counted once, as what it was answered, and every decode
\* error twice.
THEOREM CountersAgreeWithAnswers == Spec => []CountedAsAnswered
<1>1. Inv => CountedAsAnswered
  BY DEF Inv, CountedAsAnswered
<1> QED
  BY <1>1, AlwaysInv, PTL

------------------------------------------------------------------------------
(* The limit.                                                               *)

\* What a handler knows of the body it has read: a body to be decoded was read whole, a
\* result is the verdict on the body, and a refusal is the status of the result.
JudgedOf(r) ==
  /\ request[r].pc = "decode" => ~ReadFails(request[r].body)
  /\ request[r] # Absent /\ request[r].result # "none"
       => request[r].result = Verdict(request[r].body)
  /\ request[r].status \in {"400", "413"}
       => request[r].result # "none" /\ request[r].status = Status(request[r].result)

Judged == \A r \in Requests : JudgedOf(r)

\* What one handler does, the others do not notice.
LEMMA JudgedStep ==
  ASSUME Judged, NEW r \in Requests, JudgedOf(r)',
         \A s \in Requests \ {r} : request'[s] = request[s]
  PROVE  Judged'
<1>1. ASSUME NEW s \in Requests PROVE JudgedOf(s)'
  BY DEF Judged, JudgedOf
<1> QED
  BY <1>1 DEF Judged

LEMMA ArriveJudged ==
  ASSUME TypeOK, Judged, NEW r \in Requests, NEW post \in BOOLEAN, NEW b \in Bodies,
         NEW valid \in BOOLEAN, Arrive(r, post, b, valid)
  PROVE  Judged'
<1>1. JudgedOf(r)'
  BY DEF Arrive, TypeOK, JudgedOf
<1>2. \A s \in Requests \ {r} : request'[s] = request[s]
  BY DEF Arrive, TypeOK
<1> QED
  BY <1>1, <1>2, JudgedStep

\* The steps that leave body, result and status as they are, and have nothing to decode yet.
LEMMA QuietStepJudged ==
  ASSUME TypeOK, Judged, NEW r \in Requests,
         TryAdmit(r) \/ IncGauge(r) \/ Release(r) \/ DecGauge(r)
  PROVE  Judged'
<1>1. /\ request[r] \in Handled
      /\ \E pc \in PCs \ {"decode"} : Goto(r, pc)
  BY DEF TryAdmit, IncGauge, Release, DecGauge, TypeOK, Absent, PCs
<1>2. PICK pc \in PCs \ {"decode"} : Goto(r, pc)
  BY <1>1
<1>3. request[r] # Absent
  BY <1>1 DEF Handled, Absent, PCs
<1>4. JudgedOf(r)'
  BY <1>1, <1>2, <1>3 DEF Goto, Judged, JudgedOf, TypeOK, Handled
<1>5. \A s \in Requests \ {r} : request'[s] = request[s]
  BY <1>2 DEF Goto, TypeOK
<1> QED
  BY <1>4, <1>5, JudgedStep

\* A body that could not be read, or is too long, is judged so.
LEMMA ReadBodyJudged ==
  ASSUME TypeOK, Judged, Answers, NEW r \in Requests, ReadBody(r)
  PROVE  Judged'
<1>1. request[r] \in Handled /\ request[r].result = "none" /\ request[r].status = "none"
  BY DEF ReadBody, TypeOK, Absent, Answers, AnswersOf, Unanswered
<1>2. ReadFails(request[r].body) => Verdict(request[r].body) = "too_large"
  BY DEF Verdict
<1>3. JudgedOf(r)'
  BY <1>1, <1>2 DEF ReadBody, JudgedOf, TypeOK, Handled
<1>4. \A s \in Requests \ {r} : request'[s] = request[s]
  BY DEF ReadBody, TypeOK
<1> QED
  BY <1>3, <1>4, JudgedStep

LEMMA DecodeJudged ==
  ASSUME TypeOK, Judged, Answers, NEW r \in Requests, Decode(r)
  PROVE  Judged'
<1>1. request[r] \in Handled /\ request[r].status = "none"
  BY DEF Decode, TypeOK, Absent, Answers, AnswersOf, Unanswered
<1>2. JudgedOf(r)'
  BY <1>1 DEF Decode, JudgedOf, TypeOK, Handled
<1>3. \A s \in Requests \ {r} : request'[s] = request[s]
  BY DEF Decode, TypeOK
<1> QED
  BY <1>2, <1>3, JudgedStep

LEMMA InspectJudged ==
  ASSUME TypeOK, Judged, NEW r \in Requests, Inspect(r)
  PROVE  Judged'
<1>1. request[r] \in Handled /\ request[r] # Absent
  BY DEF Inspect, TypeOK, Absent
<1>2. JudgedOf(r)'
  BY <1>1 DEF Inspect, Goto, Judged, JudgedOf, TypeOK, Handled
<1>3. \A s \in Requests \ {r} : request'[s] = request[s]
  BY DEF Inspect, Goto, TypeOK
<1> QED
  BY <1>2, <1>3, JudgedStep

\* A 413 or a 400 is the status of the result; no slot is a 204.
LEMMA ObserveJudged ==
  ASSUME TypeOK, Judged, Answers, NEW r \in Requests, Overloaded(r) \/ ObserveResult(r)
  PROVE  Judged'
<1>1. request[r] \in Handled /\ request[r] # Absent
  BY DEF Overloaded, ObserveResult, TypeOK, Absent
<1>2. Overloaded(r) => request[r].result = "none"
  BY DEF Overloaded, Answers, AnswersOf
<1>3. ObserveResult(r) => request[r].result # "none"
  BY DEF ObserveResult, Answers, AnswersOf, Results
<1>4. Status("overloaded") = "204"
  BY DEF Status
<1>5. JudgedOf(r)'
  BY <1>1, <1>2, <1>3, <1>4
    DEF Overloaded, ObserveResult, Observe, Judged, JudgedOf, TypeOK, Handled
<1>6. \A s \in Requests \ {r} : request'[s] = request[s]
  BY DEF Overloaded, ObserveResult, Observe, TypeOK
<1> QED
  BY <1>5, <1>6, JudgedStep

LEMMA NextJudged == Inv /\ Judged /\ [Next]_vars => Judged'
<1> SUFFICES ASSUME Inv, Judged, [Next]_vars PROVE Judged'
  OBVIOUS
<1>1. TypeOK /\ Answers
  BY DEF Inv
<1>2. ASSUME NEW r \in Requests, Step(r) PROVE Judged'
  BY <1>1, <1>2, QuietStepJudged, ObserveJudged, DecodeJudged, InspectJudged DEF Step
<1>3. CASE UNCHANGED vars
  BY <1>3 DEF vars, Judged, JudgedOf
<1> QED
  BY <1>1, <1>2, <1>3, ArriveJudged, ReadBodyJudged DEF Next

\* A body not cut is as long as what was read of it.
LEMMA WholeBodies ==
  ASSUME NEW b \in Bodies, ~ReadFails(b)
  PROVE  b.wire <= MaxBodyBytes
<1>1. b.wire \in Nat /\ b.wire <= MaxInt /\ MaxBodyBytes \in Nat /\ MaxInt \in Nat
  BY SizesAssumption, BodyBytesAssumption
<1> QED
  BY <1>1, BodyBytesAssumption DEF ReadFails, BytesRead, readLimit

\* A body within the limit on both counts gets the verdict of what is in it.
LEMMA VerdictWithin ==
  ASSUME NEW b \in Bodies, MaxBodyBytes < MaxInt, b.form \in {"ok", "bad_data", "empty"},
         b.wire <= MaxBodyBytes, b.decoded <= MaxBodyBytes
  PROVE  Status(Verdict(b)) = "204"
<1>1. b.wire \in Nat /\ b.decoded \in Nat /\ MaxBodyBytes \in Nat
  BY BodyBytesAssumption
<1>2. BytesRead(b) = b.wire
  BY <1>1 DEF BytesRead, readLimit
<1>3. ~ReadFails(b) /\ ~Cut(b)
  BY <1>1, <1>2 DEF ReadFails, Cut
<1>4. Verdict(b) = b.form
  BY <1>1, <1>3 DEF Verdict
<1> QED
  BY <1>4 DEF Status

LEMMA VerdictInspected ==
  ASSUME NEW b \in Bodies, Verdict(b) \in {"ok", "bad_data", "empty"}
  PROVE  b.decoded <= MaxBodyBytes
<1>1. b.decoded \in Nat /\ MaxBodyBytes \in Nat
  BY BodyBytesAssumption
<1> QED
  BY <1>1 DEF Verdict

\* For any limit and any bodies: none within it is refused, and none beyond it is
\* decoded or inspected.
THEOREM LimitsAreExact == Spec => []LimitsExact
<1>1. Init => Judged
  BY DEF Init, Judged, JudgedOf, Absent
<1>2. Inv /\ Judged => LimitsExact
  <2> SUFFICES ASSUME Inv, Judged PROVE LimitsExact
    OBVIOUS
  <2>1. \A r \in Requests : request[r] \in Handled \cup {Absent} /\ JudgedOf(r) /\ AnswersOf(r)
    BY DEF Inv, TypeOK, Judged, Answers
  <2>2. ASSUME NEW r \in Requests
        PROVE  /\ request[r].pc = "decode" => request[r].body.wire <= MaxBodyBytes
               /\ request[r].pc = "inspect" => request[r].body.decoded <= MaxBodyBytes
    BY <2>1, WholeBodies, VerdictInspected DEF JudgedOf, AnswersOf, Handled, Absent
  <2>3. ASSUME NEW r \in Requests, MaxBodyBytes < MaxInt, request[r] # Absent,
               request[r].body.form \in {"ok", "bad_data", "empty"},
               request[r].body.wire <= MaxBodyBytes, request[r].body.decoded <= MaxBodyBytes
        PROVE  request[r].status \notin {"400", "413"}
    <3>1. request[r].body \in Bodies
      BY <2>1, <2>3 DEF Handled
    <3>2. Status(Verdict(request[r].body)) = "204"
      BY <2>3, <3>1, VerdictWithin
    <3> QED
      BY <2>1, <2>3, <3>2 DEF JudgedOf
  <2> QED
    BY <2>2, <2>3 DEF LimitsExact, WithinLimitsInspected, OversizedRefused
<1> QED
  BY <1>1, <1>2, NextJudged, AlwaysInv, PTL DEF Spec
==============================================================================
