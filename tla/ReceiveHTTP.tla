----------------------------- MODULE ReceiveHTTP -----------------------------
(***************************************************************************)
(* The life of the requests to the receive endpoint: receiveHTTP and       *)
(* readLimited of internal/inspector/server.go, tryAdmit, release and      *)
(* ObserveRequest of internal/inspector/inspector.go.  Handlers run        *)
(* concurrently; the admission channel, the in-flight gauge and the        *)
(* counters are what they share.  The channel and the gauge are written in *)
(* two steps, and a panic of the metrics library unwinds the handler.      *)
(***************************************************************************)
EXTENDS Integers, FiniteSets

CONSTANTS
  Requests,             \* the requests, one handler goroutine each
  MaxInFlightRequests,  \* cfg.MaxInFlightRequests: the size of the channel
  MaxBodyBytes,         \* cfg.MaxBodyBytes
  MaxInt,               \* the largest int64
  Bodies                \* the bodies clients send

\* normalize makes both limits positive.
ASSUME InFlightAssumption == MaxInFlightRequests \in Nat \ {0}
ASSUME BodyBytesAssumption ==
  MaxBodyBytes \in Nat \ {0} /\ MaxInt \in Nat /\ MaxBodyBytes <= MaxInt

Forms == {"broken", "bad_length", "bad_snappy", "bad_protobuf", "ok", "bad_data", "empty"}

\* A body has a size on the wire, the size its snappy header announces, and a
\* form: broken off, badly encoded, or a write request with the given finding.
ASSUME BodiesAssumption == Bodies \subseteq [wire : Nat, decoded : Nat, form : Forms]

\* No body is longer than an int64 can say.
ASSUME SizesAssumption == \A b \in Bodies : b.wire <= MaxInt

ASSUME RequestsAssumption == IsFiniteSet(Requests)

VARIABLES
  admission,     \* the number of tokens in the admission channel
  inFlight,      \* in_flight_requests
  requests,      \* requests_total, by result
  decodeErrors,  \* decode_errors_total
  request        \* where the handler of each request is

vars == << admission, inFlight, requests, decodeErrors, request >>
shared == << admission, inFlight, requests, decodeErrors >>

Results == {"overloaded", "too_large", "decode_error", "ok", "bad_data", "empty"}
Absent == [pc |-> "absent", status |-> "none"]

Init ==
  /\ admission = 0
  /\ inFlight = 0
  /\ requests = [s \in Results |-> 0]
  /\ decodeErrors = 0
  /\ request = [r \in Requests |-> Absent]

Goto(r, pc) == request' = [request EXCEPT ![r].pc = pc]

------------------------------------------------------------------------------
(* What becomes of a body.                                                  *)

\* Slip of readLimit: a body one byte over the limit passes for one within it.
readLimitOffByOne == MaxBodyBytes

\* maxBytes + 1 in int64, and 1 when that overflows.
readLimit == IF MaxBodyBytes = MaxInt THEN 1 ELSE MaxBodyBytes + 1

BytesRead(b) == IF b.wire <= readLimit THEN b.wire ELSE readLimit

ReadFails(b) == b.form = "broken" \/ BytesRead(b) > MaxBodyBytes

\* A body cut short by the limit does not decode.
Cut(b) == BytesRead(b) < b.wire

\* The result the request is counted under: the reads of a broken or an
\* oversized body fail alike, and the size announced is checked before the body
\* is decoded.
Verdict(b) ==
  CASE ReadFails(b) -> "too_large"
    [] ~ReadFails(b) /\ (Cut(b) \/ b.form = "bad_length") -> "decode_error"
    [] ~ReadFails(b) /\ ~Cut(b) /\ b.form # "bad_length" /\ b.decoded > MaxBodyBytes
         -> "too_large"
    [] OTHER -> IF b.form \in {"bad_snappy", "bad_protobuf"} THEN "decode_error" ELSE b.form

Status(result) ==
  CASE result = "too_large" -> "413"
    [] result = "decode_error" -> "400"
    [] OTHER -> "204"

------------------------------------------------------------------------------
(* The handler.                                                             *)

\* A request comes in.  valid: the identity values its headers resolve to, cut
\* to the maximum identity length, are ones the metrics library takes.
Arrive(r, post, b, valid) ==
  /\ request[r] = Absent
  /\ request' = [request EXCEPT ![r] =
       [ pc |-> IF post THEN "admit" ELSE "gone",
         status |-> IF post THEN "none" ELSE "405",
         body |-> b, valid |-> valid, result |-> "none" ]]
  /\ UNCHANGED shared

\* Slip of TryAdmit: the send waits for a slot.
TryAdmitBlocks(r) ==
  /\ request[r].pc = "admit"
  /\ admission < MaxInFlightRequests
  /\ admission' = admission + 1
  /\ Goto(r, "inc_gauge")
  /\ UNCHANGED << inFlight, requests, decodeErrors >>

\* The non-blocking send on the admission channel.
TryAdmit(r) ==
  /\ request[r].pc = "admit"
  /\ IF admission < MaxInFlightRequests
     THEN admission' = admission + 1 /\ Goto(r, "inc_gauge")
     ELSE Goto(r, "overloaded") /\ UNCHANGED admission
  /\ UNCHANGED << inFlight, requests, decodeErrors >>

\* Slip of IncGauge: the gauge is only ever brought down.
IncGaugeForgotten(r) ==
  /\ request[r].pc = "inc_gauge"
  /\ Goto(r, "read")
  /\ UNCHANGED shared

IncGauge(r) ==
  /\ request[r].pc = "inc_gauge"
  /\ inFlight' = inFlight + 1
  /\ Goto(r, "read")
  /\ UNCHANGED << admission, requests, decodeErrors >>

\* Count the result and write the status; a label value the library does not take
\* panics before anything is counted, and the connection is dropped.
Observe(r, result, pc) ==
  IF request[r].valid
  THEN /\ requests' = [requests EXCEPT ![result] = @ + 1]
       /\ request' = [request EXCEPT ![r].pc = pc, ![r].status = Status(result)]
  ELSE /\ request' = [request EXCEPT ![r].pc = pc, ![r].status = "dropped"]
       /\ UNCHANGED requests

\* Slip of Overloaded: the handler does not return and goes on to read the body.
OverloadedFallsThrough(r) ==
  /\ request[r].pc = "overloaded"
  /\ Observe(r, "overloaded", "read")
  /\ UNCHANGED << admission, inFlight, decodeErrors >>

\* No slot: the body is closed unread.
Overloaded(r) ==
  /\ request[r].pc = "overloaded"
  /\ Observe(r, "overloaded", "gone")
  /\ UNCHANGED << admission, inFlight, decodeErrors >>

\* The body is read to its end or to the limit.  Nothing bounds the time a client
\* takes to send it.
ReadBody(r) ==
  /\ request[r].pc = "read"
  /\ request' = [request EXCEPT
       ![r].pc = IF ReadFails(request[r].body) THEN "observe" ELSE "decode",
       ![r].result = IF ReadFails(request[r].body) THEN "too_large" ELSE @]
  /\ UNCHANGED shared

Decode(r) ==
  /\ request[r].pc = "decode"
  /\ LET result == Verdict(request[r].body) IN
     /\ request' = [request EXCEPT
          ![r].pc = IF result \in {"ok", "bad_data", "empty"} THEN "inspect" ELSE "observe",
          ![r].result = result]
     /\ decodeErrors' = decodeErrors + (IF result = "decode_error" THEN 1 ELSE 0)
  /\ UNCHANGED << admission, inFlight, requests >>

\* inspectReceived counts the samples under the identity of the request.
Inspect(r) ==
  /\ request[r].pc = "inspect"
  /\ IF request[r].valid
     THEN Goto(r, "observe")
     ELSE request' = [request EXCEPT ![r].pc = "release", ![r].status = "dropped"]
  /\ UNCHANGED shared

ObserveResult(r) ==
  /\ request[r].pc = "observe"
  /\ Observe(r, request[r].result, "release")
  /\ UNCHANGED << admission, inFlight, decodeErrors >>

\* Slip of Release: an unwinding handler does not give its slot back.
ReleaseUnlessDropped(r) ==
  /\ request[r].pc = "release"
  /\ admission' = IF request[r].status = "dropped" THEN admission ELSE admission - 1
  /\ Goto(r, "dec_gauge")
  /\ UNCHANGED << inFlight, requests, decodeErrors >>

\* Deferred: release takes the token out of the channel ...
Release(r) ==
  /\ request[r].pc = "release"
  /\ admission' = admission - 1
  /\ Goto(r, "dec_gauge")
  /\ UNCHANGED << inFlight, requests, decodeErrors >>

\* Slip of DecGauge: the gauge is set from the channel instead of decremented.
DecGaugeFromChannel(r) ==
  /\ request[r].pc = "dec_gauge"
  /\ inFlight' = admission
  /\ Goto(r, "gone")
  /\ UNCHANGED << admission, requests, decodeErrors >>

\* ... and then brings the gauge down.
DecGauge(r) ==
  /\ request[r].pc = "dec_gauge"
  /\ inFlight' = inFlight - 1
  /\ Goto(r, "gone")
  /\ UNCHANGED << admission, requests, decodeErrors >>

\* What the handler does on its own, without the client.
Step(r) ==
  \/ TryAdmit(r)
  \/ IncGauge(r)
  \/ Overloaded(r)
  \/ Decode(r)
  \/ Inspect(r)
  \/ ObserveResult(r)
  \/ Release(r)
  \/ DecGauge(r)

Next ==
  \/ \E r \in Requests, post \in BOOLEAN, b \in Bodies, valid \in BOOLEAN :
       Arrive(r, post, b, valid)
  \/ \E r \in Requests : ReadBody(r)
  \/ \E r \in Requests : Step(r)

Spec == Init /\ [][Next]_vars

\* A handler that is not waiting for its client runs; a client may take forever
\* to send a body.
FairSpec == Spec /\ \A r \in Requests : WF_vars(Step(r))

------------------------------------------------------------------------------
(* Types.                                                                   *)

PCs == {"admit", "inc_gauge", "overloaded", "read", "decode", "inspect", "observe",
        "release", "dec_gauge", "gone"}

Statuses == {"none", "204", "400", "405", "413", "dropped"}

Handled == [pc : PCs, status : Statuses, body : Bodies, valid : BOOLEAN,
            result : Results \cup {"none"}]

\* The type invariant.
TypeOK ==
  /\ admission \in 0..MaxInFlightRequests
  /\ inFlight \in Nat
  /\ requests \in [Results -> Nat]
  /\ decodeErrors \in Nat
  /\ request \in [Requests -> Handled \cup {Absent}]

------------------------------------------------------------------------------
(* Safety.                                                                  *)

At(pcs) == {r \in Requests : request[r].pc \in pcs}

\* Where a handler has a slot, and where the gauge includes it.
HoldsSlot == {"inc_gauge", "read", "decode", "inspect", "observe", "release"}
InGauge == {"read", "decode", "inspect", "observe", "release", "dec_gauge"}

\* The tokens in the channel are the handlers between admission and release:
\* none is lost when a handler unwinds, so the limit keeps its meaning, and no
\* more handlers than the limit read, decode and inspect at the same time.
SlotsHeld == admission = Cardinality(At(HoldsSlot)) /\ admission <= MaxInFlightRequests

\* The gauge is the handlers between its two updates: it agrees with the channel
\* whenever no handler is between the channel and the gauge, whatever the order in
\* which the handlers got there.
GaugeSettles == At({"inc_gauge", "dec_gauge"}) = {} => inFlight = admission

\* Answered with the given status.
Answered(status) == {r \in Requests : request[r].status = status}

\* The requests that did not decode and have not been told so.
Undecoded == {r \in Requests : /\ request[r] # Absent
                               /\ request[r].result = "decode_error"
                               /\ request[r].status \in {"none", "dropped"}}

\* Every decode error is counted twice, by reason and by identity, and the two
\* counts differ only by requests still on their way or dropped.
DecodeErrorsAgree ==
  decodeErrors = requests["decode_error"] + Cardinality(Undecoded)

\* requests_total counts every answered POST exactly once, and under a result
\* that agrees with the status its client got; a dropped one is not counted.  The
\* decode errors by reason agree with it.
CountedAsAnswered ==
  /\ requests["too_large"] = Cardinality(Answered("413"))
  /\ requests["decode_error"] = Cardinality(Answered("400"))
  /\ requests["overloaded"] + requests["ok"] + requests["bad_data"] + requests["empty"]
       = Cardinality(Answered("204"))
  /\ DecodeErrorsAgree

\* A whole, well-formed body that is within the limit both as sent and as decoded is
\* never refused, up to the largest limit there is but one: at the largest one
\* readLimited's limit overflows and a single byte is read.
WithinLimitsInspected ==
  MaxBodyBytes < MaxInt =>
    \A r \in Requests :
      /\ request[r] # Absent
      /\ request[r].body.form \in {"ok", "bad_data", "empty"}
      /\ request[r].body.wire <= MaxBodyBytes
      /\ request[r].body.decoded <= MaxBodyBytes
      => request[r].status \notin {"400", "413"}

\* Only a body that is within the limit as sent is decoded, so that one cut short
\* never passes for a broken one, and only a body that is within the limit as
\* decoded is inspected.
OversizedRefused ==
  \A r \in Requests :
    /\ request[r].pc = "decode" => request[r].body.wire <= MaxBodyBytes
    /\ request[r].pc = "inspect" => request[r].body.decoded <= MaxBodyBytes

\* The limit is exact on both sides, for bodies of any size and any announced size.
LimitsExact == WithinLimitsInspected /\ OversizedRefused

------------------------------------------------------------------------------
(* What the documentation says.                                             *)

\* README: the receiver "returns 204 No Content for successfully decoded requests".
DecodedGet204 ==
  \A r \in Requests :
    /\ request[r].pc = "gone"
    /\ request[r].result \in {"ok", "bad_data", "empty"}
    => request[r].status = "204"

------------------------------------------------------------------------------
(* Liveness.                                                                *)

\* README: excess requests are acknowledged so that a diagnostic outage cannot
\* backpressure the primary path.  A request never waits for a slot, however long
\* the bodies of the others take.
NeverWaitsForASlot ==
  \A r \in Requests : request[r].pc = "admit" ~> request[r].pc \in {"read", "gone"}

\* The endpoint stays full only while a client is still sending a body: once the
\* bodies are in, answered and dropped handlers alike make room for others.
SlotComesBack ==
  admission = MaxInFlightRequests ~> \/ admission < MaxInFlightRequests
                                     \/ At({"read"}) # {}
==============================================================================
