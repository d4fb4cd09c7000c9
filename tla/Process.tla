-------------------------------- MODULE Process --------------------------------
(***************************************************************************)
(* The process, cmd/remote-write-inspector/main.go over NewServer of       *)
(* internal/inspector/server.go: the command line becomes an inspector, a  *)
(* goroutine serves, and the main goroutine waits for a signal or for the  *)
(* server, and shuts down.  Of net/http there is what main relies on: a    *)
(* server that is shut down takes no connections, and Shutdown closes idle *)
(* connections until there are no others or its context is over.           *)
(***************************************************************************)
EXTENDS Config

CONSTANTS
  Commands,     \* the command lines
  Conns,        \* the connections that may come
  HeaderSets,   \* the headers of a request: identity -> << value, value, value >>
  None          \* no inspector, no exit code

\* The flags package gives each option a value of its type.
CommandLine ==
  [ limits : [Limits -> Int], cacheSize : Int, cacheMemoryBytes : Int,
    identities : Seq(STRING), labels : Seq([source : STRING, mapped : BOOLEAN, output : STRING]),
    disableDuplicate : BOOLEAN, disableCrossPath : BOOLEAN,
    logSampleRate : Int, logFirstExamples : Int,
    capture : [ selected : BOOLEAN, Duration : Int, MaxSamples : Int, Rate : Int, LabelBytes : Int,
                constrained : BOOLEAN ],
    showVersion : BOOLEAN ]

ASSUME CommandsAssumption == Commands \subseteq CommandLine
ASSUME NoneAssumption == None \notin {0, 1, 2}

VARIABLES
  flags,      \* the command line
  main,       \* where the main goroutine is, and its exit code: None if a signal killed it
  inspector,  \* what New returned
  server,     \* the goroutine of ListenAndServe
  errCh,      \* the channel with its result, of capacity 1
  stop,       \* the channel of the signals, of capacity 1
  timer,      \* the context of Shutdown: "off", "running", "over"
  conn        \* each connection, with the identity of the request it is at

vars == << flags, main, inspector, server, errCh, stop, timer, conn >>

NoIdentity == << >>

\* "new": no request has been read from it yet.  "cut": the process ended under a handler.
ConnStates == {"absent", "new", "active", "idle", "closed", "cut"}

Init ==
  /\ flags \in Commands
  /\ main = [pc |-> "parse", code |-> None]
  /\ inspector = None
  /\ server = "none"
  /\ errCh = {}
  /\ stop = {}
  /\ timer = "off"
  /\ conn = [c \in Conns |-> [state |-> "absent", identity |-> NoIdentity]]

Running == main.pc # "exited"

\* From then on the server takes no connections, and its ListenAndServe returns.
ShuttingDown == main.pc \in {"shutdown", "wait"}

\* The process ends, and with it what its handlers were at.
Exit(code) ==
  /\ main' = [pc |-> "exited", code |-> code]
  /\ conn' = [c \in Conns |-> [conn[c] EXCEPT !.state =
                IF @ = "active" THEN "cut" ELSE IF @ = "absent" THEN @ ELSE "closed",
                !.identity = NoIdentity]]

GoOn(pc) == main' = [main EXCEPT !.pc = pc] /\ UNCHANGED conn

------------------------------------------------------------------------------
(* The main goroutine.                                                      *)

Parse ==
  /\ main.pc = "parse"
  /\ \/ \E n \in DOMAIN flags.labels : Unparsable(flags.labels[n]) /\ Exit(2)
     \/ /\ \A n \in DOMAIN flags.labels : ~Unparsable(flags.labels[n])
        /\ IF flags.showVersion THEN Exit(0) ELSE GoOn("new")
  /\ UNCHANGED << flags, inspector, server, errCh, stop, timer >>

NewServer ==
  /\ main.pc = "new"
  /\ LET cfg == normalize(flags) IN
     IF Acceptable(cfg) THEN inspector' = New(cfg) /\ GoOn("serve")
                        ELSE Exit(2) /\ UNCHANGED inspector
  /\ UNCHANGED << flags, server, errCh, stop, timer >>

Serve ==
  /\ main.pc = "serve"
  /\ server' = "starting"
  /\ GoOn("notify")
  /\ UNCHANGED << flags, inspector, errCh, stop, timer >>

Notify ==
  /\ main.pc = "notify"
  /\ GoOn("select")
  /\ UNCHANGED << flags, inspector, server, errCh, stop, timer >>

\* Slip of TakeSignal: Shutdown is given a context without a timeout.
TakeSignalWithoutTimeout ==
  /\ main.pc = "select" /\ stop # {}
  /\ stop' = {}
  /\ GoOn("shutdown")
  /\ UNCHANGED << flags, inspector, server, errCh, timer >>

TakeSignal ==
  /\ main.pc = "select" /\ stop # {}
  /\ stop' = {}
  /\ timer' = "running"
  /\ GoOn("shutdown")
  /\ UNCHANGED << flags, inspector, server, errCh >>

\* The result of the server while nobody has asked it to stop.
TakeError ==
  /\ main.pc = "select" /\ errCh # {}
  /\ errCh' = {}
  /\ Exit(IF "failed" \in errCh THEN 1 ELSE 0)
  /\ UNCHANGED << flags, inspector, server, stop, timer >>

\* Slip of ShutdownReturns: main waits for ListenAndServe to return instead.
ServerReturned(busy) == server = "closed"

ShutdownReturns(busy) == busy = {}

\* A look of Shutdown at the connections, when Serve has left its listener: the idle ones
\* are closed, and new ones that have been silent for five seconds.
Poll(silent) ==
  /\ main.pc = "shutdown"
  /\ server # "open"
  /\ \A c \in silent : conn[c].state = "new"
  /\ LET closed == silent \cup {c \in Conns : conn[c].state = "idle"}
         busy == {c \in Conns : conn[c].state \in {"new", "active"}} \ silent
     IN
     IF ShutdownReturns(busy) THEN Exit(0)
     ELSE /\ main' = [main EXCEPT !.pc = "wait"]
          /\ conn' = [c \in Conns |-> IF c \in closed THEN [conn[c] EXCEPT !.state = "closed"]
                                                      ELSE conn[c]]
  /\ UNCHANGED << flags, inspector, server, errCh, stop, timer >>

PollAgain ==
  /\ main.pc = "wait"
  /\ GoOn("shutdown")
  /\ UNCHANGED << flags, inspector, server, errCh, stop, timer >>

GiveUp ==
  /\ main.pc = "wait"
  /\ timer = "over"
  /\ Exit(1)
  /\ UNCHANGED << flags, inspector, server, errCh, stop, timer >>

------------------------------------------------------------------------------
(* The goroutine of the server.                                             *)

\* The listener is opened, or cannot be.
Listen ==
  /\ Running /\ server = "starting"
  /\ ~ShuttingDown
  /\ \/ server' = "open" /\ UNCHANGED errCh
     \/ server' = "failed" /\ errCh' = {"failed"}
  /\ UNCHANGED << flags, main, inspector, stop, timer, conn >>

AcceptFails ==
  /\ Running /\ server = "open"
  /\ ~ShuttingDown
  /\ server' = "failed" /\ errCh' = {"failed"}
  /\ UNCHANGED << flags, main, inspector, stop, timer, conn >>

\* ErrServerClosed.
ServerClosed ==
  /\ ShuttingDown /\ server \in {"starting", "open"}
  /\ server' = "closed" /\ errCh' = {"closed"}
  /\ UNCHANGED << flags, main, inspector, stop, timer, conn >>

------------------------------------------------------------------------------
(* The clients, the clock and the operator.                                 *)

SetConn(c, state, identity) ==
  /\ conn' = [conn EXCEPT ![c] = [state |-> state, identity |-> identity]]
  /\ UNCHANGED << flags, main, inspector, server, errCh, stop, timer >>

Connect(c) ==
  /\ Running /\ server = "open"
  /\ conn[c].state = "absent"
  /\ SetConn(c, "new", NoIdentity)

\* The headers of a request have been read; its handler runs.
Request(c, headers) ==
  /\ Running
  /\ conn[c].state \in {"new", "idle"}
  /\ SetConn(c, "active", Resolve(inspector.cfg, headers))

\* The connection is kept alive or not; the server looks whether it is being shut down a
\* moment before.
Answer(c, state) ==
  /\ Running
  /\ conn[c].state = "active"
  /\ SetConn(c, state, NoIdentity)

HangUp(c) ==
  /\ Running
  /\ conn[c].state \in {"new", "idle"}
  /\ SetConn(c, "closed", NoIdentity)

TimeOver ==
  /\ Running /\ timer = "running"
  /\ timer' = "over"
  /\ UNCHANGED << flags, main, inspector, server, errCh, stop, conn >>

\* A signal kills the process until Notify, and is dropped when one is waiting.
Signal ==
  /\ Running
  /\ IF main.pc \in {"select", "shutdown", "wait"}
     THEN stop' = {"signal"} /\ UNCHANGED << main, conn >>
     ELSE Exit(None) /\ UNCHANGED stop
  /\ UNCHANGED << flags, inspector, server, errCh, timer >>

MainStep ==
  \/ Parse \/ NewServer \/ Serve \/ Notify
  \/ TakeSignal \/ TakeError
  \/ \E silent \in SUBSET Conns : Poll(silent)
  \/ PollAgain

Next ==
  \/ MainStep \/ GiveUp
  \/ Listen \/ AcceptFails \/ ServerClosed
  \/ \E c \in Conns : Connect(c) \/ HangUp(c) \/ \E state \in {"idle", "closed"} : Answer(c, state)
  \/ \E c \in Conns, headers \in HeaderSets : Request(c, headers)
  \/ TimeOver \/ Signal

Spec == Init /\ [][Next]_vars

\* The two goroutines are scheduled and the clock goes on; the select of Shutdown between its
\* ticker and its context that is over chooses at random, and so the context in the
\* end.  No client need ever send the rest of a request.
FairSpec ==
  /\ Spec
  /\ WF_vars(MainStep) /\ SF_vars(GiveUp)
  /\ WF_vars(Listen) /\ WF_vars(ServerClosed)
  /\ WF_vars(TimeOver)

------------------------------------------------------------------------------
(* Types.                                                                   *)

\* The type invariant: among others, every limit of an inspector is positive, and a connection
\* has an identity just when a request is at it.
TypeOK ==
  /\ flags \in Commands
  /\ main \in [ pc : {"parse", "new", "serve", "notify", "select", "shutdown", "wait", "exited"},
                code : {None, 0, 1, 2} ]
  /\ inspector # None =>
       /\ inspector.cfg.limits \in [Limits -> Nat \ {0}]
       /\ DOMAIN inspector.caches \subseteq {"sample_conflicts", "cross_path"}
  /\ server \in {"none", "starting", "open", "failed", "closed"}
  /\ errCh \in {{}, {"failed"}, {"closed"}}
  /\ stop \in {{}, {"signal"}}
  /\ timer \in {"off", "running", "over"}
  /\ \A c \in Conns :
       /\ conn[c].state \in ConnStates
       /\ conn[c].state # "active" => conn[c].identity = NoIdentity
       /\ conn[c].state = "active" => DOMAIN conn[c].identity = ToSet(inspector.cfg.identities)

------------------------------------------------------------------------------
(* Safety.                                                                  *)

Entries(shards) == SumFunction(shards)

\* README: cache-memory-bytes is "an approximate total memory budget for both stateful
\* caches", divided "only among active stateful detectors".  The shards of all caches
\* together stay within it and leave less than an entry for each, unless it is too
\* small for one entry each or too large for an int; and cache_capacity_entries is what
\* the shards of the cache hold.
BudgetRespected ==
  inspector # None =>
    /\ \A c \in DOMAIN inspector.caches : Entries(inspector.caches[c]) = inspector.capacity[c]
    /\ flags.cacheMemoryBytes > 0 /\ DOMAIN inspector.caches # {} =>
         LET share == Cardinality(DOMAIN inspector.caches) * BytesPerEntry
             entries == SumFunction([c \in DOMAIN inspector.caches |-> Entries(inspector.caches[c])])
             left == flags.cacheMemoryBytes - entries * BytesPerEntry
         IN \/ 0 <= left /\ left < share
            \/ flags.cacheMemoryBytes < share /\ \A c \in DOMAIN inspector.caches : inspector.capacity[c] = 1
            \/ left >= share /\ \A c \in DOMAIN inspector.caches : inspector.capacity[c] = MaxInt

\* Whatever the command line and the headers, a handler finds the caches its request is looked
\* up in, with no shard of no entry: three pieces of code decide by themselves whether the
\* detector of paths is active (normalize, New and the detector).
CacheForEveryLookup ==
  \A c \in Conns :
    conn[c].state = "active" =>
      \A cache \in LooksInto(inspector.cfg, conn[c].identity) :
        /\ cache \in DOMAIN inspector.caches
        /\ \A idx \in DOMAIN inspector.caches[cache] : inspector.caches[cache][idx] > 0

\* README: collisions of promoted labels with fixed or identity labels are rejected at startup.
\* No inspector gives one label to a row of the top series twice, or writes one attribute
\* into the record of a finding twice; nothing but normalize guards the records.  (What slog
\* writes itself, time, level and msg, is neither reserved nor among LogKeys.)
LabelsDistinct ==
  inspector # None =>
    /\ IsInjective(RowLabels(inspector.cfg))
    /\ IsInjective(LogKeys(inspector.cfg))

\* The process reports success only when it leaves no handler behind: neither the result of the
\* server, which is there as soon as the shutdown begins, nor a second signal ends it before
\* the last request is answered.
ExitZeroCutsNobody == main.code = 0 => \A c \in Conns : conn[c].state # "cut"

------------------------------------------------------------------------------
(* Liveness.                                                                *)

\* A signal ends the process, although clients may never send the rest of their requests
\* and only their headers have a timeout.
SignalEndsProcess == stop # {} ~> main.pc = "exited"
================================================================================
