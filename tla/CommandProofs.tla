---------------------------- MODULE CommandProofs ----------------------------
(***************************************************************************)
(* The two commands of cmd/.  What a start of the inspector guarantees for *)
(* every command line, and a shutdown for every number of connections; and *)
(* what the load generator counts, shows and sends, for every number of    *)
(* workers and every plan of series and paths.                             *)
(***************************************************************************)
EXTENDS Process, LoadGen, SharedFacts, TLAPS

------------------------------------------------------------------------------
(* What New builds.                                                         *)

LEMMA ShardsHoldEntries ==
  ASSUME NEW size \in Int, NEW idx \in DOMAIN ShardSizes(size)
  PROVE  ShardSizes(size)[idx] > 0
<1> DEFINE m == IF size <= 0 THEN 1 ELSE size
           count == ShardCount(m, DefaultShards)
<1>1. m \in Nat \ {0}
  OBVIOUS
<1> HIDE DEF m
<1>2. count \in Nat \ {0} /\ count <= m
  BY <1>1, SizesAssumption DEF ShardCount
<1>3. ShardSizes(size)[idx] = ShardSize(m, count, idx)
  BY DEF ShardSizes, m
<1> HIDE DEF count
<1>4. ShardSize(m, count, idx) \in Nat \ {0}
  BY <1>1, <1>2, ShardSizePositive
<1> QED
  BY <1>3, <1>4

\* newStateCache deals out every entry it is asked for.
LEMMA ShardsHoldAll ==
  ASSUME NEW size \in Nat \ {0}
  PROVE  Entries(ShardSizes(size)) = size
<1> DEFINE count == ShardCount(size, DefaultShards)
<1>1. count \in Nat \ {0}
  BY SizesAssumption DEF ShardCount
<1>2. ShardSizes(size) = [idx \in 0..(count - 1) |-> ShardSize(size, count, idx)]
  BY DEF ShardSizes
<1> HIDE DEF count
<1>3. SumFunction([idx \in 0..(count - 1) |-> ShardSize(size, count, idx)]) = size
  BY <1>1, ShardsAddUp
<1> QED
  BY <1>2, <1>3 DEF Entries

\* What New makes of a command line that is accepted.
Built(i) == i = New(normalize(flags)) /\ Acceptable(normalize(flags))

LEMMA Normalized ==
  ASSUME NEW f \in CommandLine
  PROVE  /\ normalize(f).limits \in [Limits -> Nat \ {0}]
         /\ normalize(f).cacheSize \in Int
         /\ normalize(f).identities = f.identities /\ f.identities \in Seq(STRING)
         /\ normalize(f).labels = [n \in DOMAIN f.labels |-> ParseTopSeriesLabel(f.labels[n])]
         /\ f.labels \in Seq([source : STRING, mapped : BOOLEAN, output : STRING])
<1> DEFINE l == [name \in Limits |-> limit(f, name)]
           p == [n \in DOMAIN f.labels |-> ParseTopSeriesLabel(f.labels[n])]
           s == cacheSize(f)
<1>1. l \in [Limits -> Nat \ {0}]
  BY LimitsAssumption DEF limit, CommandLine
<1>2. s \in Int
  <2>1. f.cacheSize \in Int /\ f.cacheMemoryBytes \in Int
    BY DEF CommandLine
  <2>2. activeStatefulDetectors(f) \in {0, 1, 2}
    BY DEF activeStatefulDetectors
  <2>3. ASSUME NEW a \in {0, 1, 2}, f.cacheMemoryBytes > 0
        PROVE  cacheSizeFromMemoryBudget(f.cacheMemoryBytes, a) \in Int
    <3>1. CASE a = 0
      BY <3>1 DEF cacheSizeFromMemoryBudget
    <3>2. CASE a # 0
      <4>1. f.cacheMemoryBytes \in Nat /\ a * BytesPerEntry \in Nat \ {0}
        BY <2>1, <2>3, <3>2, SizesAssumption
      <4>2. f.cacheMemoryBytes \div (a * BytesPerEntry) \in Nat
        BY <4>1, DivBounds
      <4> QED
        BY <3>2, <4>2, SizesAssumption DEF cacheSizeFromMemoryBudget
    <3> QED
      BY <3>1, <3>2
  <2> QED
    BY <2>1, <2>2, <2>3, SizesAssumption DEF cacheSize
<1>3. /\ normalize(f) = [f EXCEPT !.limits = l, !.cacheSize = s, !.labels = p]
  BY DEF normalize
<1> HIDE DEF l, p, s
<1> QED
  BY <1>1, <1>2, <1>3 DEF CommandLine, p

\* normalize counts the detectors for which New makes a cache, and sizes the caches for them.
LEMMA ActiveCaches ==
  ASSUME NEW f \in CommandLine
  PROVE  /\ IsFiniteSet(CachesOf(normalize(f)))
         /\ Cardinality(CachesOf(normalize(f))) = activeStatefulDetectors(f)
         /\ activeStatefulDetectors(f) \in {0, 1, 2}
         /\ normalize(f).cacheSize = cacheSize(f)
<1> DEFINE cfg == normalize(f)
<1>1. /\ cfg.disableDuplicate = f.disableDuplicate /\ cfg.disableCrossPath = f.disableCrossPath
      /\ cfg.identities = f.identities /\ cfg.cacheSize = cacheSize(f)
  BY DEF normalize, CommandLine
<1>2. Has(cfg.identities, "input_path") <=> "input_path" \in ToSet(f.identities)
  BY <1>1 DEF Has, ToSet
<1> DEFINE A == IF f.disableDuplicate THEN {} ELSE {"sample_conflicts"}
           B == IF crossPathActive(f) THEN {"cross_path"} ELSE {}
<1>3. CachesOf(cfg) = A \cup B
  BY <1>1, <1>2 DEF CachesOf, crossPathActive
<1>4. /\ IsFiniteSet(A) /\ Cardinality(A) = IF f.disableDuplicate THEN 0 ELSE 1
      /\ "cross_path" \notin A
  BY FS_EmptySet, FS_Singleton
<1> HIDE DEF cfg
<1>5. IsFiniteSet(A \cup B) /\ Cardinality(A \cup B) = Cardinality(A) + (IF crossPathActive(f) THEN 1 ELSE 0)
  <2>1. CASE crossPathActive(f)
    <3>1. A \cup B = A \cup {"cross_path"}
      BY <2>1
    <3> QED
      BY <1>4, <2>1, <3>1, FS_AddElement
  <2>2. CASE ~crossPathActive(f)
    <3>1. A \cup B = A
      BY <2>2
    <3> QED
      BY <1>4, <2>2, <3>1
  <2> QED
    BY <2>1, <2>2
<1> QED
  BY <1>1, <1>3, <1>4, <1>5 DEF activeStatefulDetectors, cfg

\* The size of a cache is the largest that the budget allows for, but at least an entry
\* and at most what an int holds.
LEMMA SizeFromBudget ==
  ASSUME NEW bytes \in Nat \ {0}, NEW n \in {1, 2}, NEW size, size = cacheSizeFromMemoryBudget(bytes, n)
  PROVE  /\ size \in Nat \ {0}
         /\ LET share == n * BytesPerEntry
                left == bytes - (n * size) * BytesPerEntry
            IN \/ 0 <= left /\ left < share
               \/ bytes < share /\ size = 1
               \/ left >= share /\ size = MaxInt
<1> DEFINE share == n * BytesPerEntry
           e == bytes \div share
<1>1. share \in Nat \ {0} /\ MaxInt \in Nat \ {0} /\ BytesPerEntry \in Nat \ {0}
  BY SizesAssumption
<1>2. e \in Nat /\ share * e <= bytes /\ bytes < share * e + share
  <2> HIDE DEF share
  <2> QED
    BY <1>1, DivBounds
<1>3. size = IF e < 1 THEN 1 ELSE IF e > MaxInt THEN MaxInt ELSE e
  BY DEF cacheSizeFromMemoryBudget
<1> HIDE DEF e
<1>4. size \in Nat \ {0}
  BY <1>1, <1>2, <1>3
<1>5. (n * size) * BytesPerEntry = share * size
  BY <1>1, <1>4
<1> HIDE DEF share
<1>6. CASE e < 1
  <2>1. share * e = 0
    BY <1>1, <1>2, <1>6
  <2> QED
    BY <1>1, <1>2, <1>3, <1>4, <1>6, <2>1 DEF share
<1>7. CASE e > MaxInt
  <2>1. size = MaxInt /\ size + 1 <= e
    BY <1>1, <1>2, <1>3, <1>7
  <2>2. share * (size + 1) <= share * e /\ share * (size + 1) = share * size + share
    <3>1. size + 1 \in Nat
      BY <1>4
    <3> QED
      BY <1>1, <1>2, <1>4, <2>1, <3>1, BudgetGrows
  <2>3. share * size \in Nat /\ share * e \in Nat
    BY <1>1, <1>2, <1>4
  <2>4. bytes - share * size >= share
    BY <1>1, <1>2, <2>2, <2>3
  <2> QED
    BY <1>4, <1>5, <2>1, <2>4 DEF share
<1>8. CASE ~(e < 1) /\ ~(e > MaxInt)
  <2>1. size = e
    BY <1>3, <1>8
  <2>2. share * size \in Nat
    BY <1>1, <1>4
  <2>3. 0 <= bytes - share * size /\ bytes - share * size < share
    BY <1>1, <1>2, <2>1, <2>2
  <2> QED
    BY <1>4, <1>5, <2>3 DEF share
<1> QED
  BY <1>2, <1>6, <1>7, <1>8, <1>1

------------------------------------------------------------------------------
(* Labels.                                                                  *)

\* Of two sequences without repetitions that share nothing, one after the other has none.
LEMMA ConcatIsInjective ==
  ASSUME NEW S, NEW s \in Seq(S), NEW t \in Seq(S),
         IsInjective(s), IsInjective(t), ToSet(s) \cap ToSet(t) = {}
  PROVE  IsInjective(s \o t)
<1> DEFINE st == s \o t
<1>1. /\ DOMAIN s = 1..Len(s) /\ Len(s) \in Nat
      /\ DOMAIN t = 1..Len(t) /\ Len(t) \in Nat
      /\ DOMAIN st = 1..(Len(s) + Len(t))
  OBVIOUS
<1>2. \A n \in DOMAIN st : IF n <= Len(s) THEN n \in DOMAIN s /\ st[n] = s[n]
                                          ELSE n - Len(s) \in DOMAIN t /\ st[n] = t[n - Len(s)]
  BY <1>1
<1>3. \A n \in DOMAIN s, m \in DOMAIN t : s[n] # t[m]
  BY DEF ToSet
<1> SUFFICES ASSUME NEW a \in DOMAIN st, NEW b \in DOMAIN st, st[a] = st[b] PROVE a = b
  BY DEF IsInjective
<1> HIDE DEF st
<1>4. CASE a <= Len(s) /\ b <= Len(s)
  BY <1>2, <1>4 DEF IsInjective
<1>5. CASE ~(a <= Len(s)) /\ ~(b <= Len(s))
  <2>1. a - Len(s) = b - Len(s)
    BY <1>2, <1>5 DEF IsInjective
  <2> QED
    BY <1>1, <2>1
<1> QED
  BY <1>2, <1>3, <1>4, <1>5

LEMMA SeqOver ==
  ASSUME NEW S, NEW s, NEW len \in Nat, DOMAIN s = 1..len, s = [n \in 1..len |-> s[n]],
         ToSet(s) \subseteq S
  PROVE  s \in Seq(S)
<1>1. s \in [1..len -> S]
  BY DEF ToSet
<1> QED
  BY <1>1

LEMMA ConcatHolds ==
  ASSUME NEW S, NEW s \in Seq(S), NEW t \in Seq(S)
  PROVE  s \o t \in Seq(S) /\ ToSet(s \o t) \subseteq ToSet(s) \cup ToSet(t)
<1>1. s \o t \in Seq(S)
  OBVIOUS
<1>2. ASSUME NEW n \in DOMAIN (s \o t) PROVE (s \o t)[n] \in ToSet(s) \cup ToSet(t)
  <2>1. CASE n <= Len(s)
    BY <2>1 DEF ToSet
  <2>2. CASE ~(n <= Len(s))
    <3>1. n - Len(s) \in DOMAIN t /\ (s \o t)[n] = t[n - Len(s)]
      BY <2>2
    <3> QED
      BY <3>1 DEF ToSet
  <2> QED
    BY <2>1, <2>2
<1> QED
  BY <1>1, <1>2 DEF ToSet

\* The attributes of a record before its identity and labels, and after them.
RecordHead == << "component", "event", "reason", "series_name", "host_name", "series_fingerprint",
                 "labels", "labels_truncated" >>
RecordTail == << "sample_timestamp_ms", "sample_type", "previous_value_bits", "previous_value",
                 "incoming_value_bits", "incoming_value", "value_delta" >>

LEMMA HeadAndTail ==
  /\ IsInjective(RecordHead) /\ IsInjective(RecordTail)
  /\ ToSet(RecordHead) \cap ToSet(RecordTail) = {}
  /\ (ToSet(RecordHead) \cup ToSet(RecordTail)) \cap Supported = {}
<1>1. IsInjective(RecordHead)
  BY DEF RecordHead, IsInjective
<1>2. IsInjective(RecordTail)
  BY DEF RecordTail, IsInjective
<1>3. ToSet(RecordHead) = {"component", "event", "reason", "series_name", "host_name",
                              "series_fingerprint", "labels", "labels_truncated"}
  BY DEF RecordHead, ToSet
<1>4. ToSet(RecordTail) = {"sample_timestamp_ms", "sample_type", "previous_value_bits",
                           "previous_value", "incoming_value_bits", "incoming_value", "value_delta"}
  BY DEF RecordTail, ToSet
<1> QED
  BY <1>1, <1>2, <1>3, <1>4 DEF Supported

LEMMA HeadAndTailReserved ==
  ASSUME NEW cfg
  PROVE  ToSet(RecordHead) \cup ToSet(RecordTail) \subseteq reserved(cfg)
<1>1. ToSet(RecordHead) \subseteq reserved(cfg)
  BY DEF RecordHead, ToSet, reserved
<1>2. ToSet(RecordTail) \subseteq reserved(cfg)
  BY DEF RecordTail, ToSet, reserved
<1> QED
  BY <1>1, <1>2

LEMMA AcceptedLabelsAreDistinct ==
  ASSUME NEW f \in CommandLine, Acceptable(normalize(f))
  PROVE  IsInjective(RowLabels(normalize(f))) /\ IsInjective(LogKeys(normalize(f)))
<1> DEFINE cfg == normalize(f)
           ids == cfg.identities
           outs == Outputs(cfg)
           S == ToSet(RecordHead) \cup ToSet(ids) \cup ToSet(outs) \cup ToSet(RecordTail)
<1>1. ids \in Seq(S)
  <2>1. DOMAIN ids = 1..Len(ids) /\ Len(ids) \in Nat /\ ids = [n \in 1..Len(ids) |-> ids[n]]
    <3>1. ids \in Seq(STRING)
      BY Normalized
    <3> HIDE DEF ids
    <3> QED
      BY <3>1
  <2> HIDE DEF ids, outs
  <2> QED
    BY <2>1, SeqOver
<1>2. outs \in Seq(S)
  <2>1. outs = [n \in DOMAIN f.labels |-> ParseTopSeriesLabel(f.labels[n]).Output]
    BY Normalized DEF Outputs
  <2>2. DOMAIN f.labels = 1..Len(f.labels) /\ Len(f.labels) \in Nat
    BY Normalized
  <2>3. DOMAIN outs = 1..Len(f.labels) /\ outs = [n \in 1..Len(f.labels) |-> outs[n]]
    BY <2>1, <2>2
  <2> HIDE DEF ids, outs
  <2> QED
    BY <2>2, <2>3, SeqOver
<1>3. /\ IsInjective(ids) /\ ToSet(ids) \subseteq Supported
      /\ IsInjective(outs) /\ ToSet(outs) \cap reserved(cfg) = {}
      /\ IsInjective(RowLabels(cfg))
  BY DEF Acceptable, ValidIdentities, ValidTopSeriesLabels, Registrable
<1>4. LogKeys(cfg) = ((RecordHead \o ids) \o outs) \o RecordTail
  BY DEF LogKeys, RecordHead, RecordTail
<1>5. RecordHead \in Seq(S) /\ RecordTail \in Seq(S)
  <2>1. DOMAIN RecordHead = 1..8 /\ RecordHead = [n \in 1..8 |-> RecordHead[n]]
    BY DEF RecordHead
  <2>2. DOMAIN RecordTail = 1..7 /\ RecordTail = [n \in 1..7 |-> RecordTail[n]]
    BY DEF RecordTail
  <2> HIDE DEF ids, outs
  <2> QED
    BY <2>1, <2>2, SeqOver
<1>6. ToSet(ids) \subseteq reserved(cfg)
  BY DEF reserved
<1> HIDE DEF cfg, ids, outs, S
<1>7. /\ ToSet(RecordHead) \cap ToSet(ids) = {} /\ ToSet(RecordTail) \cap ToSet(ids) = {}
      /\ ToSet(RecordHead) \cap ToSet(outs) = {} /\ ToSet(RecordTail) \cap ToSet(outs) = {}
      /\ ToSet(ids) \cap ToSet(outs) = {}
  BY <1>3, <1>6, HeadAndTail, HeadAndTailReserved
<1>8. /\ IsInjective(RecordHead \o ids) /\ RecordHead \o ids \in Seq(S)
      /\ ToSet(RecordHead \o ids) \subseteq ToSet(RecordHead) \cup ToSet(ids)
  BY <1>1, <1>3, <1>5, <1>7, HeadAndTail, ConcatIsInjective, ConcatHolds
<1>9. /\ IsInjective((RecordHead \o ids) \o outs) /\ (RecordHead \o ids) \o outs \in Seq(S)
      /\ ToSet((RecordHead \o ids) \o outs) \subseteq ToSet(RecordHead \o ids) \cup ToSet(outs)
  <2>1. ToSet(RecordHead \o ids) \cap ToSet(outs) = {}
    BY <1>7, <1>8
  <2> QED
    BY <1>2, <1>3, <1>8, <2>1, ConcatIsInjective, ConcatHolds
<1>10. ToSet((RecordHead \o ids) \o outs) \cap ToSet(RecordTail) = {}
  BY <1>7, <1>8, <1>9, HeadAndTail
<1>11. IsInjective(((RecordHead \o ids) \o outs) \o RecordTail)
  BY <1>5, <1>9, <1>10, HeadAndTail, ConcatIsInjective
<1> QED
  BY <1>3, <1>4, <1>11 DEF cfg

------------------------------------------------------------------------------
(* The invariant.                                                           *)

Pcs == {"parse", "new", "serve", "notify", "select", "shutdown", "wait", "exited"}

\* Before the server's goroutine runs there are no connections, and before New no inspector.
Early == {"parse", "new", "serve"}

ConnOK(c) ==
  /\ DOMAIN conn[c] = {"state", "identity"}
  /\ conn[c].state \in ConnStates
  /\ conn[c].state # "active" => conn[c].identity = NoIdentity
  /\ conn[c].state = "active" => DOMAIN conn[c].identity = ToSet(inspector.cfg.identities)
  /\ server = "none" => conn[c].state = "absent"
  /\ Running => conn[c].state # "cut"
  /\ ~Running => conn[c].state # "active"
  /\ main.code = 0 => conn[c].state # "cut"

MainOK ==
  /\ flags \in Commands
  /\ main \in [pc : Pcs, code : {None, 0, 1, 2}]
  /\ Running => main.code = None
  /\ server \in {"none", "starting", "open", "failed", "closed"}
  /\ errCh \in {{}, {"failed"}, {"closed"}}
  /\ stop \in {{}, {"signal"}}
  /\ timer \in {"off", "running", "over"}
  /\ main.pc \in Early => server = "none" /\ errCh = {}
  /\ errCh = {"closed"} => main.pc \in {"shutdown", "wait", "exited"}

\* The inspector is what New makes of a command line that is accepted.
InspectorOK ==
  /\ inspector # None => Built(inspector)
  /\ main.pc \in Pcs \ {"parse", "new", "exited"} => Built(inspector)
  /\ server # "none" => Built(inspector)

IInv == MainOK /\ InspectorOK /\ DOMAIN conn = Conns /\ \A c \in Conns : ConnOK(c)

LEMMA InitIInv == Init => IInv
<1> SUFFICES ASSUME Init PROVE IInv
  OBVIOUS
<1>1. MainOK
  BY DEF Init, MainOK, Pcs, Early, Running
<1>2. InspectorOK
  BY DEF Init, InspectorOK, Pcs
<1>3. DOMAIN conn = Conns /\ \A c \in Conns : ConnOK(c)
  BY NoneAssumption DEF Init, ConnOK, ConnStates, Running
<1> QED
  BY <1>1, <1>2, <1>3 DEF IInv

\* A process that ends cuts a connection just when a handler is at it.
LEMMA ExitKeepsConnections ==
  ASSUME IInv, Running, NEW code \in {None, 0, 1, 2}, Exit(code), server' = server,
         code = 0 => \A c \in Conns : conn[c].state # "active"
  PROVE  /\ main' = [pc |-> "exited", code |-> code]
         /\ DOMAIN conn' = Conns /\ \A c \in Conns : ConnOK(c)'
<1>1. main' = [pc |-> "exited", code |-> code]
  BY DEF Exit
<1> DEFINE after(c) == IF conn[c].state = "active" THEN "cut"
                       ELSE IF conn[c].state = "absent" THEN "absent" ELSE "closed"
<1>2. /\ DOMAIN conn' = Conns
      /\ \A c \in Conns : /\ DOMAIN conn'[c] = {"state", "identity"}
                          /\ conn'[c].state = after(c) /\ conn'[c].identity = NoIdentity
  <2>1. conn' = [c \in Conns |-> [conn[c] EXCEPT !.state = after(c), !.identity = NoIdentity]]
    BY DEF Exit
  <2>2. \A c \in Conns : DOMAIN conn[c] = {"state", "identity"}
    BY DEF IInv, ConnOK
  <2> HIDE DEF after
  <2> QED
    BY <2>1, <2>2
<1>3. ASSUME NEW c \in Conns PROVE ConnOK(c)'
  <2>1. after(c) \in ConnStates \ {"active"}
    BY DEF ConnStates
  <2>2. server = "none" => after(c) = "absent"
    BY DEF IInv, ConnOK
  <2>3. code = 0 => after(c) # "cut"
    OBVIOUS
  <2> HIDE DEF after
  <2> QED
    BY <1>1, <1>2, <2>1, <2>2, <2>3 DEF ConnOK, Running
<1> QED
  BY <1>1, <1>2, <1>3

\* What keeps the invariant when the process ends.
LEMMA ExitKeepsIInv ==
  ASSUME IInv, Running, NEW code \in {None, 0, 1, 2}, Exit(code),
         code = 0 => \A c \in Conns : conn[c].state # "active",
         UNCHANGED << flags, inspector, server, timer >>,
         errCh' \in {{}, errCh}, stop' \in {{}, stop}
  PROVE  IInv'
<1>1. /\ main' = [pc |-> "exited", code |-> code]
      /\ DOMAIN conn' = Conns /\ \A c \in Conns : ConnOK(c)'
  BY ExitKeepsConnections
<1>2. MainOK'
  BY <1>1 DEF IInv, MainOK, Pcs, Early, Running
<1>3. InspectorOK'
  BY <1>1 DEF IInv, InspectorOK, Built, Pcs
<1> QED
  BY <1>1, <1>2, <1>3 DEF IInv

\* Connections nobody touches, while the process goes on.
LEMMA SameConnections ==
  ASSUME IInv, UNCHANGED conn, inspector' = inspector \/ server = "none",
         Running, Running', main'.code = None, server = "none" => server' \in {"none", "starting"},
         server # "none" => server' # "none"
  PROVE  DOMAIN conn' = Conns /\ \A c \in Conns : ConnOK(c)'
<1> SUFFICES ASSUME NEW c \in Conns PROVE DOMAIN conn' = Conns /\ ConnOK(c)'
  BY DEF IInv
<1>1. ConnOK(c) /\ DOMAIN conn = Conns /\ MainOK
  BY DEF IInv
<1> QED
  BY <1>1, NoneAssumption DEF ConnOK

LEMMA SetConnKeepsIInv ==
  ASSUME IInv, Running, NEW c \in Conns, NEW state, NEW identity, SetConn(c, state, identity),
         server # "none", state \in ConnStates \ {"cut"},
         state # "active" => identity = NoIdentity,
         state = "active" => DOMAIN identity = ToSet(inspector.cfg.identities)
  PROVE  IInv'
<1>1. /\ conn' = [conn EXCEPT ![c] = [state |-> state, identity |-> identity]]
      /\ UNCHANGED << flags, main, inspector, server, errCh, stop, timer >>
  BY DEF SetConn
<1>2. MainOK' /\ InspectorOK'
  BY <1>1 DEF IInv, MainOK, InspectorOK, Built, Running
<1>3. DOMAIN conn' = Conns
  BY <1>1 DEF IInv
<1>4. ASSUME NEW d \in Conns PROVE ConnOK(d)'
  <2>1. CASE d = c
    <3>1. conn'[d] = [state |-> state, identity |-> identity]
      BY <1>1, <2>1 DEF IInv
    <3> QED
      BY <1>1, <3>1 DEF ConnOK, Running
  <2>2. CASE d # c
    <3>1. conn'[d] = conn[d]
      BY <1>1, <2>2 DEF IInv
    <3> QED
      BY <1>1, <3>1 DEF IInv, ConnOK, Running
  <2> QED
    BY <2>1, <2>2
<1> QED
  BY <1>2, <1>3, <1>4 DEF IInv

------------------------------------------------------------------------------
(* Every step.                                                              *)

\* The main goroutine goes from one place to another.
LEMMA GoOnKeepsIInv ==
  ASSUME IInv, Running, NEW pc \in Pcs \ {"exited"}, GoOn(pc),
         UNCHANGED << flags, inspector, errCh >>,
         server' = server \/ (server = "none" /\ server' = "starting" /\ Built(inspector)),
         stop' \in {{}, stop}, timer' \in {timer, "running"},
         pc \notin {"parse", "new"} => Built(inspector),
         pc \in Early => server' = "none" /\ errCh = {},
         errCh = {"closed"} => pc \in {"shutdown", "wait"}
  PROVE  IInv'
<1>1. main' = [main EXCEPT !.pc = pc] /\ UNCHANGED conn
  BY DEF GoOn
<1>2. main'.pc = pc /\ main'.code = None /\ main' \in [pc : Pcs, code : {None, 0, 1, 2}] /\ Running'
  BY <1>1 DEF IInv, MainOK, Running
<1>3. MainOK'
  BY <1>2 DEF IInv, MainOK
<1>4. InspectorOK'
  BY <1>2 DEF IInv, InspectorOK, Built
<1>5. DOMAIN conn' = Conns /\ \A c \in Conns : ConnOK(c)'
  BY <1>1, <1>2, SameConnections DEF IInv, MainOK
<1> QED
  BY <1>3, <1>4, <1>5 DEF IInv

LEMMA ParseKeepsIInv == IInv /\ Parse => IInv'
<1> SUFFICES ASSUME IInv, Parse PROVE IInv'
  OBVIOUS
<1>1. /\ main.pc = "parse" /\ Running /\ server = "none" /\ errCh = {}
      /\ UNCHANGED << flags, inspector, server, errCh, stop, timer >>
  BY DEF IInv, MainOK, Parse, Running, Early
<1>2. \A c \in Conns : conn[c].state # "active"
  BY <1>1 DEF IInv, ConnOK
<1>3. CASE Exit(2) \/ Exit(0)
  BY <1>1, <1>2, <1>3, ExitKeepsIInv
<1>4. CASE GoOn("new")
  BY <1>1, <1>4, GoOnKeepsIInv DEF Pcs
<1> QED
  BY <1>3, <1>4 DEF Parse

LEMMA NewServerKeepsIInv == IInv /\ NewServer => IInv'
<1> SUFFICES ASSUME IInv, NewServer PROVE IInv'
  OBVIOUS
<1>1. /\ main.pc = "new" /\ Running /\ server = "none" /\ errCh = {}
      /\ UNCHANGED << flags, server, errCh, stop, timer >>
  BY DEF IInv, MainOK, NewServer, Running, Early
<1>2. CASE Exit(2) /\ UNCHANGED inspector
  BY <1>1, <1>2, ExitKeepsIInv
<1>3. CASE /\ Acceptable(normalize(flags))
           /\ inspector' = New(normalize(flags)) /\ GoOn("serve")
  <2>1. main' = [main EXCEPT !.pc = "serve"] /\ UNCHANGED conn
    BY <1>3 DEF GoOn
  <2>2. /\ main'.pc = "serve" /\ main'.code = None /\ Running'
        /\ main' \in [pc : Pcs, code : {None, 0, 1, 2}]
    BY <1>1, <2>1 DEF IInv, MainOK, Running, Pcs
  <2>3. MainOK'
    BY <1>1, <2>2 DEF IInv, MainOK, Early
  <2>4. Built(inspector)'
    BY <1>1, <1>3 DEF Built
  <2>5. InspectorOK'
    BY <2>4 DEF InspectorOK
  <2>6. DOMAIN conn' = Conns /\ \A c \in Conns : ConnOK(c)'
    BY <1>1, <2>1, <2>2, SameConnections
  <2> QED
    BY <2>3, <2>5, <2>6 DEF IInv
<1> QED
  BY <1>2, <1>3 DEF NewServer

LEMMA ServeKeepsIInv == IInv /\ Serve => IInv'
<1> SUFFICES ASSUME IInv, Serve PROVE IInv'
  OBVIOUS
<1>1. /\ main.pc = "serve" /\ Running /\ server = "none" /\ errCh = {} /\ Built(inspector)
      /\ server' = "starting" /\ GoOn("notify")
      /\ UNCHANGED << flags, inspector, errCh, stop, timer >>
  BY DEF IInv, MainOK, InspectorOK, Serve, Running, Early, Pcs
<1> QED
  BY <1>1, GoOnKeepsIInv DEF Pcs, Early

\* The steps of the main goroutine between Notify and its end.
LEMMA WaitingKeepsIInv ==
  ASSUME IInv, Notify \/ TakeSignal \/ PollAgain
  PROVE  IInv'
<1>1. CASE Notify
  <2>1. /\ main.pc = "notify" /\ Running /\ Built(inspector) /\ errCh # {"closed"}
        /\ GoOn("select") /\ UNCHANGED << flags, inspector, server, errCh, stop, timer >>
    BY <1>1 DEF IInv, MainOK, InspectorOK, Notify, Running, Pcs
  <2> QED
    BY <2>1, GoOnKeepsIInv DEF Pcs, Early
<1>2. CASE TakeSignal
  <2>1. /\ main.pc = "select" /\ Running /\ Built(inspector)
        /\ stop' = {} /\ timer' = "running"
        /\ GoOn("shutdown") /\ UNCHANGED << flags, inspector, server, errCh >>
    BY <1>2 DEF IInv, InspectorOK, TakeSignal, Running, Pcs
  <2> QED
    BY <2>1, GoOnKeepsIInv DEF Pcs, Early
<1>3. CASE PollAgain
  <2>1. /\ main.pc = "wait" /\ Running /\ Built(inspector)
        /\ GoOn("shutdown") /\ UNCHANGED << flags, inspector, server, errCh, stop, timer >>
    BY <1>3 DEF IInv, InspectorOK, PollAgain, Running, Pcs
  <2> QED
    BY <2>1, GoOnKeepsIInv DEF Pcs, Early
<1> QED
  BY <1>1, <1>2, <1>3

LEMMA TakeErrorKeepsIInv == IInv /\ TakeError => IInv'
<1> SUFFICES ASSUME IInv, TakeError PROVE IInv'
  OBVIOUS
<1>1. /\ main.pc = "select" /\ Running /\ errCh = {"failed"} /\ errCh' = {} /\ Exit(1)
      /\ UNCHANGED << flags, inspector, server, stop, timer >>
  BY DEF IInv, MainOK, TakeError, Running
<1> QED
  BY <1>1, ExitKeepsIInv

LEMMA GiveUpKeepsIInv == IInv /\ GiveUp => IInv'
<1> SUFFICES ASSUME IInv, GiveUp PROVE IInv'
  OBVIOUS
<1>1. /\ Running /\ Exit(1) /\ UNCHANGED << flags, inspector, server, errCh, stop, timer >>
  BY DEF GiveUp, Running
<1> QED
  BY <1>1, ExitKeepsIInv

\* Shutdown returns when every connection it finds busy is none at all.
LEMMA PollKeepsIInv ==
  ASSUME IInv, NEW silent \in SUBSET Conns, Poll(silent)
  PROVE  IInv'
<1> DEFINE closed == silent \cup {c \in Conns : conn[c].state = "idle"}
           busy == {c \in Conns : conn[c].state \in {"new", "active"}} \ silent
           polled == [c \in Conns |-> IF c \in closed THEN [conn[c] EXCEPT !.state = "closed"]
                                                      ELSE conn[c]]
<1>1. /\ main.pc = "shutdown" /\ Running /\ Built(inspector)
      /\ \A c \in silent : conn[c].state = "new"
      /\ UNCHANGED << flags, inspector, server, errCh, stop, timer >>
  BY DEF IInv, InspectorOK, Poll, Running, Pcs
<1>2. CASE busy = {} /\ Exit(0)
  <2>1. \A c \in Conns : conn[c].state # "active"
    BY <1>1, <1>2
  <2> QED
    BY <1>1, <1>2, <2>1, ExitKeepsIInv
<1>3. CASE main' = [main EXCEPT !.pc = "wait"] /\ conn' = polled
  <2>1. /\ main'.pc = "wait" /\ main'.code = None /\ Running'
        /\ main' \in [pc : Pcs, code : {None, 0, 1, 2}]
    BY <1>1, <1>3 DEF IInv, MainOK, Running, Pcs
  <2>2. MainOK'
    BY <1>1, <2>1 DEF IInv, MainOK, Early
  <2>3. InspectorOK'
    BY <1>1 DEF IInv, InspectorOK, Built
  <2>4. ASSUME NEW c \in Conns PROVE ConnOK(c)'
    <3>1. CASE c \in closed
      <4>1. DOMAIN conn[c] = {"state", "identity"} /\ conn[c].state \in {"new", "idle"}
        BY <1>1, <3>1 DEF IInv, ConnOK
      <4>2. conn[c].identity = NoIdentity /\ server # "none"
        BY <4>1 DEF IInv, ConnOK
      <4>3. conn'[c] = [conn[c] EXCEPT !.state = "closed"]
        BY <1>3, <3>1
      <4>4. DOMAIN conn'[c] = {"state", "identity"} /\ conn'[c].state = "closed"
            /\ conn'[c].identity = NoIdentity
        BY <4>1, <4>2, <4>3
      <4> QED
        BY <1>1, <2>1, <4>2, <4>4 DEF ConnOK, ConnStates
    <3>2. CASE c \notin closed
      <4>1. conn'[c] = conn[c]
        BY <1>3, <3>2
      <4> QED
        BY <1>1, <2>1, <4>1, NoneAssumption DEF IInv, ConnOK, Running
    <3> QED
      BY <3>1, <3>2
  <2> QED
    BY <1>3, <2>2, <2>3, <2>4 DEF IInv
<1> QED
  BY <1>2, <1>3 DEF Poll, ShutdownReturns

\* The goroutine of the server, the clock, and a signal that waits.
LEMMA AroundKeepsIInv ==
  ASSUME IInv, Running, UNCHANGED << flags, main, inspector, conn >>,
         server' = server \/ (server \in {"starting", "open"} /\ server' \in {"open", "failed", "closed"}),
         errCh' \in {errCh, {"failed"}} \/ (errCh' = {"closed"} /\ ShuttingDown),
         main.pc \in Early => UNCHANGED << server, errCh >>,
         stop' \in {stop, {"signal"}}, timer' \in {timer, "over"}
  PROVE  IInv'
<1>1. MainOK'
  BY DEF IInv, MainOK, ShuttingDown, Running
<1>2. InspectorOK'
  BY DEF IInv, InspectorOK, Built
<1>3. DOMAIN conn' = Conns /\ \A c \in Conns : ConnOK(c)'
  BY SameConnections DEF IInv, MainOK, Running
<1> QED
  BY <1>1, <1>2, <1>3 DEF IInv

LEMMA ServerKeepsIInv ==
  ASSUME IInv, Listen \/ AcceptFails \/ ServerClosed \/ TimeOver
  PROVE  IInv'
<1>1. CASE Listen \/ AcceptFails
  <2>1. /\ Running /\ server \in {"starting", "open"} /\ server' \in {"open", "failed"}
        /\ errCh' \in {errCh, {"failed"}} /\ UNCHANGED << flags, main, inspector, stop, timer, conn >>
    BY <1>1 DEF Listen, AcceptFails
  <2>2. main.pc \notin Early
    BY <2>1 DEF IInv, MainOK
  <2> QED
    BY <2>1, <2>2, AroundKeepsIInv
<1>2. CASE ServerClosed
  <2>1. /\ Running /\ ShuttingDown /\ server \in {"starting", "open"} /\ server' = "closed"
        /\ errCh' = {"closed"} /\ UNCHANGED << flags, main, inspector, stop, timer, conn >>
    BY <1>2 DEF ServerClosed, ShuttingDown, Running
  <2>2. main.pc \notin Early
    BY <2>1 DEF IInv, MainOK
  <2> QED
    BY <2>1, <2>2, AroundKeepsIInv
<1>3. CASE TimeOver
  <2>1. /\ Running /\ timer' = "over"
        /\ UNCHANGED << flags, main, inspector, server, errCh, stop, conn >>
    BY <1>3 DEF TimeOver
  <2> QED
    BY <2>1, AroundKeepsIInv
<1> QED
  BY <1>1, <1>2, <1>3

LEMMA SignalKeepsIInv == IInv /\ Signal => IInv'
<1> SUFFICES ASSUME IInv, Signal PROVE IInv'
  OBVIOUS
<1>1. Running /\ UNCHANGED << flags, inspector, server, errCh, timer >>
  BY DEF Signal
<1>2. CASE stop' = {"signal"} /\ UNCHANGED << main, conn >>
  BY <1>1, <1>2, AroundKeepsIInv
<1>3. CASE Exit(None) /\ UNCHANGED stop
  BY <1>1, <1>3, NoneAssumption, ExitKeepsIInv
<1> QED
  BY <1>2, <1>3 DEF Signal

LEMMA ConnectionsKeepIInv ==
  ASSUME IInv, NEW c \in Conns,
         \/ Connect(c) \/ HangUp(c)
         \/ \E state \in {"idle", "closed"} : Answer(c, state)
         \/ \E headers \in HeaderSets : Request(c, headers)
  PROVE  IInv'
<1>1. CASE Connect(c)
  <2>1. Running /\ server = "open" /\ SetConn(c, "new", NoIdentity)
    BY <1>1 DEF Connect
  <2> QED
    BY <2>1, SetConnKeepsIInv DEF ConnStates
<1>2. CASE HangUp(c)
  <2>1. Running /\ server # "none" /\ SetConn(c, "closed", NoIdentity)
    BY <1>2 DEF HangUp, IInv, ConnOK
  <2> QED
    BY <2>1, SetConnKeepsIInv DEF ConnStates
<1>3. ASSUME NEW state \in {"idle", "closed"}, Answer(c, state) PROVE IInv'
  <2>1. Running /\ server # "none" /\ SetConn(c, state, NoIdentity)
    BY <1>3 DEF Answer, IInv, ConnOK
  <2> QED
    BY <2>1, SetConnKeepsIInv DEF ConnStates
<1>4. ASSUME NEW headers \in HeaderSets, Request(c, headers) PROVE IInv'
  <2>1. /\ Running /\ server # "none"
        /\ SetConn(c, "active", Resolve(inspector.cfg, headers))
    BY <1>4 DEF Request, IInv, ConnOK
  <2>2. DOMAIN Resolve(inspector.cfg, headers) = ToSet(inspector.cfg.identities)
    BY DEF Resolve
  <2> QED
    BY <2>1, <2>2, SetConnKeepsIInv DEF ConnStates
<1> QED
  BY <1>1, <1>2, <1>3, <1>4

LEMMA StutterKeepsIInv == IInv /\ UNCHANGED vars => IInv'
<1> SUFFICES ASSUME IInv, UNCHANGED vars PROVE IInv'
  OBVIOUS
<1> USE DEF vars
<1>1. MainOK' /\ InspectorOK'
  BY DEF IInv, MainOK, InspectorOK, Built, Running
<1>2. DOMAIN conn' = Conns /\ \A c \in Conns : ConnOK(c)'
  BY DEF IInv, ConnOK, Running
<1> QED
  BY <1>1, <1>2 DEF IInv

LEMMA NextIInv == IInv /\ [Next]_vars => IInv'
<1> SUFFICES ASSUME IInv, [Next]_vars PROVE IInv'
  OBVIOUS
<1>1. CASE MainStep
  <2>1. CASE \E silent \in SUBSET Conns : Poll(silent)
    BY <2>1, PollKeepsIInv
  <2> QED
    BY <1>1, <2>1, ParseKeepsIInv, NewServerKeepsIInv, ServeKeepsIInv, WaitingKeepsIInv,
       TakeErrorKeepsIInv DEF MainStep
<1>2. CASE GiveUp \/ Signal
  BY <1>2, GiveUpKeepsIInv, SignalKeepsIInv
<1>3. CASE Listen \/ AcceptFails \/ ServerClosed \/ TimeOver
  BY <1>3, ServerKeepsIInv
<1>4. CASE \E c \in Conns : \/ Connect(c) \/ HangUp(c)
                            \/ \E state \in {"idle", "closed"} : Answer(c, state)
                            \/ \E headers \in HeaderSets : Request(c, headers)
  BY <1>4, ConnectionsKeepIInv
<1>5. CASE UNCHANGED vars
  BY <1>5, StutterKeepsIInv
<1> QED
  BY <1>1, <1>2, <1>3, <1>4, <1>5 DEF Next

LEMMA Invariance == Spec => []IInv
<1>1. Init => IInv
  BY InitIInv
<1>2. IInv /\ [Next]_vars => IInv'
  BY NextIInv
<1> QED
  BY <1>1, <1>2, PTL DEF Spec

------------------------------------------------------------------------------
(* What it implies.                                                         *)

LEMMA IInvTypeOK == IInv => TypeOK
<1> SUFFICES ASSUME IInv PROVE TypeOK
  OBVIOUS
<1>1. ASSUME inspector # None
      PROVE  /\ inspector.cfg.limits \in [Limits -> Nat \ {0}]
             /\ DOMAIN inspector.caches \subseteq {"sample_conflicts", "cross_path"}
  <2>1. inspector = New(normalize(flags)) /\ flags \in CommandLine
    BY <1>1, CommandsAssumption DEF IInv, InspectorOK, MainOK, Built
  <2>2. inspector.cfg = normalize(flags)
        /\ DOMAIN inspector.caches = CachesOf(normalize(flags))
    BY <2>1 DEF New
  <2> QED
    BY <2>1, <2>2, Normalized DEF CachesOf
<1>2. \A c \in Conns :
        /\ conn[c].state \in ConnStates
        /\ conn[c].state # "active" => conn[c].identity = NoIdentity
        /\ conn[c].state = "active" => DOMAIN conn[c].identity = ToSet(inspector.cfg.identities)
  BY DEF IInv, ConnOK
<1> QED
  BY <1>1, <1>2 DEF IInv, MainOK, TypeOK, Pcs

LEMMA IInvCaches == IInv => CacheForEveryLookup
<1> SUFFICES ASSUME IInv, NEW c \in Conns, conn[c].state = "active",
                    NEW cache \in LooksInto(inspector.cfg, conn[c].identity)
             PROVE  /\ cache \in DOMAIN inspector.caches
                    /\ \A idx \in DOMAIN inspector.caches[cache] : inspector.caches[cache][idx] > 0
  BY DEF CacheForEveryLookup
<1> DEFINE cfg == normalize(flags)
<1>1. inspector = New(cfg) /\ flags \in CommandLine
  BY CommandsAssumption DEF IInv, InspectorOK, MainOK, ConnOK, Built
<1>2. /\ inspector.cfg = cfg /\ cfg.cacheSize \in Int
      /\ inspector.caches = [d \in CachesOf(cfg) |-> ShardSizes(cfg.cacheSize)]
  BY <1>1, Normalized DEF New
<1>3. DOMAIN conn[c].identity = ToSet(cfg.identities)
  BY <1>2 DEF IInv, ConnOK
<1> HIDE DEF cfg
<1>4. cache \in CachesOf(cfg)
  <2>1. ASSUME GetIdentity(conn[c].identity, "input_path") # unknownIdentity
        PROVE  Has(cfg.identities, "input_path")
    BY <1>3, <2>1 DEF GetIdentity, Has, ToSet
  <2> QED
    BY <1>2, <2>1 DEF LooksInto, CachesOf
<1> QED
  BY <1>2, <1>4, ShardsHoldEntries

LEMMA IInvLabels == IInv => LabelsDistinct
<1> SUFFICES ASSUME IInv, inspector # None
             PROVE  IsInjective(RowLabels(inspector.cfg)) /\ IsInjective(LogKeys(inspector.cfg))
  BY DEF LabelsDistinct
<1>1. inspector = New(normalize(flags)) /\ Acceptable(normalize(flags)) /\ flags \in CommandLine
  BY CommandsAssumption DEF IInv, InspectorOK, MainOK, Built
<1>2. inspector.cfg = normalize(flags)
  BY <1>1 DEF New
<1> QED
  BY <1>1, <1>2, AcceptedLabelsAreDistinct

LEMMA IInvBudget == IInv => BudgetRespected
<1> SUFFICES ASSUME IInv, inspector # None PROVE BudgetRespected
  BY DEF BudgetRespected
<1> DEFINE cfg == normalize(flags)
           size == cacheSize(flags)
           D == CachesOf(cfg)
           n == Cardinality(D)
<1>1. inspector = New(cfg) /\ flags \in CommandLine
  BY CommandsAssumption DEF IInv, InspectorOK, MainOK, Built
<1>2. cfg.cacheSize = size /\ size \in Int
  BY <1>1, ActiveCaches, Normalized
<1>3. /\ DOMAIN inspector.caches = D
      /\ \A c \in D : inspector.caches[c] = ShardSizes(size) /\ inspector.capacity[c] = size
  BY <1>1, <1>2 DEF New
<1>4. IsFiniteSet(D) /\ n = activeStatefulDetectors(flags) /\ n \in {0, 1, 2}
  BY <1>1, ActiveCaches
<1>5. flags.cacheMemoryBytes \in Int /\ flags.cacheSize \in Int
  BY <1>1 DEF CommandLine
<1>6. ASSUME flags.cacheMemoryBytes > 0
      PROVE  size = cacheSizeFromMemoryBudget(flags.cacheMemoryBytes, n)
  <2>1. ~(flags.cacheMemoryBytes <= 0)
    BY <1>5, <1>6
  <2>2. size = cacheSizeFromMemoryBudget(flags.cacheMemoryBytes, activeStatefulDetectors(flags))
    BY <1>6, <2>1 DEF cacheSize
  <2> HIDE DEF size, n
  <2> QED
    BY <1>4, <2>2
<1>7. ~(flags.cacheMemoryBytes > 0) => size \in Nat \ {0}
  BY <1>5, SizesAssumption DEF cacheSize
<1> HIDE DEF cfg, size, D, n
<1>8. n = 0 => D = {}
  BY <1>4, FS_EmptySet DEF n
<1>9. ASSUME D # {} PROVE size \in Nat \ {0}
  <2>1. CASE flags.cacheMemoryBytes > 0
    BY <1>4, <1>5, <1>6, <1>8, <1>9, <2>1, SizeFromBudget
  <2> QED
    BY <1>7, <2>1
<1>10. \A c \in D : Entries(inspector.caches[c]) = size
  BY <1>3, <1>9, ShardsHoldAll
<1>11. ASSUME flags.cacheMemoryBytes > 0, D # {}
       PROVE  LET share == n * BytesPerEntry
                  entries == SumFunction([c \in D |-> Entries(inspector.caches[c])])
                  left == flags.cacheMemoryBytes - entries * BytesPerEntry
              IN \/ 0 <= left /\ left < share
                 \/ flags.cacheMemoryBytes < share /\ \A c \in D : inspector.capacity[c] = 1
                 \/ left >= share /\ \A c \in D : inspector.capacity[c] = MaxInt
  <2> DEFINE g == [c \in D |-> Entries(inspector.caches[c])]
  <2>1. SumFunction(g) = n * size
    <3>1. \A c \in D : g[c] = size
      BY <1>10
    <3>2. SumFunction(g) = SumFunctionOnSet(g, D)
      BY SumOfWhole
    <3> HIDE DEF g
    <3>3. n \in {1, 2} /\ size \in Nat
      BY <1>4, <1>8, <1>9, <1>11
    <3> QED
      BY <1>4, <3>1, <3>2, <3>3, SumOfConstant DEF n
  <2>2. flags.cacheMemoryBytes \in Nat \ {0} /\ n \in {1, 2}
    BY <1>4, <1>5, <1>8, <1>11
  <2>3. size = cacheSizeFromMemoryBudget(flags.cacheMemoryBytes, n)
    BY <1>6, <1>11
  <2>4. LET share == n * BytesPerEntry
            left == flags.cacheMemoryBytes - (n * size) * BytesPerEntry
        IN \/ 0 <= left /\ left < share
           \/ flags.cacheMemoryBytes < share /\ size = 1
           \/ left >= share /\ size = MaxInt
    BY <2>2, <2>3, SizeFromBudget
  <2> QED
    BY <1>3, <2>1, <2>4
<1> QED
  BY <1>3, <1>10, <1>11 DEF BudgetRespected, n

\* Type correctness of the process, for every set of command lines and of connections: the
\* limits of whatever New accepts are positive, and a connection has the identity of a
\* request just while a handler is at it (main.go over config.go and server.go).
THEOREM TypeCorrect == Spec => []TypeOK
<1>1. IInv => TypeOK
  BY IInvTypeOK
<1> QED
  BY <1>1, Invariance, PTL

\* Whatever the command line, a handler finds the caches its request is looked up in, and
\* every shard of them holds an entry: normalize, New and the detector of paths agree.
THEOREM EveryLookupHasItsCache == Spec => []CacheForEveryLookup
<1>1. IInv => CacheForEveryLookup
  BY IInvCaches
<1> QED
  BY <1>1, Invariance, PTL

\* Whatever the command line, the shards of all the caches together hold what fits the memory
\* budget and no less than that, up to one entry each (cacheSizeFromMemoryBudget of config.go
\* against newStateCache of cache.go).
THEOREM BudgetIsRespected == Spec => []BudgetRespected
<1>1. IInv => BudgetRespected
  BY IInvBudget
<1> QED
  BY <1>1, Invariance, PTL

\* No configuration that passes normalize and the registry gives one label to a row of the top
\* series twice, or writes an attribute into the record of a finding twice.
THEOREM LabelsAreDistinct == Spec => []LabelsDistinct
<1>1. IInv => LabelsDistinct
  BY IInvLabels
<1> QED
  BY <1>1, Invariance, PTL

\* For every number of connections, the process exits with 0 only when no handler is left: the
\* server's own result cannot be taken for an end once a signal is, and Shutdown returns
\* without an error only when it finds nobody busy.
THEOREM ZeroExitCutsNobody == Spec => []ExitZeroCutsNobody
<1>1. IInv => ExitZeroCutsNobody
  BY DEF IInv, ConnOK, ExitZeroCutsNobody
<1> QED
  BY <1>1, Invariance, PTL

------------------------------------------------------------------------------
(* The load generator: what its workers are at, and the accounts.           *)

\* What a worker that counts has still to count.
Lists ==
  { << "requests", "successes", "status2xx", "latencies" >>,
    << "successes", "status2xx", "latencies" >>, << "status2xx", "latencies" >>,
    << "requests", "statusOther", "latencies" >>, << "statusOther", "latencies" >>,
    << "requests", "unlisted", "latencies" >>, << "unlisted", "latencies" >>,
    << "requests", "transportErrors", "latencies" >>, << "transportErrors", "latencies" >>,
    << "latencies" >> }

OutcomeSteps == {"successes", "status2xx", "statusOther", "unlisted", "transportErrors"}

\* What is counted after a counter.
After(c) ==
  CASE c = "requests" -> {"successes", "statusOther", "unlisted", "transportErrors"}
    [] c = "successes" -> {"status2xx"}
    [] c \in {"status2xx", "statusOther", "unlisted", "transportErrors"} -> {"latencies"}
    [] OTHER -> {}

\* A list is counted from its head, to the latency.
Counted(l) ==
  /\ Head(l) \in Counters
  /\ Head(l) = "latencies" <=> Tail(l) = << >>
  /\ Tail(l) # << >> => Tail(l) \in Lists /\ Head(Tail(l)) \in After(Head(l))

LEMMA ListsAreCounted ==
  ASSUME NEW l \in Lists
  PROVE  l \in Seq(Counters) /\ l # << >> /\ Counted(l)
<1>1. l # << >>
  <2>1. \A a, b, c, d : /\ << a, b, c, d >> # << >> /\ << a, b, c >> # << >>
                        /\ << a, b >> # << >> /\ << a >> # << >>
    OBVIOUS
  <2> QED
    BY <2>1 DEF Lists
<1>2. ASSUME l = << "requests", "successes", "status2xx", "latencies" >>
      PROVE  l \in Seq(Counters) /\ Counted(l)
  <2>1. Head(l) = "requests" /\ Tail(l) = << "successes", "status2xx", "latencies" >> 
        /\ Head(Tail(l)) = "successes" /\ Tail(l) # << >>
    BY <1>2
  <2>2. Tail(l) \in Lists
    BY <2>1 DEF Lists
  <2>3. "requests" \in Counters /\ "successes" \in After("requests")
    BY DEF Counters, After
  <2>4. l \in Seq(Counters)
    BY <1>2 DEF Counters
  <2> QED
    BY <2>1, <2>2, <2>3, <2>4 DEF Counted
<1>3. ASSUME l = << "successes", "status2xx", "latencies" >>
      PROVE  l \in Seq(Counters) /\ Counted(l)
  <2>1. Head(l) = "successes" /\ Tail(l) = << "status2xx", "latencies" >> 
        /\ Head(Tail(l)) = "status2xx" /\ Tail(l) # << >>
    BY <1>3
  <2>2. Tail(l) \in Lists
    BY <2>1 DEF Lists
  <2>3. "successes" \in Counters /\ "status2xx" \in After("successes")
    BY DEF Counters, After
  <2>4. l \in Seq(Counters)
    BY <1>3 DEF Counters
  <2> QED
    BY <2>1, <2>2, <2>3, <2>4 DEF Counted
<1>4. ASSUME l = << "status2xx", "latencies" >>
      PROVE  l \in Seq(Counters) /\ Counted(l)
  <2>1. Head(l) = "status2xx" /\ Tail(l) = << "latencies" >> 
        /\ Head(Tail(l)) = "latencies" /\ Tail(l) # << >>
    BY <1>4
  <2>2. Tail(l) \in Lists
    BY <2>1 DEF Lists
  <2>3. "status2xx" \in Counters /\ "latencies" \in After("status2xx")
    BY DEF Counters, After
  <2>4. l \in Seq(Counters)
    BY <1>4 DEF Counters
  <2> QED
    BY <2>1, <2>2, <2>3, <2>4 DEF Counted
<1>5. ASSUME l = << "requests", "statusOther", "latencies" >>
      PROVE  l \in Seq(Counters) /\ Counted(l)
  <2>1. Head(l) = "requests" /\ Tail(l) = << "statusOther", "latencies" >> 
        /\ Head(Tail(l)) = "statusOther" /\ Tail(l) # << >>
    BY <1>5
  <2>2. Tail(l) \in Lists
    BY <2>1 DEF Lists
  <2>3. "requests" \in Counters /\ "statusOther" \in After("requests")
    BY DEF Counters, After
  <2>4. l \in Seq(Counters)
    BY <1>5 DEF Counters
  <2> QED
    BY <2>1, <2>2, <2>3, <2>4 DEF Counted
<1>6. ASSUME l = << "statusOther", "latencies" >>
      PROVE  l \in Seq(Counters) /\ Counted(l)
  <2>1. Head(l) = "statusOther" /\ Tail(l) = << "latencies" >> 
        /\ Head(Tail(l)) = "latencies" /\ Tail(l) # << >>
    BY <1>6
  <2>2. Tail(l) \in Lists
    BY <2>1 DEF Lists
  <2>3. "statusOther" \in Counters /\ "latencies" \in After("statusOther")
    BY DEF Counters, After
  <2>4. l \in Seq(Counters)
    BY <1>6 DEF Counters
  <2> QED
    BY <2>1, <2>2, <2>3, <2>4 DEF Counted
<1>7. ASSUME l = << "requests", "transportErrors", "latencies" >>
      PROVE  l \in Seq(Counters) /\ Counted(l)
  <2>1. Head(l) = "requests" /\ Tail(l) = << "transportErrors", "latencies" >> 
        /\ Head(Tail(l)) = "transportErrors" /\ Tail(l) # << >>
    BY <1>7
  <2>2. Tail(l) \in Lists
    BY <2>1 DEF Lists
  <2>3. "requests" \in Counters /\ "transportErrors" \in After("requests")
    BY DEF Counters, After
  <2>4. l \in Seq(Counters)
    BY <1>7 DEF Counters
  <2> QED
    BY <2>1, <2>2, <2>3, <2>4 DEF Counted
<1>8. ASSUME l = << "transportErrors", "latencies" >>
      PROVE  l \in Seq(Counters) /\ Counted(l)
  <2>1. Head(l) = "transportErrors" /\ Tail(l) = << "latencies" >> 
        /\ Head(Tail(l)) = "latencies" /\ Tail(l) # << >>
    BY <1>8
  <2>2. Tail(l) \in Lists
    BY <2>1 DEF Lists
  <2>3. "transportErrors" \in Counters /\ "latencies" \in After("transportErrors")
    BY DEF Counters, After
  <2>4. l \in Seq(Counters)
    BY <1>8 DEF Counters
  <2> QED
    BY <2>1, <2>2, <2>3, <2>4 DEF Counted
<1>9. ASSUME l = << "latencies" >>
      PROVE  l \in Seq(Counters) /\ Counted(l)
  <2>1. Head(l) = "latencies" /\ Tail(l) = << >>
    BY <1>9
  <2>2. l \in Seq(Counters)
    BY <1>9 DEF Counters
  <2> QED
    BY <2>1, <2>2 DEF Counted, Counters
<1>10. ASSUME l = << "requests", "unlisted", "latencies" >>
      PROVE  l \in Seq(Counters) /\ Counted(l)
  <2>1. Head(l) = "requests" /\ Tail(l) = << "unlisted", "latencies" >> 
        /\ Head(Tail(l)) = "unlisted" /\ Tail(l) # << >>
    BY <1>10
  <2>2. Tail(l) \in Lists
    BY <2>1 DEF Lists
  <2>3. "requests" \in Counters /\ "unlisted" \in After("requests")
    BY DEF Counters, After
  <2>4. l \in Seq(Counters)
    BY <1>10 DEF Counters
  <2> QED
    BY <2>1, <2>2, <2>3, <2>4 DEF Counted
<1>11. ASSUME l = << "unlisted", "latencies" >>
      PROVE  l \in Seq(Counters) /\ Counted(l)
  <2>1. Head(l) = "unlisted" /\ Tail(l) = << "latencies" >> 
        /\ Head(Tail(l)) = "latencies" /\ Tail(l) # << >>
    BY <1>11
  <2>2. Tail(l) \in Lists
    BY <2>1 DEF Lists
  <2>3. "unlisted" \in Counters /\ "latencies" \in After("unlisted")
    BY DEF Counters, After
  <2>4. l \in Seq(Counters)
    BY <1>11 DEF Counters
  <2> QED
    BY <2>1, <2>2, <2>3, <2>4 DEF Counted
<1> QED
  BY <1>1, <1>2, <1>3, <1>4, <1>5, <1>6, <1>7, <1>8, <1>9, <1>10, <1>11 DEF Lists

\* What a worker is at: a step, or the counter it adds to next.
Doing(w) == IF worker[w].pc = "count" THEN Head(worker[w].count) ELSE worker[w].pc

At(steps) == {w \in Workers : Doing(w) \in steps}

Activities == {"pace", "generate", "send", "gone"}

CountingOK(r) == IF r.pc = "count" THEN r.count \in Lists ELSE r.pc \in Activities /\ r.count = << >>

GeneratorTypes ==
  /\ done \in BOOLEAN /\ requestSeq \in Nat /\ now \in 0..MaxTime /\ cut \in Nat
  /\ stats \in [Counters -> Nat]
  /\ worker = [w \in Workers |-> worker[w]] /\ DOMAIN worker = Workers
  /\ \A w \in Workers : worker[w] = [pc |-> worker[w].pc, count |-> worker[w].count]
                        /\ CountingOK(worker[w])
  /\ sent \subseteq [seq : Nat, nowMs : 0..MaxTime]

Outcomes(s) == s["status2xx"] + s["statusOther"] + s["unlisted"] + s["transportErrors"]

\* The accounts: what the counters lack is what workers have still to count.
Accounts ==
  /\ requestSeq = stats["requests"] + Cardinality(At({"send", "requests"})) + cut
  /\ stats["requests"] = Outcomes(stats) + Cardinality(At(OutcomeSteps))
  /\ stats["requests"] = stats["latencies"] + Cardinality(At(OutcomeSteps \cup {"latencies"}))
  /\ stats["successes"] = stats["status2xx"] + Cardinality(At({"status2xx"}))
  /\ cut <= Cardinality(At({"gone"}))
  /\ requestSeq + Cardinality(At({"generate"})) <= MaxRequests + Cardinality(Workers)

LEMMA AtFinite ==
  ASSUME IsFiniteSet(Workers), NEW steps
  PROVE  /\ IsFiniteSet(At(steps)) /\ Cardinality(At(steps)) \in Nat
         /\ Cardinality(At(steps)) <= Cardinality(Workers) /\ Cardinality(Workers) \in Nat
<1>1. At(steps) \subseteq Workers
  BY DEF At
<1> QED
  BY <1>1, FS_Subset, FS_CardinalityType

\* A worker goes from one thing to another, and the others stay where they are.
LEMMA OneWorkerMoves ==
  ASSUME IsFiniteSet(Workers), DOMAIN worker = Workers, NEW w \in Workers, NEW r,
         worker' = [worker EXCEPT ![w] = r]
  PROVE  /\ Doing(w)' = IF r.pc = "count" THEN Head(r.count) ELSE r.pc
         /\ DOMAIN worker' = Workers
         /\ \A v \in Workers : worker'[v] = IF v = w THEN r ELSE worker[v]
         /\ \A steps : Cardinality(At(steps)') = Cardinality(At(steps))
                          - (IF Doing(w) \in steps THEN 1 ELSE 0)
                          + (IF Doing(w)' \in steps THEN 1 ELSE 0)
<1>1. DOMAIN worker' = Workers /\ \A v \in Workers : worker'[v] = IF v = w THEN r ELSE worker[v]
  OBVIOUS
<1>2. Doing(w)' = IF r.pc = "count" THEN Head(r.count) ELSE r.pc
  BY <1>1 DEF Doing
<1>3. \A v \in Workers \ {w} : Doing(v)' = Doing(v)
  BY <1>1 DEF Doing
<1>4. ASSUME NEW steps
      PROVE  Cardinality(At(steps)') = Cardinality(At(steps))
               - (IF Doing(w) \in steps THEN 1 ELSE 0) + (IF Doing(w)' \in steps THEN 1 ELSE 0)
  <2> DEFINE A == At(steps)
             B == {v \in Workers : Doing(v)' \in steps}
  <2>1. A \ {w} = B \ {w}
    BY <1>3 DEF At
  <2>2. (w \in A <=> Doing(w) \in steps) /\ (w \in B <=> Doing(w)' \in steps)
    BY DEF At
  <2>3. IsFiniteSet(A)
    BY AtFinite
  <2>4. At(steps)' = B
    BY DEF At
  <2> HIDE DEF A, B
  <2>5. Cardinality(B) = Cardinality(A) - (IF w \in A THEN 1 ELSE 0) + (IF w \in B THEN 1 ELSE 0)
    BY <2>1, <2>3, CardinalityOfChange
  <2> QED
    BY <2>2, <2>4, <2>5 DEF A
<1> QED
  BY <1>1, <1>2, <1>4

\* How many more than before are at each of the steps the accounts are about.
Shift(sending, outcome, late, status, gone, generating) ==
  /\ Cardinality(At({"send", "requests"})') = Cardinality(At({"send", "requests"})) + sending
  /\ Cardinality(At(OutcomeSteps)') = Cardinality(At(OutcomeSteps)) + outcome
  /\ Cardinality(At(OutcomeSteps \cup {"latencies"})')
       = Cardinality(At(OutcomeSteps \cup {"latencies"})) + late
  /\ Cardinality(At({"status2xx"})') = Cardinality(At({"status2xx"})) + status
  /\ Cardinality(At({"gone"})') = Cardinality(At({"gone"})) + gone
  /\ Cardinality(At({"generate"})') = Cardinality(At({"generate"})) + generating

Entering(a, b, steps) == (IF b \in steps THEN 1 ELSE 0) - (IF a \in steps THEN 1 ELSE 0)

ShiftFrom(a, b) ==
  Shift(Entering(a, b, {"send", "requests"}), Entering(a, b, OutcomeSteps),
        Entering(a, b, OutcomeSteps \cup {"latencies"}), Entering(a, b, {"status2xx"}),
        Entering(a, b, {"gone"}), Entering(a, b, {"generate"}))

LEMMA ShiftOf ==
  ASSUME IsFiniteSet(Workers), DOMAIN worker = Workers, NEW w \in Workers, NEW r,
         worker' = [worker EXCEPT ![w] = r]
  PROVE  ShiftFrom(Doing(w), IF r.pc = "count" THEN Head(r.count) ELSE r.pc)
<1> DEFINE a == Doing(w)
           b == IF r.pc = "count" THEN Head(r.count) ELSE r.pc
<1>1. ASSUME NEW steps
      PROVE  Cardinality(At(steps)') = Cardinality(At(steps)) + Entering(a, b, steps)
  <2>1. /\ Doing(w)' = b
        /\ Cardinality(At(steps)') = Cardinality(At(steps))
             - (IF Doing(w) \in steps THEN 1 ELSE 0) + (IF Doing(w)' \in steps THEN 1 ELSE 0)
    BY OneWorkerMoves
  <2> HIDE DEF b
  <2>2. Cardinality(At(steps)) \in Nat
    BY AtFinite
  <2> QED
    BY <2>1, <2>2 DEF Entering
<1> HIDE DEF a, b
<1>2. ShiftFrom(a, b)
  BY <1>1 DEF Shift, ShiftFrom
<1> QED
  BY <1>2 DEF a, b

\* What a step of a worker does to the accounts it moves between.
LEMMA AccountsShift ==
  ASSUME IsFiniteSet(Workers), MaxRequests \in Nat, GeneratorTypes, Accounts,
         NEW a \in Int, NEW b \in Int, NEW c \in Int, NEW d \in Int, NEW e \in Int, NEW f \in Int,
         Shift(a, b, c, d, e, f),
         requestSeq' \in Nat, cut' \in Nat, stats' \in [Counters -> Nat],
         requestSeq' - requestSeq = stats'["requests"] - stats["requests"] + a + (cut' - cut),
         stats'["requests"] - stats["requests"] = Outcomes(stats') - Outcomes(stats) + b,
         stats'["requests"] - stats["requests"] = stats'["latencies"] - stats["latencies"] + c,
         stats'["successes"] - stats["successes"] = stats'["status2xx"] - stats["status2xx"] + d,
         cut' - cut <= e,
         requestSeq' - requestSeq + f <= 0 \/ requestSeq' < MaxRequests
  PROVE  Accounts'
<1>1. \A t \in {"requests", "successes", "transportErrors", "latencies", "status2xx", "statusOther",
                 "unlisted"} : stats[t] \in Nat /\ stats'[t] \in Nat
  BY DEF GeneratorTypes, Counters
<1>2. requestSeq \in Nat /\ cut \in Nat
  BY DEF GeneratorTypes
<1>3. ASSUME NEW steps
      PROVE  Cardinality(At(steps)) \in Nat /\ Cardinality(At(steps)') \in Nat
             /\ Cardinality(At(steps)') <= Cardinality(Workers) /\ Cardinality(Workers) \in Nat
  <2>1. At(steps)' \subseteq Workers
    BY DEF At
  <2>2. Cardinality(At(steps)') <= Cardinality(Workers) /\ Cardinality(At(steps)') \in Nat
    BY <2>1, FS_Subset, FS_CardinalityType
  <2> QED
    BY <2>2, AtFinite
<1>4. requestSeq' = stats'["requests"] + Cardinality(At({"send", "requests"})') + cut'
  <2> DEFINE A == Cardinality(At({"send", "requests"}))
             B == Cardinality(At({"send", "requests"})')
  <2>1. A \in Nat /\ B \in Nat
    BY <1>3
  <2>2. requestSeq = stats["requests"] + A + cut /\ B = A + a
    BY DEF Accounts, Shift
  <2>3. stats["requests"] \in Nat /\ stats'["requests"] \in Nat
    BY <1>1
  <2> HIDE DEF A, B
  <2>4. requestSeq' = stats'["requests"] + B + cut'
    BY <1>2, <2>1, <2>2, <2>3
  <2> QED
    BY <2>4 DEF B
<1>5. stats'["requests"] = Outcomes(stats') + Cardinality(At(OutcomeSteps)')
  <2> DEFINE A == Cardinality(At(OutcomeSteps))
             B == Cardinality(At(OutcomeSteps)')
  <2>1. A \in Nat /\ B \in Nat
    BY <1>3
  <2>2. stats["requests"] = Outcomes(stats) + A /\ B = A + b
    BY DEF Accounts, Shift
  <2>3. stats["requests"] \in Nat /\ stats'["requests"] \in Nat
        /\ Outcomes(stats) \in Nat /\ Outcomes(stats') \in Nat
    BY <1>1 DEF Outcomes
  <2> HIDE DEF A, B
  <2>4. stats'["requests"] = Outcomes(stats') + B
    BY <2>1, <2>2, <2>3
  <2> QED
    BY <2>4 DEF B
<1>6. stats'["requests"] = stats'["latencies"] + Cardinality(At(OutcomeSteps \cup {"latencies"})')
  <2> DEFINE A == Cardinality(At(OutcomeSteps \cup {"latencies"}))
             B == Cardinality(At(OutcomeSteps \cup {"latencies"})')
  <2>1. A \in Nat /\ B \in Nat
    BY <1>3
  <2>2. stats["requests"] = stats["latencies"] + A /\ B = A + c
    BY DEF Accounts, Shift
  <2>3. stats["requests"] \in Nat /\ stats'["requests"] \in Nat
        /\ stats["latencies"] \in Nat /\ stats'["latencies"] \in Nat
    BY <1>1
  <2> HIDE DEF A, B
  <2>4. c \in Int /\ stats'["requests"] - stats["requests"] = stats'["latencies"] - stats["latencies"] + c
    OBVIOUS
  <2>5. stats'["requests"] = stats'["latencies"] + B
    BY ONLY <2>1, <2>2, <2>3, <2>4
  <2> QED
    BY <2>5 DEF B
<1>7. stats'["successes"] = stats'["status2xx"] + Cardinality(At({"status2xx"})')
  <2> DEFINE A == Cardinality(At({"status2xx"}))
             B == Cardinality(At({"status2xx"})')
  <2>1. A \in Nat /\ B \in Nat
    BY <1>3
  <2>2. stats["successes"] = stats["status2xx"] + A /\ B = A + d
    BY DEF Accounts, Shift
  <2>3. stats["successes"] \in Nat /\ stats'["successes"] \in Nat
        /\ stats["status2xx"] \in Nat /\ stats'["status2xx"] \in Nat
    BY <1>1
  <2> HIDE DEF A, B
  <2>4. stats'["successes"] = stats'["status2xx"] + B
    BY <2>1, <2>2, <2>3
  <2> QED
    BY <2>4 DEF B
<1>8. cut' <= Cardinality(At({"gone"})')
  <2>1. /\ Cardinality(At({"gone"})) \in Nat
        /\ cut <= Cardinality(At({"gone"}))
        /\ Cardinality(At({"gone"})') = Cardinality(At({"gone"})) + e
    BY <1>3 DEF Accounts, Shift
  <2>2. PICK x \in Nat, x2 \in Nat, y \in Nat, y2 \in Nat :
          x = cut /\ x2 = cut' /\ y = Cardinality(At({"gone"})) /\ y2 = Cardinality(At({"gone"})')
    BY <1>2, <1>3
  <2>3. x <= y /\ y2 = y + e /\ x2 - x <= e
    BY <2>1, <2>2
  <2>4. x2 <= y2
    BY ONLY <2>3, x \in Nat, x2 \in Nat, y \in Nat, y2 \in Nat, e \in Int
  <2> QED
    BY <2>2, <2>4
<1>9. requestSeq' + Cardinality(At({"generate"})') <= MaxRequests + Cardinality(Workers)
  <2> DEFINE A == Cardinality(At({"generate"}))
             B == Cardinality(At({"generate"})')
             n == Cardinality(Workers)
  <2>1. A \in Nat /\ B \in Nat /\ B <= n /\ n \in Nat
    BY <1>3
  <2>2. requestSeq + A <= MaxRequests + n /\ B = A + f
    BY DEF Accounts, Shift
  <2> HIDE DEF A, B, n
  <2>3. PICK x \in Nat, x2 \in Nat, y \in Nat, y2 \in Nat, m \in Nat, l \in Nat :
          /\ x = requestSeq /\ x2 = requestSeq' /\ y = A /\ y2 = B
          /\ m = MaxRequests /\ l = n
    BY <1>2, <2>1
  <2>4. /\ x + y <= m + l /\ y2 = y + f /\ y2 <= l
        /\ x2 - x + f <= 0 \/ x2 < m
    BY <2>1, <2>2, <2>3
  <2>5. x2 + y2 <= m + l
    BY ONLY <2>4, x \in Nat, x2 \in Nat, y \in Nat, y2 \in Nat, m \in Nat, l \in Nat, f \in Int
  <2> QED
    BY <2>3, <2>5 DEF B, n
<1> QED
  BY <1>4, <1>5, <1>6, <1>7, <1>8, <1>9 DEF Accounts, Outcomes

LEMMA TypesMove ==
  ASSUME GeneratorTypes, NEW w \in Workers, NEW p, NEW l,
         worker' = [worker EXCEPT ![w] = [pc |-> p, count |-> l]],
         CountingOK([pc |-> p, count |-> l]),
         done' \in BOOLEAN, requestSeq' \in Nat, now' \in 0..MaxTime, cut' \in Nat,
         stats' \in [Counters -> Nat], sent' \subseteq [seq : Nat, nowMs : 0..MaxTime]
  PROVE  GeneratorTypes'
<1> DEFINE r == [pc |-> p, count |-> l]
<1>1. r = [pc |-> r.pc, count |-> r.count] /\ CountingOK(r)
  OBVIOUS
<1> HIDE DEF r
<1>2. worker' = [worker EXCEPT ![w] = r] /\ DOMAIN worker = Workers
  BY DEF GeneratorTypes, r
<1>3. DOMAIN worker' = Workers /\ \A v \in Workers : worker'[v] = IF v = w THEN r ELSE worker[v]
  BY <1>2
<1>4. \A v \in Workers : worker'[v] = [pc |-> worker'[v].pc, count |-> worker'[v].count]
                         /\ CountingOK(worker'[v])
  BY <1>1, <1>3 DEF GeneratorTypes
<1> QED
  BY <1>3, <1>4 DEF GeneratorTypes, CountingOK, Lists, Activities

\* A worker before it counts, and one that counts.
LEMMA WhatItIsAt ==
  ASSUME GeneratorTypes, NEW w \in Workers
  PROVE  /\ worker[w] = [pc |-> worker[w].pc, count |-> worker[w].count]
         /\ worker[w].pc # "count" => Doing(w) = worker[w].pc /\ worker[w].count = << >>
         /\ worker[w].pc = "count" => worker[w].count \in Lists /\ Doing(w) = Head(worker[w].count)
BY DEF GeneratorTypes, CountingOK, Doing

LEMMA StatsType ==
  ASSUME GeneratorTypes
  PROVE  /\ \A t \in Counters : stats[t] \in Nat
         /\ requestSeq \in Nat /\ cut \in Nat
         /\ stats["requests"] \in Nat /\ stats["latencies"] \in Nat /\ stats["successes"] \in Nat
         /\ stats["status2xx"] \in Nat /\ Outcomes(stats) \in Nat
BY DEF GeneratorTypes, Counters, Outcomes

LEMMA PaceKeeps ==
  ASSUME IsFiniteSet(Workers), MaxRequests \in Nat, GeneratorTypes, Accounts,
         NEW w \in Workers, Pace(w)
  PROVE  GeneratorTypes' /\ Accounts'
<1>1. PICK p \in {"gone", "generate"} :
        /\ worker[w] = [pc |-> "pace", count |-> << >>] /\ Doing(w) = "pace"
        /\ worker' = [worker EXCEPT ![w].pc = p]
        /\ UNCHANGED << done, requestSeq, now, stats, sent, cut >>
        /\ p = "gone" \/ requestSeq < MaxRequests
  <2>1. /\ worker[w] = [pc |-> "pace", count |-> << >>] /\ Doing(w) = "pace"
        /\ worker' = [worker EXCEPT ![w].pc = IF done THEN "gone" ELSE "generate"]
        /\ UNCHANGED << done, requestSeq, now, stats, sent, cut >>
        /\ done \/ requestSeq < MaxRequests
    BY WhatItIsAt DEF Pace
  <2>2. CASE done
    BY <2>1, <2>2
  <2>3. CASE ~done
    BY <2>1, <2>3
  <2> QED
    BY <2>2, <2>3
<1> DEFINE r == [pc |-> p, count |-> << >>]
<1>2. worker' = [worker EXCEPT ![w] = r] /\ DOMAIN worker = Workers
  <2>1. [worker[w] EXCEPT !.pc = p] = r
    BY <1>1
  <2> QED
    BY <1>1, <2>1 DEF GeneratorTypes
<1>3. CountingOK(r)
  BY DEF CountingOK, Activities
<1>4. GeneratorTypes'
  BY <1>1, <1>2, <1>3, TypesMove DEF GeneratorTypes
<1>5. ShiftFrom("pace", p)
  <2>1. p = IF r.pc = "count" THEN Head(r.count) ELSE r.pc
    OBVIOUS
  <2> HIDE DEF r
  <2>2. ShiftFrom(Doing(w), IF r.pc = "count" THEN Head(r.count) ELSE r.pc)
    BY <1>2, ShiftOf
  <2> QED
    BY <1>1, <2>1, <2>2
<1>6. /\ requestSeq' - requestSeq = stats'["requests"] - stats["requests"] + 0 + (cut' - cut)
      /\ stats'["requests"] - stats["requests"] = Outcomes(stats') - Outcomes(stats) + 0
      /\ stats'["requests"] - stats["requests"] = stats'["latencies"] - stats["latencies"] + 0
      /\ stats'["successes"] - stats["successes"] = stats'["status2xx"] - stats["status2xx"] + 0
      /\ cut' - cut <= 0 /\ cut' - cut <= 1 /\ requestSeq' - requestSeq + 0 <= 0
  BY <1>1, StatsType
<1>7. requestSeq' \in Nat /\ cut' \in Nat /\ stats' \in [Counters -> Nat]
  BY <1>1 DEF GeneratorTypes
<1>8. CASE p = "gone"
  <2>1. Shift(0, 0, 0, 0, 1, 0)
    BY <1>5, <1>8 DEF ShiftFrom, Entering, OutcomeSteps
  <2> QED
    BY <1>4, <1>6, <1>7, <2>1, AccountsShift
<1>9. CASE p = "generate"
  <2>1. Shift(0, 0, 0, 0, 0, 1)
    BY <1>5, <1>9 DEF ShiftFrom, Entering, OutcomeSteps
  <2>2. requestSeq' < MaxRequests
    BY <1>1, <1>9
  <2> QED
    BY <1>4, <1>6, <1>7, <2>1, <2>2, AccountsShift
<1> QED
  BY <1>8, <1>9

LEMMA GenerateKeeps ==
  ASSUME IsFiniteSet(Workers), MaxRequests \in Nat, GeneratorTypes, Accounts,
         NEW w \in Workers, NEW t \in 0..MaxTime, Generate(w, t)
  PROVE  GeneratorTypes' /\ Accounts'
<1> DEFINE r == [pc |-> "send", count |-> << >>]
<1>1. /\ worker[w] = [pc |-> "generate", count |-> << >>] /\ Doing(w) = "generate"
      /\ worker' = [worker EXCEPT ![w].pc = "send"]
      /\ sent' = sent \cup {[seq |-> requestSeq, nowMs |-> t]}
      /\ now' = t /\ requestSeq' = requestSeq + 1
      /\ UNCHANGED << done, stats, cut >>
  BY WhatItIsAt DEF Generate
<1>2. worker' = [worker EXCEPT ![w] = r] /\ DOMAIN worker = Workers
  <2>1. [worker[w] EXCEPT !.pc = "send"] = r
    BY <1>1
  <2> QED
    BY <1>1, <2>1 DEF GeneratorTypes
<1>3. CountingOK(r)
  BY DEF CountingOK, Activities
<1>4. GeneratorTypes'
  <2>1. sent' \subseteq [seq : Nat, nowMs : 0..MaxTime]
    BY <1>1, StatsType DEF GeneratorTypes
  <2>2. requestSeq' \in Nat
    BY <1>1, StatsType
  <2> QED
    BY <1>1, <1>2, <1>3, <2>1, <2>2, TypesMove DEF GeneratorTypes
<1>5. ShiftFrom("generate", "send")
  <2>1. "send" = IF r.pc = "count" THEN Head(r.count) ELSE r.pc
    OBVIOUS
  <2> HIDE DEF r
  <2>2. ShiftFrom(Doing(w), IF r.pc = "count" THEN Head(r.count) ELSE r.pc)
    BY <1>2, ShiftOf
  <2> QED
    BY <1>1, <2>1, <2>2
<1>6. Shift(1, 0, 0, 0, 0, -1)
  BY <1>5 DEF ShiftFrom, Entering, OutcomeSteps
<1>7. /\ requestSeq' - requestSeq = stats'["requests"] - stats["requests"] + 1 + (cut' - cut)
      /\ stats'["requests"] - stats["requests"] = Outcomes(stats') - Outcomes(stats) + 0
      /\ stats'["requests"] - stats["requests"] = stats'["latencies"] - stats["latencies"] + 0
      /\ stats'["successes"] - stats["successes"] = stats'["status2xx"] - stats["status2xx"] + 0
      /\ cut' - cut <= 0 /\ requestSeq' - requestSeq + (-1) <= 0
  BY <1>1, StatsType
<1>8. requestSeq' \in Nat /\ cut' \in Nat /\ stats' \in [Counters -> Nat]
  BY <1>1, StatsType DEF GeneratorTypes
<1>9. -1 \in Int
  OBVIOUS
<1> QED
  BY <1>4, <1>6, <1>7, <1>8, <1>9, AccountsShift

\* What a worker does with its request: it has something to count, or the context is done.
LEMMA SendKeeps ==
  ASSUME IsFiniteSet(Workers), MaxRequests \in Nat, GeneratorTypes, Accounts,
         NEW w \in Workers, Failed(w) \/ \E status \in Statuses : Answered(w, status)
  PROVE  GeneratorTypes' /\ Accounts'
<1>1. PICK p \in {"gone", "count"}, l \in Lists \cup {<< >>} :
        /\ Doing(w) = "send"
        /\ worker' = [worker EXCEPT ![w] = [pc |-> p, count |-> l]]
        /\ UNCHANGED << done, requestSeq, now, stats, sent >>
        /\ \/ p = "gone" /\ l = << >> /\ cut' = cut + 1
           \/ p = "count" /\ l \in Lists /\ Head(l) = "requests" /\ cut' = cut
  <2>1. ASSUME NEW status \in Statuses, Answered(w, status)
        PROVE  \E l \in Lists :
                 /\ Head(l) = "requests" /\ cut' = cut /\ worker[w].pc = "send"
                 /\ worker' = [worker EXCEPT ![w] = [pc |-> "count", count |-> l]]
                 /\ UNCHANGED << done, requestSeq, now, stats, sent >>
    <3> DEFINE good == << "requests", "successes", "status2xx", "latencies" >>
               other == << "requests", "statusOther", "latencies" >>
               beyond == << "requests", "unlisted", "latencies" >>
    <3>1. good \in Lists /\ other \in Lists /\ beyond \in Lists
      BY DEF Lists
    <3>2. Head(good) = "requests" /\ Head(other) = "requests" /\ Head(beyond) = "requests"
      OBVIOUS
    <3>3. PICK l \in {good, other, beyond} :
            /\ worker' = [worker EXCEPT ![w] = [pc |-> "count", count |-> l]]
            /\ UNCHANGED << done, requestSeq, now, stats, sent, cut >> /\ worker[w].pc = "send"
      <4>1. CASE status = "2xx"
        BY <2>1, <4>1 DEF Answered
      <4>2. CASE status = "other"
        BY <2>1, <4>2 DEF Answered
      <4>3. CASE status = "unlisted"
        BY <2>1, <4>3 DEF Answered
      <4> QED
        BY <4>1, <4>2, <4>3 DEF Statuses
    <3> HIDE DEF good, other, beyond
    <3> QED
      BY <3>1, <3>2, <3>3
  <2>2. ASSUME Failed(w), ~done
        PROVE  \E l \in Lists :
                 /\ Head(l) = "requests" /\ cut' = cut /\ worker[w].pc = "send"
                 /\ worker' = [worker EXCEPT ![w] = [pc |-> "count", count |-> l]]
                 /\ UNCHANGED << done, requestSeq, now, stats, sent >>
    <3> DEFINE failed == << "requests", "transportErrors", "latencies" >>
    <3>1. failed \in Lists /\ Head(failed) = "requests"
      BY DEF Lists
    <3>2. /\ worker' = [worker EXCEPT ![w] = [pc |-> "count", count |-> failed]]
          /\ UNCHANGED << done, requestSeq, now, stats, sent, cut >> /\ worker[w].pc = "send"
      BY <2>2 DEF Failed
    <3> HIDE DEF failed
    <3> QED
      BY <3>1, <3>2
  <2>3. ASSUME Failed(w), done
        PROVE  /\ worker' = [worker EXCEPT ![w] = [pc |-> "gone", count |-> << >>]]
               /\ cut' = cut + 1 /\ worker[w].pc = "send"
               /\ UNCHANGED << done, requestSeq, now, stats, sent >>
    BY <2>3 DEF Failed
  <2>4. worker[w].pc = "send" => Doing(w) = "send"
    BY WhatItIsAt
  <2>5. CASE Failed(w) /\ done
    BY <2>3, <2>4, <2>5
  <2>6. CASE Failed(w) /\ ~done
    BY <2>2, <2>4, <2>6
  <2>7. CASE \E status \in Statuses : Answered(w, status)
    BY <2>1, <2>4, <2>7
  <2> QED
    BY <2>5, <2>6, <2>7
<1> DEFINE r == [pc |-> p, count |-> l]
<1>2. CountingOK(r)
  BY <1>1 DEF CountingOK, Activities
<1>3. GeneratorTypes'
  <2>1. cut' \in Nat /\ requestSeq' \in Nat
    BY <1>1, StatsType
  <2> QED
    BY <1>1, <1>2, <2>1, TypesMove DEF GeneratorTypes
<1>4. ShiftFrom("send", IF p = "count" THEN Head(l) ELSE p)
  <2>1. DOMAIN worker = Workers /\ worker' = [worker EXCEPT ![w] = r]
    BY <1>1 DEF GeneratorTypes
  <2>2. r.pc = p /\ r.count = l
    OBVIOUS
  <2> HIDE DEF r
  <2>3. ShiftFrom(Doing(w), IF r.pc = "count" THEN Head(r.count) ELSE r.pc)
    BY <2>1, ShiftOf
  <2> QED
    BY <1>1, <2>2, <2>3
<1>5. /\ stats'["requests"] - stats["requests"] = Outcomes(stats') - Outcomes(stats) + 0
      /\ stats'["requests"] - stats["requests"] = stats'["latencies"] - stats["latencies"] + 0
      /\ stats'["successes"] - stats["successes"] = stats'["status2xx"] - stats["status2xx"] + 0
      /\ requestSeq' - requestSeq + 0 <= 0
  BY <1>1, StatsType
<1>6. requestSeq' \in Nat /\ cut' \in Nat /\ stats' \in [Counters -> Nat] /\ -1 \in Int
  BY <1>1, StatsType DEF GeneratorTypes
<1>7. CASE p = "gone"
  <2>1. Shift(-1, 0, 0, 0, 1, 0)
    BY <1>4, <1>7 DEF ShiftFrom, Entering, OutcomeSteps
  <2>2. /\ requestSeq' - requestSeq = stats'["requests"] - stats["requests"] + (-1) + (cut' - cut)
        /\ cut' - cut <= 1
    BY <1>1, <1>7, StatsType
  <2> QED
    BY <1>3, <1>5, <1>6, <2>1, <2>2, AccountsShift
<1>8. CASE p = "count"
  <2>1. Head(l) = "requests" /\ cut' = cut
    BY <1>1, <1>8
  <2>2. Shift(0, 0, 0, 0, 0, 0)
    BY <1>4, <1>8, <2>1 DEF ShiftFrom, Entering, OutcomeSteps
  <2>3. /\ requestSeq' - requestSeq = stats'["requests"] - stats["requests"] + 0 + (cut' - cut)
        /\ cut' - cut <= 0
    BY <1>1, <2>1, StatsType
  <2> QED
    BY <1>3, <1>5, <1>6, <2>2, <2>3, AccountsShift
<1> QED
  BY <1>7, <1>8

\* A counter goes up, and the worker goes on to what is counted after it.
LEMMA CountKeeps ==
  ASSUME IsFiniteSet(Workers), MaxRequests \in Nat, GeneratorTypes, Accounts,
         NEW w \in Workers, Count(w)
  PROVE  /\ GeneratorTypes' /\ Accounts'
         /\ \A t \in Counters : stats[t] <= stats'[t]
<1> DEFINE list == worker[w].count
           p == IF Tail(list) = << >> THEN "pace" ELSE "count"
<1>1. /\ worker[w].pc = "count" /\ list \in Lists /\ Doing(w) = Head(list)
      /\ worker' = [worker EXCEPT ![w] = [pc |-> p, count |-> Tail(list)]]
      /\ stats' = [stats EXCEPT ![Head(list)] = @ + 1]
      /\ UNCHANGED << done, requestSeq, now, sent, cut >>
  BY WhatItIsAt DEF Count
<1> HIDE DEF list
<1>2. PICK l \in Lists : l = list
  BY <1>1
<1>3. PICK q \in {"pace", "count"}, rest \in Lists \cup {<< >>} :
        /\ q = p /\ rest = Tail(l) /\ (rest = << >> => q = "pace") /\ (rest # << >> => q = "count")
  BY <1>2, ListsAreCounted DEF Counted
<1>4. PICK t \in Counters, u \in {"pace"} \cup Counters :
        /\ t = Head(l) /\ u = IF q = "count" THEN Head(rest) ELSE q
        /\ IF u = "pace" THEN t = "latencies" ELSE u \in After(t)
  <2>1. Counted(l)
    BY ListsAreCounted
  <2>2. CASE rest = << >>
    BY <1>3, <2>1, <2>2 DEF Counted, Counters
  <2>3. CASE rest # << >>
    <3>1. Counted(rest) /\ Head(rest) \in After(Head(l)) /\ Head(l) \in Counters /\ q = "count"
      BY <1>3, <2>1, <2>3, ListsAreCounted DEF Counted
    <3>2. Head(rest) \in Counters /\ Head(rest) # "pace"
      BY <3>1 DEF Counted, Counters
    <3> QED
      BY <3>1, <3>2
  <2> QED
    BY <2>2, <2>3
<1>5. /\ Doing(w) = t /\ DOMAIN worker = Workers
      /\ worker' = [worker EXCEPT ![w] = [pc |-> q, count |-> rest]]
      /\ stats' = [stats EXCEPT ![t] = @ + 1]
  BY <1>1, <1>2, <1>3, <1>4 DEF GeneratorTypes
<1>6. stats \in [Counters -> Nat] /\ stats' \in [Counters -> Nat]
      /\ \A c \in Counters : stats'[c] = IF c = t THEN stats[c] + 1 ELSE stats[c]
  BY <1>5 DEF GeneratorTypes
<1>7. \A c \in Counters : stats[c] <= stats'[c]
  BY <1>6
<1>8. GeneratorTypes'
  <2>1. CountingOK([pc |-> q, count |-> rest])
    BY <1>3 DEF CountingOK, Activities
  <2> QED
    BY <1>1, <1>5, <1>6, <2>1, TypesMove DEF GeneratorTypes
<1>9. ShiftFrom(t, u)
  <2> DEFINE r == [pc |-> q, count |-> rest]
  <2>1. worker' = [worker EXCEPT ![w] = r] /\ r.pc = q /\ r.count = rest
    BY <1>5
  <2> HIDE DEF r
  <2>2. ShiftFrom(Doing(w), IF r.pc = "count" THEN Head(r.count) ELSE r.pc)
    BY <1>5, <2>1, ShiftOf
  <2> QED
    BY <1>4, <1>5, <2>1, <2>2
<1>10. requestSeq' \in Nat /\ cut' \in Nat /\ -1 \in Int /\ cut' - cut <= 0
       /\ requestSeq' - requestSeq + 0 <= 0 /\ requestSeq' - requestSeq = 0 /\ cut' - cut = 0
  BY <1>1, StatsType
<1>11. \/ t = "requests" /\ u \in {"successes", "statusOther", "unlisted", "transportErrors"}
       \/ t = "successes" /\ u = "status2xx"
       \/ t = "status2xx" /\ u = "latencies"
       \/ t \in {"statusOther", "unlisted", "transportErrors"} /\ u = "latencies"
       \/ t = "latencies" /\ u = "pace"
  BY <1>4 DEF After, Counters
<1> HIDE DEF p
<1>12. Accounts'
  <2>1. /\ \A c \in {"requests", "successes", "transportErrors", "latencies", "status2xx",
                      "statusOther", "unlisted"} :
             stats[c] \in Nat /\ stats'[c] = IF c = t THEN stats[c] + 1 ELSE stats[c]
    BY <1>6 DEF Counters
  <2>2. /\ Outcomes(stats) \in Nat
        /\ Outcomes(stats') = Outcomes(stats)
             + (IF t \in {"status2xx", "statusOther", "unlisted", "transportErrors"} THEN 1 ELSE 0)
    <3>1. PICK x \in Nat, y \in Nat, v \in Nat, z \in Nat :
            /\ x = stats["status2xx"] /\ y = stats["statusOther"]
            /\ v = stats["unlisted"] /\ z = stats["transportErrors"]
      BY <2>1
    <3>2. /\ stats'["status2xx"] = x + (IF t = "status2xx" THEN 1 ELSE 0)
          /\ stats'["statusOther"] = y + (IF t = "statusOther" THEN 1 ELSE 0)
          /\ stats'["unlisted"] = v + (IF t = "unlisted" THEN 1 ELSE 0)
          /\ stats'["transportErrors"] = z + (IF t = "transportErrors" THEN 1 ELSE 0)
      BY <2>1, <3>1
    <3> DEFINE a == IF t = "status2xx" THEN 1 ELSE 0
               b == IF t = "statusOther" THEN 1 ELSE 0
               d == IF t = "unlisted" THEN 1 ELSE 0
               e == IF t = "transportErrors" THEN 1 ELSE 0
    <3>3. /\ Outcomes(stats) = x + y + v + z
          /\ Outcomes(stats') = (x + a) + (y + b) + (v + d) + (z + e)
      BY <3>1, <3>2 DEF Outcomes
    <3>4. /\ a \in Nat /\ b \in Nat /\ d \in Nat /\ e \in Nat
          /\ a + b + d + e
               = IF t \in {"status2xx", "statusOther", "unlisted", "transportErrors"} THEN 1 ELSE 0
      OBVIOUS
    <3> HIDE DEF a, b, d, e
    <3> QED
      BY <3>3, <3>4
  <2>3. CASE t = "requests" /\ u \in {"successes", "statusOther", "unlisted", "transportErrors"}
    <3>1. Shift(-1, 1, 1, 0, 0, 0)
      BY <1>9, <2>3 DEF ShiftFrom, Entering, OutcomeSteps
    <3>2. /\ requestSeq' - requestSeq = stats'["requests"] - stats["requests"] + (-1) + (cut' - cut)
          /\ stats'["requests"] - stats["requests"] = Outcomes(stats') - Outcomes(stats) + 1
      BY <1>10, <2>1, <2>2, <2>3
    <3>3. /\ stats'["requests"] - stats["requests"] = stats'["latencies"] - stats["latencies"] + 1
          /\ stats'["successes"] - stats["successes"] = stats'["status2xx"] - stats["status2xx"] + 0
      BY <2>1, <2>3
    <3> QED
      BY <1>6, <1>10, <3>1, <3>2, <3>3, AccountsShift
  <2>4. CASE t = "successes" /\ u = "status2xx"
    <3>1. Shift(0, 0, 0, 1, 0, 0)
      BY <1>9, <2>4 DEF ShiftFrom, Entering, OutcomeSteps
    <3>2. /\ requestSeq' - requestSeq = stats'["requests"] - stats["requests"] + 0 + (cut' - cut)
          /\ stats'["requests"] - stats["requests"] = Outcomes(stats') - Outcomes(stats) + 0
      BY <1>10, <2>1, <2>2, <2>4
    <3>3. /\ stats'["requests"] - stats["requests"] = stats'["latencies"] - stats["latencies"] + 0
          /\ stats'["successes"] - stats["successes"] = stats'["status2xx"] - stats["status2xx"] + 1
      BY <2>1, <2>4
    <3> QED
      BY <1>6, <1>10, <3>1, <3>2, <3>3, AccountsShift
  <2>5. CASE t = "status2xx" /\ u = "latencies"
    <3>1. Shift(0, -1, 0, -1, 0, 0)
      BY <1>9, <2>5 DEF ShiftFrom, Entering, OutcomeSteps
    <3>2. /\ requestSeq' - requestSeq = stats'["requests"] - stats["requests"] + 0 + (cut' - cut)
          /\ stats'["requests"] - stats["requests"] = Outcomes(stats') - Outcomes(stats) + (-1)
      BY <1>10, <2>1, <2>2, <2>5
    <3>3. /\ stats'["requests"] - stats["requests"] = stats'["latencies"] - stats["latencies"] + 0
          /\ stats'["successes"] - stats["successes"] = stats'["status2xx"] - stats["status2xx"] + (-1)
      BY <2>1, <2>5
    <3> QED
      BY <1>6, <1>10, <3>1, <3>2, <3>3, AccountsShift
  <2>6. CASE t \in {"statusOther", "unlisted", "transportErrors"} /\ u = "latencies"
    <3>1. Shift(0, -1, 0, 0, 0, 0)
      BY <1>9, <2>6 DEF ShiftFrom, Entering, OutcomeSteps
    <3>2. /\ requestSeq' - requestSeq = stats'["requests"] - stats["requests"] + 0 + (cut' - cut)
          /\ stats'["requests"] - stats["requests"] = Outcomes(stats') - Outcomes(stats) + (-1)
      BY <1>10, <2>1, <2>2, <2>6
    <3>3. /\ stats'["requests"] - stats["requests"] = stats'["latencies"] - stats["latencies"] + 0
          /\ stats'["successes"] - stats["successes"] = stats'["status2xx"] - stats["status2xx"] + 0
      BY <2>1, <2>6
    <3> QED
      BY <1>6, <1>10, <3>1, <3>2, <3>3, AccountsShift
  <2>7. CASE t = "latencies" /\ u = "pace"
    <3>1. Shift(0, 0, -1, 0, 0, 0)
      BY <1>9, <2>7 DEF ShiftFrom, Entering, OutcomeSteps
    <3>2. /\ requestSeq' - requestSeq = stats'["requests"] - stats["requests"] + 0 + (cut' - cut)
          /\ stats'["requests"] - stats["requests"] = Outcomes(stats') - Outcomes(stats) + 0
      BY <1>10, <2>1, <2>2, <2>7
    <3>3. /\ stats'["requests"] - stats["requests"] = stats'["latencies"] - stats["latencies"] + (-1)
          /\ stats'["successes"] - stats["successes"] = stats'["status2xx"] - stats["status2xx"] + 0
      BY <2>1, <2>7
    <3> QED
      BY <1>6, <1>10, <3>1, <3>2, <3>3, AccountsShift
  <2> QED
    BY <1>11, <2>3, <2>4, <2>5, <2>6, <2>7
<1> QED
  BY <1>7, <1>8, <1>12

------------------------------------------------------------------------------
(* Reading the counters one after the other.                                *)

Unread(i) == SubSeq(ReadOrder, i, 6)

ReadBefore(i) == {ReadOrder[j] : j \in 1..(i - 1)}

LEMMA OrderOfReading ==
  /\ ReadOrder \in Seq(Counters) /\ Len(ReadOrder) = 6
  /\ ReadOrder[1] = "requests"
  /\ \A i, j \in 1..6 : ReadOrder[i] = ReadOrder[j] => i = j
  /\ \A i \in 1..6 : ReadOrder[i] \in Counters
  /\ ReadBefore(1) = {} /\ ReadBefore(7) = Counters \ {"unlisted"}
<1> DEFINE o == ReadOrder
<1>1. /\ o[1] = "requests" /\ o[2] = "successes" /\ o[3] = "transportErrors"
      /\ o[4] = "latencies" /\ o[5] = "status2xx" /\ o[6] = "statusOther"
      /\ Len(o) = 6
  BY DEF ReadOrder
<1>2. o \in Seq(Counters)
  BY DEF ReadOrder, Counters
<1> HIDE DEF o
<1>3. ASSUME NEW i \in 1..6
      PROVE i = 1 \/ i = 2 \/ i = 3 \/ i = 4 \/ i = 5 \/ i = 6
  OBVIOUS
<1>4. \A i, j \in 1..6 : o[i] = o[j] => i = j
  BY <1>1, <1>3
<1>5. \A i \in 1..6 : o[i] \in Counters
  BY <1>1, <1>3 DEF Counters
<1>6. \A c \in Counters \ {"unlisted"} : \E i \in 1..6 : o[i] = c
  BY <1>1 DEF Counters
<1>9. \A i \in 1..6 : o[i] # "unlisted"
  BY <1>1, <1>3
<1>7. 1..(1 - 1) = {} /\ 1..(7 - 1) = 1..6
  OBVIOUS
<1>8. ReadBefore(1) = {} /\ ReadBefore(7) = Counters \ {"unlisted"}
  BY <1>5, <1>6, <1>7, <1>9 DEF ReadBefore, o
<1> QED
  BY <1>1, <1>2, <1>4, <1>5, <1>8 DEF o

LEMMA NextToRead ==
  /\ Unread(1) = ReadOrder
  /\ \A i \in 1..7 : Unread(i) \in Seq(Counters) /\ (Unread(i) = << >> <=> i = 7)
  /\ \A i \in 1..6 : /\ Head(Unread(i)) = ReadOrder[i]
                     /\ Tail(Unread(i)) = Unread(i + 1)
<1> DEFINE o == ReadOrder
<1>1. o \in Seq(Counters) /\ Len(o) = 6 /\ \A k \in 1..6 : o[k] \in Counters
  BY OrderOfReading
<1> HIDE DEF o
<1>2. SubSeq(o, 1, 6) = o
  BY <1>1, SubSeqFull
<1>3. ASSUME NEW i \in 1..7
      PROVE  SubSeq(o, i, 6) \in Seq(Counters) /\ (SubSeq(o, i, 6) = << >> <=> i = 7)
  <2>1. i \in Int /\ 6 \in Int /\ \A k \in i..6 : o[k] \in Counters
    BY <1>1
  <2>2. /\ SubSeq(o, i, 6) \in Seq(Counters)
        /\ Len(SubSeq(o, i, 6)) = IF i <= 6 THEN 6 - i + 1 ELSE 0
    BY <2>1, SubSeqProperties
  <2> DEFINE s == SubSeq(o, i, 6)
  <2>3. s \in Seq(Counters) /\ (Len(s) = 0 <=> i = 7)
    BY <2>2
  <2> HIDE DEF s
  <2>4. s = << >> <=> Len(s) = 0
    BY <2>3
  <2> QED
    BY <2>3, <2>4 DEF s
<1>4. ASSUME NEW i \in 1..6
      PROVE  Head(SubSeq(o, i, 6)) = o[i] /\ Tail(SubSeq(o, i, 6)) = SubSeq(o, i + 1, 6)
  <2>1. i \in 1..Len(o) /\ 6 \in i..Len(o)
    BY <1>1
  <2> QED
    BY <1>1, <2>1, HeadTailOfSubSeq
<1> QED
  BY <1>2, <1>3, <1>4 DEF Unread, o

\* A counter as the snapshot shows it, or as it would if it were read now.
Seen(i, c) == IF c \in ReadBefore(i) THEN reporter.snap[c] ELSE stats[c]

SeenOutcomes(i) ==
  Seen(i, "status2xx") + Seen(i, "statusOther") + Seen(i, "unlisted") + Seen(i, "transportErrors")

LagOK(i) ==
  /\ reporter.snap["requests"] <= SeenOutcomes(i) + Cardinality(Workers)
  /\ reporter.snap["requests"] <= Seen(i, "latencies") + Cardinality(Workers)

\* The reporter reads the counter of place i next.
PlaceOK(i) ==
  /\ reporter.read = IF reporter.pc \in {"progress", "summary"} THEN Unread(i) ELSE << >>
  /\ reporter.pc = "exit" => i = 7
  /\ reporter.pc \in {"progress", "summary"} /\ i > 1 => LagOK(i)
  /\ reporter.pc \in {"summary", "exit"} =>
       AllGone /\ \A c \in Counters : Seen(i, c) = stats[c]

ReporterTypes ==
  reporter \in [pc : {"watch", "progress", "wait", "summary", "exit"},
                snap : [Counters -> Nat], read : Seq(Counters)]

ReporterOK == ReporterTypes /\ \E i \in 1..7 : PlaceOK(i)

LEMMA SeenType ==
  ASSUME GeneratorTypes, ReporterTypes, NEW i
  PROVE  /\ \A c \in Counters : Seen(i, c) \in Nat /\ reporter.snap[c] \in Nat
         /\ Seen(i, "status2xx") \in Nat /\ Seen(i, "statusOther") \in Nat
         /\ Seen(i, "transportErrors") \in Nat /\ Seen(i, "latencies") \in Nat
         /\ Seen(i, "unlisted") \in Nat
         /\ reporter.snap["requests"] \in Nat
<1>1. \A c \in Counters : stats[c] \in Nat /\ reporter.snap[c] \in Nat
  BY DEF GeneratorTypes, ReporterTypes
<1>2. \A c \in Counters : Seen(i, c) \in Nat
  BY <1>1 DEF Seen
<1> QED
  BY <1>1, <1>2 DEF Counters

\* A worker takes a step: what it adds to only makes the lag smaller.
LEMMA WorkersKeepTheSnapshot ==
  ASSUME IsFiniteSet(Workers), GeneratorTypes, ReporterOK, NEW w \in Workers, worker[w].pc # "gone",
         reporter' = reporter, stats' \in [Counters -> Nat],
         \A c \in Counters : stats[c] <= stats'[c]
  PROVE  ReporterOK'
<1>1. PICK i \in 1..7 : PlaceOK(i)
  BY DEF ReporterOK
<1>2. reporter.pc \notin {"summary", "exit"}
  BY <1>1 DEF PlaceOK, AllGone
<1>3. ASSUME LagOK(i)
      PROVE  LagOK(i)'
  <2>1. \A c \in Counters : Seen(i, c)' >= Seen(i, c) /\ Seen(i, c)' \in Nat /\ Seen(i, c) \in Nat
    <3>1. \A c \in Counters : stats[c] \in Nat /\ stats'[c] \in Nat /\ reporter.snap[c] \in Nat
      BY DEF GeneratorTypes, ReporterOK, ReporterTypes
    <3>2. \A c : Seen(i, c)' = IF c \in ReadBefore(i) THEN reporter.snap[c] ELSE stats'[c]
      BY DEF Seen, ReadBefore, ReadOrder
    <3> QED
      BY <3>1, <3>2 DEF Seen
  <2>2. {"status2xx", "statusOther", "transportErrors", "latencies", "unlisted"} \subseteq Counters
    BY DEF Counters
  <2>3. PICK a \in Nat, b \in Nat, c \in Nat, d \in Nat, e \in Nat,
             a2 \in Nat, b2 \in Nat, c2 \in Nat, d2 \in Nat, e2 \in Nat, r \in Nat, n \in Nat :
          /\ a = Seen(i, "status2xx") /\ b = Seen(i, "statusOther") /\ e = Seen(i, "unlisted")
          /\ c = Seen(i, "transportErrors") /\ d = Seen(i, "latencies")
          /\ a2 = Seen(i, "status2xx")' /\ b2 = Seen(i, "statusOther")' /\ e2 = Seen(i, "unlisted")'
          /\ c2 = Seen(i, "transportErrors")' /\ d2 = Seen(i, "latencies")'
          /\ r = reporter.snap["requests"] /\ n = Cardinality(Workers)
          /\ a <= a2 /\ b <= b2 /\ c <= c2 /\ d <= d2 /\ e <= e2
    <3>1. reporter.snap["requests"] \in Nat
      BY SeenType DEF ReporterOK
    <3>2. Cardinality(Workers) \in Nat
      BY FS_CardinalityType
    <3>3. \A k \in {"status2xx", "statusOther", "transportErrors", "latencies", "unlisted"} :
            \E x \in Nat, x2 \in Nat : x = Seen(i, k) /\ x2 = Seen(i, k)' /\ x <= x2
      BY <2>1, <2>2
    <3>4. PICK a \in Nat, a2 \in Nat :
            a = Seen(i, "status2xx") /\ a2 = Seen(i, "status2xx")' /\ a <= a2
      BY <3>3
    <3>5. PICK b \in Nat, b2 \in Nat :
            b = Seen(i, "statusOther") /\ b2 = Seen(i, "statusOther")' /\ b <= b2
      BY <3>3
    <3>6. PICK c \in Nat, c2 \in Nat :
            c = Seen(i, "transportErrors") /\ c2 = Seen(i, "transportErrors")' /\ c <= c2
      BY <3>3
    <3>7. PICK d \in Nat, d2 \in Nat :
            d = Seen(i, "latencies") /\ d2 = Seen(i, "latencies")' /\ d <= d2
      BY <3>3
    <3>8. PICK e \in Nat, e2 \in Nat :
            e = Seen(i, "unlisted") /\ e2 = Seen(i, "unlisted")' /\ e <= e2
      BY <3>3
    <3> QED
      BY ONLY <3>1, <3>2, <3>4, <3>5, <3>6, <3>7, <3>8
  <2>4. r <= a + b + e + c + n /\ r <= d + n
    BY <1>3, <2>3 DEF LagOK, SeenOutcomes
  <2>5. /\ a \in Nat /\ b \in Nat /\ c \in Nat /\ d \in Nat /\ e \in Nat /\ r \in Nat /\ n \in Nat
        /\ a2 \in Nat /\ b2 \in Nat /\ c2 \in Nat /\ d2 \in Nat /\ e2 \in Nat
        /\ a <= a2 /\ b <= b2 /\ c <= c2 /\ d <= d2 /\ e <= e2
    BY <2>3
  <2>7. r <= a2 + b2 + e2 + c2 + n /\ r <= d2 + n
    BY ONLY <2>4, <2>5
  <2>6. reporter'.snap["requests"] = r
    BY <2>3
  <2> QED
    BY <2>3, <2>7, <2>6 DEF LagOK, SeenOutcomes
<1>4. PlaceOK(i)'
  BY <1>1, <1>2, <1>3 DEF PlaceOK
<1> QED
  BY <1>4 DEF ReporterOK, ReporterTypes

\* The reporter starts to read, stops, or reports.
LEMMA ReporterGoesOn ==
  ASSUME GeneratorTypes, ReporterOK,
         Progress \/ StopWatching \/ Summarise \/ Report
  PROVE  ReporterOK'
<1> USE DEF Unread
<1>1. \A c \in Counters : Zero[c] = 0
  BY DEF Zero
<1>2. Zero \in [Counters -> Nat]
  BY DEF Zero
<1>3. ReadBefore(1) = {} /\ ReadOrder = Unread(1) /\ ReadOrder \in Seq(Counters)
  BY OrderOfReading, NextToRead
<1>4. << >> \in Seq(Counters)
  OBVIOUS
<1> HIDE DEF Unread
<1>5. ASSUME NEW p \in {"progress", "summary"},
             reporter' = [pc |-> p, snap |-> Zero, read |-> ReadOrder],
             UNCHANGED << stats, worker >>, p = "summary" => AllGone
      PROVE  ReporterOK'
  <2>1. ReporterTypes'
    BY <1>2, <1>3, <1>5 DEF ReporterTypes
  <2>2. \A c \in Counters : Seen(1, c)' = stats'[c]
    BY <1>3 DEF Seen, ReadBefore
  <2>3. AllGone' <=> AllGone
    BY <1>5 DEF AllGone
  <2>4. reporter'.pc = p /\ reporter'.read = Unread(1)'
    BY <1>3, <1>5 DEF Unread
  <2>5. PlaceOK(1)'
    BY <1>5, <2>2, <2>3, <2>4 DEF PlaceOK
  <2> QED
    BY <2>1, <2>5 DEF ReporterOK
<1>6. CASE Progress
  BY <1>5, <1>6 DEF Progress
<1>7. CASE Summarise
  BY <1>5, <1>7 DEF Summarise
<1>8. CASE StopWatching
  <2>1. reporter.pc = "watch" /\ reporter' = [reporter EXCEPT !.pc = "wait"]
    BY <1>8 DEF StopWatching
  <2>2. PICK i \in 1..7 : PlaceOK(i)
    BY DEF ReporterOK
  <2>3. ReporterTypes' /\ reporter'.pc = "wait" /\ reporter'.read = reporter.read
    BY <2>1 DEF ReporterOK, ReporterTypes
  <2>4. PlaceOK(i)'
    BY <2>1, <2>2, <2>3 DEF PlaceOK
  <2> QED
    BY <2>3, <2>4 DEF ReporterOK
<1>9. CASE Report /\ reporter.pc = "progress"
  <2>1. reporter' = [pc |-> "watch", snap |-> Zero, read |-> << >>]
    BY <1>9 DEF Report
  <2>2. ReporterTypes' /\ reporter'.pc = "watch" /\ reporter'.read = << >>
    BY <1>2, <1>4, <2>1 DEF ReporterTypes
  <2>3. PlaceOK(1)'
    BY <2>2 DEF PlaceOK
  <2> QED
    BY <2>2, <2>3 DEF ReporterOK
<1>10. CASE Report /\ reporter.pc # "progress"
  <2>1. /\ reporter.pc = "summary" /\ reporter.read = << >> /\ UNCHANGED << stats, worker >>
        /\ reporter' = [reporter EXCEPT !.pc = "exit"]
    BY <1>10 DEF Report
  <2>2. PICK i \in 1..7 : PlaceOK(i)
    BY DEF ReporterOK
  <2>3. i = 7
    BY <2>1, <2>2, NextToRead DEF PlaceOK
  <2>4. /\ ReporterTypes' /\ reporter'.pc = "exit" /\ reporter'.read = << >>
        /\ reporter'.snap = reporter.snap
    BY <2>1 DEF ReporterOK, ReporterTypes
  <2>5. AllGone' /\ \A c \in Counters : Seen(7, c)' = stats'[c]
    BY <2>1, <2>2, <2>3, <2>4 DEF PlaceOK, Seen, ReadBefore, AllGone, ReadOrder
  <2>6. PlaceOK(7)'
    BY <2>4, <2>5 DEF PlaceOK
  <2> QED
    BY <2>4, <2>6 DEF ReporterOK
<1> QED
  BY <1>6, <1>7, <1>8, <1>9, <1>10

\* Every counter that is read is the one it would have been shown as.
LEMMA ReadKeeps ==
  ASSUME IsFiniteSet(Workers), GeneratorTypes, Accounts, ReporterOK, Read
  PROVE  ReporterOK'
<1>1. PICK i \in 1..6 : PlaceOK(i) /\ reporter.pc \in {"progress", "summary"} /\ reporter.read = Unread(i)
  <2>1. PICK i \in 1..7 : PlaceOK(i)
    BY DEF ReporterOK
  <2>2. reporter.read # << >>
    BY DEF Read
  <2>3. reporter.pc \in {"progress", "summary"} /\ reporter.read = Unread(i)
    BY <2>1, <2>2 DEF PlaceOK
  <2>4. i # 7
    BY <2>2, <2>3, NextToRead
  <2>5. i \in 1..6
    BY <2>4
  <2> QED
    BY <2>1, <2>3, <2>5
<1>2. PICK o \in Counters, rest \in Seq(Counters) :
        /\ o = ReadOrder[i] /\ o = Head(reporter.read) 
        /\ rest = Unread(i + 1) /\ rest = Tail(reporter.read)
  <2>1. ReadOrder[i] \in Counters
    BY OrderOfReading
  <2>2. i + 1 \in 1..7
    OBVIOUS
  <2>3. Unread(i + 1) \in Seq(Counters)
    BY <2>2, NextToRead
  <2>4. Head(reporter.read) = ReadOrder[i] /\ Tail(reporter.read) = Unread(i + 1)
    BY <1>1, NextToRead
  <2> QED
    BY <2>1, <2>3, <2>4
<1>3. /\ reporter' = [reporter EXCEPT !.snap[o] = stats[o], !.read = rest]
      /\ UNCHANGED << stats, worker >>
  BY <1>2 DEF Read
<1>4. /\ ReporterTypes' /\ reporter'.pc = reporter.pc /\ reporter'.read = rest
      /\ reporter'.snap = [reporter.snap EXCEPT ![o] = stats[o]]
      /\ reporter.snap \in [Counters -> Nat]
  BY <1>3 DEF ReporterOK, ReporterTypes, GeneratorTypes
<1>5. /\ ReadBefore(i + 1) = ReadBefore(i) \cup {o}
      /\ o \notin ReadBefore(i)
      /\ i = 1 => o = "requests"
      /\ i > 1 => o # "requests"
  <2>1. 1..((i + 1) - 1) = (1..(i - 1)) \cup {i}
    OBVIOUS
  <2>2. \A j \in 1..(i - 1) : j \in 1..6 /\ j # i
    OBVIOUS
  <2>3. ReadBefore(i + 1) = ReadBefore(i) \cup {o}
    BY <1>2, <2>1 DEF ReadBefore
  <2>4. o \notin ReadBefore(i)
    BY <1>2, <2>2, OrderOfReading DEF ReadBefore
  <2>5. i = 1 <=> o = "requests"
    <3>1. 1 \in 1..6 /\ (ReadOrder[i] = ReadOrder[1] => i = 1)
      BY OrderOfReading
    <3>2. ReadOrder[1] = "requests" /\ o = ReadOrder[i]
      BY <1>2, OrderOfReading
    <3> QED
      BY <3>1, <3>2
  <2> QED
    BY <2>3, <2>4, <2>5
<1>6. \A c \in Counters : Seen(i + 1, c)' = Seen(i, c)
  <2>1. ReadBefore(i + 1)' = ReadBefore(i + 1)
    BY DEF ReadBefore, ReadOrder
  <2> QED
    BY <1>3, <1>4, <1>5, <2>1 DEF Seen
<1>7. LagOK(i + 1)'
  <2>1. CASE i = 1
    <3>1. \A c \in Counters : Seen(2, c)' = stats[c]
      BY <1>6, <2>1, OrderOfReading DEF Seen
    <3>2. reporter'.snap["requests"] = stats["requests"]
      BY <1>4, <1>5, <2>1
    <3>3. PICK r \in Nat, x \in Nat, l \in Nat, a \in Nat, b \in Nat, n \in Nat :
            /\ r = stats["requests"] /\ x = Outcomes(stats) /\ l = stats["latencies"]
            /\ a = Cardinality(At(OutcomeSteps)) /\ b = Cardinality(At(OutcomeSteps \cup {"latencies"}))
            /\ n = Cardinality(Workers) /\ a <= n /\ b <= n
      BY StatsType, AtFinite
    <3>4. r = x + a /\ r = l + b
      BY <3>3 DEF Accounts
    <3>5. /\ r \in Nat /\ x \in Nat /\ l \in Nat /\ a \in Nat /\ b \in Nat /\ n \in Nat
          /\ a <= n /\ b <= n
      BY <3>3
    <3>8. r <= x + n /\ r <= l + n
      BY ONLY <3>4, <3>5
    <3>6. SeenOutcomes(2)' = Outcomes(stats) /\ Seen(2, "latencies")' = stats["latencies"]
      BY <3>1 DEF SeenOutcomes, Outcomes, Counters
    <3>7. LagOK(2)'
      BY <3>2, <3>3, <3>8, <3>6 DEF LagOK
    <3> QED
      BY <2>1, <3>7
  <2>2. CASE i > 1
    <3>1. reporter'.snap["requests"] = reporter.snap["requests"]
      BY <1>4, <1>5, <2>2 DEF Counters
    <3>2. SeenOutcomes(i + 1)' = SeenOutcomes(i) /\ Seen(i + 1, "latencies")' = Seen(i, "latencies")
      BY <1>6 DEF SeenOutcomes, Counters
    <3>3. LagOK(i)
      BY <1>1, <2>2 DEF PlaceOK
    <3> QED
      BY <3>1, <3>2, <3>3 DEF LagOK
  <2> QED
    BY <2>1, <2>2
<1>8. reporter.pc = "summary" =>
        AllGone' /\ \A c \in Counters : Seen(i + 1, c)' = stats'[c]
  BY <1>1, <1>3, <1>6 DEF PlaceOK, AllGone
<1>9. PlaceOK(i + 1)'
  <2>1. reporter'.pc \in {"progress", "summary"} /\ reporter'.read = Unread(i + 1)'
    BY <1>1, <1>2, <1>4 DEF Unread, ReadOrder
  <2>2. reporter'.pc \in {"summary", "exit"} => reporter.pc = "summary"
    BY <1>1, <1>4
  <2>3. reporter'.pc = "exit" => i + 1 = 7
    BY <2>1
  <2> QED
    BY <1>7, <1>8, <2>1, <2>2, <2>3 DEF PlaceOK
<1> QED
  BY <1>4, <1>9 DEF ReporterOK

------------------------------------------------------------------------------
(* The invariant of the load generator.                                     *)

\* Every number that was taken has its request.
SentOK == \A n \in 0..(requestSeq - 1) : \E r \in sent : r.seq = n

GeneratorInv == GeneratorTypes /\ Accounts /\ ReporterOK /\ SentOK

LEMMA InitGeneratorInv == GeneratorInit => GeneratorInv
<1> SUFFICES ASSUME GeneratorInit PROVE GeneratorInv
  OBVIOUS
<1>1. /\ done = FALSE /\ requestSeq = 0 /\ now = 0 /\ stats = Zero /\ sent = {} /\ cut = 0
      /\ worker = [w \in Workers |-> [pc |-> "pace", count |-> << >>]]
      /\ reporter = [pc |-> "watch", snap |-> Zero, read |-> << >>]
  BY DEF GeneratorInit
<1>2. Zero \in [Counters -> Nat] /\ \A c \in Counters : Zero[c] = 0
  BY DEF Zero
<1>3. GeneratorTypes
  <2>1. DOMAIN worker = Workers /\ \A w \in Workers : worker[w] = [pc |-> "pace", count |-> << >>]
    BY <1>1
  <2>2. \A w \in Workers : worker[w] = [pc |-> worker[w].pc, count |-> worker[w].count]
                           /\ CountingOK(worker[w])
    BY <2>1 DEF CountingOK, Activities
  <2>3. now \in 0..MaxTime
    BY <1>1, BoundsAssumption
  <2> QED
    BY <1>1, <1>2, <2>1, <2>2, <2>3 DEF GeneratorTypes
<1>4. \A w \in Workers : Doing(w) = "pace"
  BY <1>1 DEF Doing
<1>5. ASSUME NEW steps, "pace" \notin steps
      PROVE  Cardinality(At(steps)) = 0
  <2>1. At(steps) = {}
    BY <1>4, <1>5 DEF At
  <2> QED
    BY <2>1, FS_EmptySet
<1>6. Accounts
  <2>1. /\ Cardinality(At({"send", "requests"})) = 0 /\ Cardinality(At(OutcomeSteps)) = 0
        /\ Cardinality(At(OutcomeSteps \cup {"latencies"})) = 0 /\ Cardinality(At({"status2xx"})) = 0
        /\ Cardinality(At({"gone"})) = 0 /\ Cardinality(At({"generate"})) = 0
    BY <1>5 DEF OutcomeSteps
  <2>2. /\ stats["requests"] = 0 /\ stats["latencies"] = 0 /\ stats["successes"] = 0
        /\ stats["status2xx"] = 0 /\ Outcomes(stats) = 0
    BY <1>1, <1>2 DEF Counters, Outcomes
  <2>3. Cardinality(Workers) \in Nat /\ MaxRequests \in Nat
    BY WorkersAssumption, BoundsAssumption, FS_CardinalityType
  <2> QED
    BY <1>1, <2>1, <2>2, <2>3 DEF Accounts
<1>7. ReporterOK
  <2>1. reporter.pc = "watch" /\ reporter.read = << >>
    BY <1>1
  <2>2. PlaceOK(1)
    BY <2>1 DEF PlaceOK
  <2>3. << >> \in Seq(Counters)
    OBVIOUS
  <2>4. ReporterTypes
    BY <1>1, <1>2, <2>3 DEF ReporterTypes
  <2> QED
    BY <2>2, <2>4 DEF ReporterOK
<1>8. SentOK
  BY <1>1 DEF SentOK
<1> QED
  BY <1>3, <1>6, <1>7, <1>8 DEF GeneratorInv

\* A step that takes no number.
LEMMA SameNumbers ==
  ASSUME SentOK, UNCHANGED << requestSeq, sent >>
  PROVE  SentOK'
BY DEF SentOK

\* A step of a worker that leaves the counters alone.
LEMMA SameCounters ==
  ASSUME GeneratorInv, NEW w \in Workers, worker[w].pc # "gone", UNCHANGED << stats, reporter >>
  PROVE  ReporterOK'
<1>1. /\ stats' \in [Counters -> Nat] /\ \A c \in Counters : stats[c] \in Nat /\ stats'[c] = stats[c]
  BY DEF GeneratorInv, GeneratorTypes
<1>2. \A c \in Counters : stats[c] <= stats'[c]
  BY <1>1
<1> QED
  BY <1>1, <1>2, WorkersAssumption, WorkersKeepTheSnapshot DEF GeneratorInv

LEMMA WorkersKeepGeneratorInv ==
  ASSUME GeneratorInv, NEW w \in Workers,
         WorkerStep(w) \/ \E status \in Statuses : Answered(w, status)
  PROVE  GeneratorInv'
<1> USE WorkersAssumption, BoundsAssumption
<1>1. CASE Pace(w)
  <2>1. worker[w].pc # "gone" /\ UNCHANGED << requestSeq, stats, reporter, sent >>
    BY <1>1 DEF Pace
  <2>2. GeneratorTypes' /\ Accounts'
    BY <1>1, PaceKeeps DEF GeneratorInv
  <2> QED
    BY <2>1, <2>2, SameCounters, SameNumbers DEF GeneratorInv
<1>2. ASSUME NEW t \in 0..MaxTime, Generate(w, t)
      PROVE  GeneratorInv'
  <2>1. /\ worker[w].pc # "gone" /\ UNCHANGED << stats, reporter >>
        /\ requestSeq' = requestSeq + 1
        /\ sent' = sent \cup {[seq |-> requestSeq, nowMs |-> t]}
    BY <1>2 DEF Generate
  <2>2. GeneratorTypes' /\ Accounts'
    BY <1>2, GenerateKeeps DEF GeneratorInv
  <2>3. SentOK'
    <3>1. ASSUME NEW n \in 0..(requestSeq' - 1)
          PROVE  \E r \in sent' : r.seq = n
      <4>1. n = requestSeq \/ n \in 0..(requestSeq - 1)
        BY <2>1 DEF GeneratorInv, GeneratorTypes
      <4>2. [seq |-> requestSeq, nowMs |-> t] \in sent'
        BY <2>1
      <4> QED
        BY <2>1, <4>1, <4>2 DEF GeneratorInv, SentOK
    <3> QED
      BY <3>1 DEF SentOK
  <2> QED
    BY <2>1, <2>2, <2>3, SameCounters DEF GeneratorInv
<1>3. CASE Failed(w) \/ \E status \in Statuses : Answered(w, status)
  <2>1. worker[w].pc # "gone" /\ UNCHANGED << requestSeq, stats, reporter, sent >>
    BY <1>3 DEF Failed, Answered
  <2>2. GeneratorTypes' /\ Accounts'
    BY <1>3, SendKeeps DEF GeneratorInv
  <2> QED
    BY <2>1, <2>2, SameCounters, SameNumbers DEF GeneratorInv
<1>4. CASE Count(w)
  <2>1. worker[w].pc # "gone" /\ UNCHANGED << requestSeq, reporter, sent >>
    BY <1>4 DEF Count
  <2>2. /\ GeneratorTypes' /\ Accounts' /\ \A c \in Counters : stats[c] <= stats'[c]
    BY <1>4, CountKeeps DEF GeneratorInv
  <2>3. stats' \in [Counters -> Nat]
    BY <2>2 DEF GeneratorTypes
  <2>4. ReporterOK'
    BY <2>1, <2>2, <2>3, WorkersKeepTheSnapshot DEF GeneratorInv
  <2> QED
    BY <2>1, <2>2, <2>4, SameNumbers DEF GeneratorInv
<1> QED
  BY <1>1, <1>2, <1>3, <1>4 DEF WorkerStep

\* The workers, their counters and the numbers stay as they are.
LEMMA SameAccounts ==
  ASSUME GeneratorTypes, Accounts, done' \in BOOLEAN,
         UNCHANGED << requestSeq, now, stats, worker, sent, cut >>
  PROVE  GeneratorTypes' /\ Accounts'
<1>1. GeneratorTypes'
  BY DEF GeneratorTypes, CountingOK, Lists
<1>2. ASSUME NEW steps PROVE At(steps)' = At(steps)
  BY DEF At, Doing
<1>3. Outcomes(stats)' = Outcomes(stats)
  BY DEF Outcomes
<1>4. Accounts'
  BY <1>2, <1>3 DEF Accounts, OutcomeSteps
<1> QED
  BY <1>1, <1>4

LEMMA ReporterKeepsGeneratorInv ==
  ASSUME GeneratorInv, Progress \/ StopWatching \/ Summarise \/ Read \/ Report
  PROVE  GeneratorInv'
<1>1. UNCHANGED << done, requestSeq, now, stats, worker, sent, cut >>
  BY DEF Progress, StopWatching, Summarise, Read, Report
<1>2. GeneratorTypes' /\ Accounts'
  BY <1>1, SameAccounts DEF GeneratorInv, GeneratorTypes
<1>3. SentOK'
  BY <1>1, SameNumbers DEF GeneratorInv
<1>4. ReporterOK'
  BY ReporterGoesOn, ReadKeeps, WorkersAssumption DEF GeneratorInv
<1> QED
  BY <1>2, <1>3, <1>4 DEF GeneratorInv

LEMMA SameReporter ==
  ASSUME ReporterOK, UNCHANGED << stats, worker, reporter >>
  PROVE  ReporterOK'
<1>1. PICK i \in 1..7 : PlaceOK(i)
  BY DEF ReporterOK
<1>2. ASSUME NEW c PROVE Seen(i, c)' = Seen(i, c)
  BY DEF Seen, ReadBefore, ReadOrder
<1>3. AllGone' <=> AllGone
  BY DEF AllGone
<1>4. LagOK(i)' <=> LagOK(i)
  BY <1>2 DEF LagOK, SeenOutcomes
<1>5. PlaceOK(i)'
  BY <1>1, <1>2, <1>3, <1>4 DEF PlaceOK, Unread, ReadOrder
<1> QED
  BY <1>5 DEF ReporterOK, ReporterTypes

LEMMA NextGeneratorInv == GeneratorInv /\ [GeneratorNext]_generatorVars => GeneratorInv'
<1> SUFFICES ASSUME GeneratorInv, [GeneratorNext]_generatorVars PROVE GeneratorInv'
  OBVIOUS
<1>1. CASE \E w \in Workers : WorkerStep(w) \/ \E status \in Statuses : Answered(w, status)
  BY <1>1, WorkersKeepGeneratorInv
<1>2. CASE Progress \/ StopWatching \/ Summarise \/ Read \/ Report
  BY <1>2, ReporterKeepsGeneratorInv
<1>3. CASE EndOfContext \/ UNCHANGED generatorVars
  <2>1. /\ UNCHANGED << requestSeq, now, stats, worker, reporter, sent, cut >>
        /\ done' \in BOOLEAN
    BY <1>3 DEF EndOfContext, generatorVars, GeneratorInv, GeneratorTypes
  <2> QED
    BY <2>1, SameAccounts, SameNumbers, SameReporter DEF GeneratorInv
<1> QED
  BY <1>1, <1>2, <1>3 DEF GeneratorNext

LEMMA GeneratorInvariance == GeneratorSpec => []GeneratorInv
<1>1. GeneratorInit => GeneratorInv
  BY InitGeneratorInv
<1>2. GeneratorInv /\ [GeneratorNext]_generatorVars => GeneratorInv'
  BY NextGeneratorInv
<1> QED
  BY <1>1, <1>2, PTL DEF GeneratorSpec

------------------------------------------------------------------------------
(* What it implies.                                                         *)

LEMMA InvGeneratorTypeOK == GeneratorInv => GeneratorTypeOK
<1> SUFFICES ASSUME GeneratorInv PROVE GeneratorTypeOK
  OBVIOUS
<1>1. ASSUME NEW steps
      PROVE  /\ Cardinality(At(steps)) \in Nat /\ Cardinality(At(steps)) <= Cardinality(Workers)
             /\ Cardinality(Workers) \in Nat
  BY WorkersAssumption, AtFinite
<1>2. requestSeq \in 0..(MaxRequests + Cardinality(Workers)) /\ cut \in 0..Cardinality(Workers)
  <2>1. PICK s \in Nat, c \in Nat, a \in Nat, b \in Nat, n \in Nat, m \in Nat :
          /\ s = requestSeq /\ c = cut /\ a = Cardinality(At({"generate"}))
          /\ b = Cardinality(At({"gone"})) /\ n = Cardinality(Workers) /\ m = MaxRequests
    BY <1>1, BoundsAssumption DEF GeneratorInv, GeneratorTypes
  <2>2. s + a <= m + n /\ c <= b /\ b <= n
    BY <1>1, <2>1 DEF GeneratorInv, Accounts
  <2>3. s \in 0..(m + n) /\ c \in 0..n
    BY <2>2
  <2> QED
    BY <2>1, <2>3
<1>3. ASSUME NEW w \in Workers
      PROVE  /\ worker[w] \in [pc : {"pace", "generate", "send", "count", "gone"}, count : Seq(Counters)]
             /\ (worker[w].pc = "count") <=> (worker[w].count # << >>)
  <2>1. worker[w] = [pc |-> worker[w].pc, count |-> worker[w].count] /\ CountingOK(worker[w])
    BY DEF GeneratorInv, GeneratorTypes
  <2>2. PICK p, l : p = worker[w].pc /\ l = worker[w].count
    OBVIOUS
  <2>3. /\ p \in {"pace", "generate", "send", "count", "gone"} /\ l \in Seq(Counters)
        /\ (p = "count") <=> (l # << >>)
    <3>1. CASE p = "count"
      <4>1. l \in Lists
        BY <2>1, <2>2, <3>1 DEF CountingOK
      <4> QED
        BY <3>1, <4>1, ListsAreCounted
    <3>2. CASE p # "count"
      <4>1. l = << >> /\ p \in Activities
        BY <2>1, <2>2, <3>2 DEF CountingOK
      <4> QED
        BY <3>2, <4>1 DEF Activities
    <3> QED
      BY <3>1, <3>2
  <2> QED
    BY <2>1, <2>2, <2>3
<1>4. worker \in [Workers -> [pc : {"pace", "generate", "send", "count", "gone"}, count : Seq(Counters)]]
  <2>1. worker = [w \in Workers |-> worker[w]]
    BY DEF GeneratorInv, GeneratorTypes
  <2> QED
    BY <1>3, <2>1
<1> QED
  BY <1>2, <1>3, <1>4 DEF GeneratorTypeOK, GeneratorInv, GeneratorTypes, ReporterOK, ReporterTypes

LEMMA InvSummaryExact == GeneratorInv => SummaryExact
<1> SUFFICES ASSUME GeneratorInv, reporter.pc = "exit"
             PROVE  /\ reporter.snap["requests"]
                         = Answers(reporter.snap) + reporter.snap["transportErrors"] + stats["unlisted"]
                    /\ reporter.snap["latencies"] = reporter.snap["requests"]
                    /\ reporter.snap["successes"] = reporter.snap["status2xx"]
                    /\ requestSeq = reporter.snap["requests"] + cut
                    /\ cut <= Cardinality(Workers)
  BY DEF SummaryExact
<1>1. AllGone /\ \A c \in Counters \ {"unlisted"} : reporter.snap[c] = stats[c]
  <2>1. PICK i \in 1..7 : PlaceOK(i)
    BY DEF GeneratorInv, ReporterOK
  <2>2. i = 7 /\ AllGone /\ \A c \in Counters : Seen(i, c) = stats[c]
    BY <2>1 DEF PlaceOK
  <2> QED
    BY <2>2, OrderOfReading DEF Seen
<1>2. ASSUME NEW steps, "gone" \notin steps
      PROVE  Cardinality(At(steps)) = 0
  <2>1. At(steps) = {}
    BY <1>1, <1>2 DEF AllGone, At, Doing
  <2> QED
    BY <2>1, FS_EmptySet
<1>3. /\ Cardinality(At({"send", "requests"})) = 0 /\ Cardinality(At(OutcomeSteps)) = 0
      /\ Cardinality(At(OutcomeSteps \cup {"latencies"})) = 0 /\ Cardinality(At({"status2xx"})) = 0
  BY <1>2 DEF OutcomeSteps
<1>4. cut <= Cardinality(Workers)
  <2>1. PICK c \in Nat, b \in Nat, n \in Nat :
          c = cut /\ b = Cardinality(At({"gone"})) /\ n = Cardinality(Workers) /\ b <= n
    BY WorkersAssumption, AtFinite DEF GeneratorInv, GeneratorTypes
  <2>2. c <= b
    BY <2>1 DEF GeneratorInv, Accounts
  <2> QED
    BY <2>1, <2>2
<1>5. /\ requestSeq = stats["requests"] + cut
      /\ stats["requests"] = Outcomes(stats)
      /\ stats["requests"] = stats["latencies"] /\ stats["successes"] = stats["status2xx"]
  BY <1>3, StatsType DEF GeneratorInv, Accounts
<1>6. \A c \in {"requests", "successes", "transportErrors", "latencies", "status2xx", "statusOther"} :
        reporter.snap[c] = stats[c]
  BY <1>1 DEF Counters
<1>7. stats["requests"] = Answers(stats) + stats["transportErrors"] + stats["unlisted"]
  <2>1. PICK a \in Nat, b \in Nat, c \in Nat, d \in Nat :
          /\ a = stats["status2xx"] /\ b = stats["statusOther"]
          /\ c = stats["unlisted"] /\ d = stats["transportErrors"]
    BY DEF GeneratorInv, GeneratorTypes, Counters
  <2>2. stats["requests"] = a + b + c + d
    BY <1>5, <2>1 DEF Outcomes
  <2> QED
    BY <2>1, <2>2 DEF Answers
<1>8. Answers(reporter.snap) = Answers(stats)
  BY <1>6 DEF Answers
<1> QED
  BY <1>4, <1>5, <1>6, <1>7, <1>8

LEMMA InvProgressLag == GeneratorInv => ProgressLag
<1> SUFFICES ASSUME GeneratorInv, reporter.pc \in {"progress", "summary"}, reporter.read = << >>
             PROVE  /\ reporter.snap["requests"] <= Answers(reporter.snap)
                          + reporter.snap["transportErrors"] + stats["unlisted"] + Cardinality(Workers)
                    /\ reporter.snap["requests"] <= reporter.snap["latencies"] + Cardinality(Workers)
  BY DEF ProgressLag
<1>1. PICK i \in 1..7 : PlaceOK(i)
  BY DEF GeneratorInv, ReporterOK
<1>2. i = 7
  BY <1>1, NextToRead DEF PlaceOK
<1>3. LagOK(7)
  BY <1>1, <1>2 DEF PlaceOK
<1>4. /\ \A c \in Counters \ {"unlisted"} : Seen(7, c) = reporter.snap[c]
      /\ Seen(7, "unlisted") = stats["unlisted"]
  BY OrderOfReading DEF Seen
<1>5. /\ Seen(7, "latencies") = reporter.snap["latencies"]
      /\ SeenOutcomes(7) = Answers(reporter.snap) + reporter.snap["transportErrors"] + stats["unlisted"]
  <2>1. PICK a \in Nat, b \in Nat, c \in Nat, d \in Nat :
          /\ a = reporter.snap["status2xx"] /\ b = reporter.snap["statusOther"]
          /\ c = stats["unlisted"] /\ d = reporter.snap["transportErrors"]
    BY DEF GeneratorInv, GeneratorTypes, ReporterOK, ReporterTypes, Counters
  <2>2. SeenOutcomes(7) = a + b + c + d
    BY <1>4, <2>1 DEF SeenOutcomes, Counters
  <2>3. Answers(reporter.snap) + reporter.snap["transportErrors"] + stats["unlisted"] = a + b + d + c
    BY <2>1 DEF Answers
  <2>4. a + b + c + d = a + b + d + c
    BY ONLY a \in Nat, b \in Nat, c \in Nat, d \in Nat
  <2>5. Seen(7, "latencies") = reporter.snap["latencies"]
    BY <1>4 DEF Counters
  <2> QED
    BY <2>2, <2>3, <2>4, <2>5
<1> QED
  BY <1>3, <1>5 DEF LagOK

------------------------------------------------------------------------------
(* The plan of series and paths.                                            *)

LEMMA CycleCovers ==
  cycleLen \in Nat \ {0} /\ cycleLen * SeriesPerRequest >= ActiveSeries
<1>1. PICK a \in Nat \ {0}, n \in Nat \ {0} : a = ActiveSeries /\ n = SeriesPerRequest
  BY CountsAssumption
<1> DEFINE b == a + n - 1
           q == b \div n
<1>2. b \in Nat
  BY <1>1
<1>3. q \in Nat /\ n * q <= b /\ b < n * q + n
  <2> HIDE DEF b
  <2> QED
    BY <1>1, <1>2, DivBounds
<1>4. cycleLen = q
  BY <1>1 DEF cycleLen
<1>5. PICK m \in Nat : m = n * q
  BY <1>1, <1>3
<1> HIDE DEF q
<1>6. m >= a
  BY <1>3, <1>5
<1>7. q # 0
  <2>1. CASE q = 0
    <3>1. m = 0
      BY <1>1, <1>5, <2>1
    <3> QED
      BY <1>1, <1>6, <3>1
  <2> QED
    BY <2>1
<1>8. q * n = m
  BY <1>1, <1>3, <1>5
<1> QED
  BY <1>1, <1>3, <1>4, <1>6, <1>7, <1>8

\* The remainder is the only one.
LEMMA RemainderIs ==
  ASSUME NEW a \in Nat, NEW s \in Nat \ {0}, NEW q \in Nat, NEW r \in Nat, r < s, a = q * s + r
  PROVE  a \div s = q /\ a % s = r
<1>1. /\ a % s \in Nat /\ a % s < s /\ a \div s \in Nat
      /\ a = (a \div s) * s + (a % s)
  BY DivMod, DivBounds
<1>2. PICK p \in Nat, t \in Nat : p = a \div s /\ t = a % s
  BY <1>1
<1>3. t < s /\ q * s + r = p * s + t
  BY <1>1, <1>2
<1>4. p = q
  <2>1. CASE p < q
    <3>1. PICK d \in Nat \ {0} : q = p + d
      <4>1. q - p \in Nat \ {0} /\ q = p + (q - p)
        BY <2>1
      <4> QED
        BY <4>1
    <3>2. q * s = p * s + d * s /\ d * s >= s /\ p * s \in Nat /\ d * s \in Nat
      BY <3>1
    <3> QED
      BY <1>3, <3>2
  <2>2. CASE q < p
    <3>1. PICK d \in Nat \ {0} : p = q + d
      <4>1. p - q \in Nat \ {0} /\ p = q + (p - q)
        BY <2>2
      <4> QED
        BY <4>1
    <3>2. p * s = q * s + d * s /\ d * s >= s /\ q * s \in Nat /\ d * s \in Nat
      BY <3>1
    <3> QED
      BY <1>3, <3>2
  <2> QED
    BY <2>1, <2>2
<1> QED
  BY <1>2, <1>3, <1>4

\* How far one has to go on, around a circle, to come to a place of it.
LEMMA WayAround ==
  ASSUME NEW a \in Nat \ {0}, NEW from \in Nat, NEW to \in 0..(a - 1)
  PROVE  \E d \in 0..(a - 1) : (from + d) % a = to
<1>1. PICK p \in Nat, t \in Nat : from = p * a + t /\ t < a
  BY DivMod, DivBounds
<1>2. CASE t <= to
  <2> DEFINE d == to - t
  <2>1. d \in 0..(a - 1) /\ t + d = to
    BY <1>1, <1>2
  <2>2. from + d = p * a + to /\ from + d \in Nat
    <3>1. p * a \in Nat
      BY <1>1
    <3> QED
      BY <1>1, <2>1, <3>1
  <2> HIDE DEF d
  <2>3. (from + d) % a = to
    <3>1. PICK x \in Nat : x = from + d
      BY <2>2
    <3>2. to \in Nat /\ to < a /\ x = p * a + to
      BY <2>2, <3>1
    <3>3. x % a = to
      BY <1>1, <3>2, RemainderIs
    <3> QED
      BY <3>1, <3>3
  <2> QED
    BY <2>1, <2>3
<1>3. CASE ~(t <= to)
  <2> DEFINE d == a + to - t
  <2>1. d \in 0..(a - 1) /\ t + d = a + to
    BY <1>1, <1>3
  <2>2. from + d = (p + 1) * a + to /\ from + d \in Nat
    <3>1. p * a \in Nat /\ (p + 1) * a = p * a + a
      BY <1>1
    <3> QED
      BY <1>1, <2>1, <3>1
  <2> HIDE DEF d
  <2>3. p + 1 \in Nat
    BY <1>1
  <2>4. (from + d) % a = to
    <3>1. PICK x \in Nat, q \in Nat : x = from + d /\ q = p + 1
      BY <2>2, <2>3
    <3>2. to \in Nat /\ to < a /\ x = q * a + to
      BY <2>2, <3>1
    <3>3. x % a = to
      BY <3>2, RemainderIs
    <3> QED
      BY <3>1, <3>3
  <2> QED
    BY <2>1, <2>4
<1> QED
  BY <1>2, <1>3

\* To go on from where the remainder is, or from where it was taken.
LEMMA RemainderFirst ==
  ASSUME NEW a \in Nat \ {0}, NEW from \in Nat, NEW d \in Nat
  PROVE  ((from % a) + d) % a = (from + d) % a
<1>1. PICK p \in Nat, t \in Nat : from = p * a + t /\ t < a /\ t = from % a
  BY DivMod, DivBounds
<1>2. PICK q \in Nat, r \in Nat : t + d = q * a + r /\ r < a
  <2>1. t + d \in Nat
    BY <1>1
  <2> QED
    BY <2>1, DivMod, DivBounds
<1>3. from + d = (p + q) * a + r /\ from + d \in Nat /\ p + q \in Nat
  <2>1. (p + q) * a = p * a + q * a /\ p * a \in Nat /\ q * a \in Nat
    BY <1>1, <1>2
  <2> QED
    BY <1>1, <1>2, <2>1
<1>4. (from + d) % a = r
  BY <1>2, <1>3, RemainderIs
<1>5. (t + d) % a = r
  <2>1. t + d \in Nat
    BY <1>1
  <2> QED
    BY <1>2, <2>1, RemainderIs
<1> QED
  BY <1>1, <1>4, <1>5

\* In the turn of a path some request carries a series.
LEMMA TurnCarries ==
  ASSUME NEW series \in 0..(ActiveSeries - 1), NEW path \in 0..(PathCount - 1)
  PROVE  \E n \in 0..(cycleLen * PathCount - 1) : series \in SeriesOf(n) /\ pathIndex(n) = path
<1>1. PICK a \in Nat \ {0}, s \in Nat \ {0}, k \in Nat \ {0}, c \in Nat \ {0} :
        a = ActiveSeries /\ s = SeriesPerRequest /\ k = PathCount /\ c = cycleLen /\ c * s >= a
  BY CountsAssumption, CycleCovers
<1>2. path \in Nat /\ path < k /\ path * c \in Nat
  BY <1>1
<1>3. PICK from \in Nat : from = (path * c) * s
  BY <1>1, <1>2
<1>4. PICK d \in 0..(a - 1) : (from + d) % a = series
  <2>1. PICK to \in 0..(a - 1) : to = series
    BY <1>1
  <2>2. \E d \in 0..(a - 1) : (from + d) % a = to
    BY WayAround
  <2> QED
    BY <2>1, <2>2
<1>5. PICK q \in Nat, i \in Nat : d = q * s + i /\ i < s
  <2>1. d \in Nat
    OBVIOUS
  <2>2. d % s \in Nat /\ d % s < s /\ d \div s \in Nat /\ d = (d \div s) * s + (d % s)
    BY <2>1, DivMod, DivBounds
  <2> QED
    BY <2>2
<1>6. q < c
  <2>1. CASE q >= c
    <3>1. PICK e \in Nat : q = c + e
      <4>1. q - c \in Nat /\ q = c + (q - c)
        BY <1>1, <1>5, <2>1
      <4> QED
        BY <4>1
    <3>2. q * s = c * s + e * s /\ c * s \in Nat /\ e * s \in Nat
      BY <1>1, <3>1
    <3> QED
      BY <1>1, <1>4, <1>5, <3>2
  <2> QED
    BY <1>1, <1>5, <2>1
<1> DEFINE n == path * c + q
<1>7. n \in 0..(c * k - 1)
  <2>1. PICK e \in Nat : k = path + 1 + e
    <3>1. k - (path + 1) \in Nat /\ k = path + 1 + (k - (path + 1))
      BY <1>1, <1>2
    <3> QED
      BY <3>1
  <2>2. c * k = path * c + c + e * c /\ e * c \in Nat
    BY <1>1, <1>2, <2>1
  <2> QED
    BY <1>1, <1>2, <1>5, <1>6, <2>2
<1>8. n \in Nat /\ n \div c = path
  BY <1>1, <1>2, <1>5, <1>6, <1>7, RemainderIs
<1>9. pathIndex(n) = path
  <2>1. path % k = path
    <3>1. path = 0 * k + path
      BY <1>1, <1>2
    <3> QED
      BY <1>1, <1>2, <3>1, RemainderIs
  <2> HIDE DEF n
  <2> QED
    BY <1>1, <1>8, <2>1 DEF pathIndex
<1>10. n * s + i = from + d
  BY <1>1, <1>2, <1>3, <1>5
<1>11. (((n * s) % a) + i) % a = series
  <2>1. n * s \in Nat
    BY <1>1, <1>8
  <2> HIDE DEF n
  <2>2. (((n * s) % a) + i) % a = (n * s + i) % a
    BY <1>1, <1>5, <2>1, RemainderFirst
  <2> QED
    BY <1>4, <1>10, <2>2
<1>12. series \in SeriesOf(n)
  <2>1. i \in 0..(s - 1)
    BY <1>1, <1>5
  <2> HIDE DEF n
  <2> QED
    BY <1>1, <1>11, <2>1 DEF SeriesOf
<1> HIDE DEF n
<1> QED
  BY <1>1, <1>7, <1>9, <1>12

LEMMA InvEveryPathCarries == GeneratorInv => EveryPathCarriesEverySeries
<1> SUFFICES ASSUME GeneratorInv, requestSeq >= cycleLen * PathCount,
                    NEW series \in 0..(ActiveSeries - 1), NEW path \in 0..(PathCount - 1)
             PROVE  \E r \in sent : series \in SeriesOf(r.seq) /\ pathIndex(r.seq) = path
  BY DEF EveryPathCarriesEverySeries
<1>1. PICK n \in 0..(cycleLen * PathCount - 1) : series \in SeriesOf(n) /\ pathIndex(n) = path
  BY TurnCarries
<1>2. cycleLen * PathCount \in Nat /\ requestSeq \in Nat
  BY CycleCovers, CountsAssumption DEF GeneratorInv, GeneratorTypes
<1>3. n \in 0..(requestSeq - 1)
  BY <1>2
<1> QED
  BY <1>1, <1>3 DEF GeneratorInv, SentOK

\* Type correctness of the load generator, for every number of workers: a worker has something
\* to count just while it counts, and no round goes beyond one request of each worker
\* (runWorker of main.go).
THEOREM GeneratorTypeCorrect == GeneratorSpec => []GeneratorTypeOK
<1>1. GeneratorInv => GeneratorTypeOK
  BY InvGeneratorTypeOK
<1> QED
  BY <1>1, GeneratorInvariance, PTL

\* For every number of workers and whatever statuses come, those the table has no place for
\* included, the summary accounts for every request that was numbered, but
\* for one of each worker that the end of the test cut off, and its counters agree although
\* they are read one by one (observeResponse and snapshot of main.go).
THEOREM SummaryIsExact == GeneratorSpec => []SummaryExact
<1>1. GeneratorInv => SummaryExact
  BY InvSummaryExact
<1> QED
  BY <1>1, GeneratorInvariance, PTL

\* For every number of workers, a snapshot that is taken while they add lacks the outcome and
\* the latency of at most one request of each, apart from the answers that are under no status:
\* snapshot reads the requests first.
THEOREM ProgressLagIsBounded == GeneratorSpec => []ProgressLag
<1>1. GeneratorInv => ProgressLag
  BY InvProgressLag
<1> QED
  BY <1>1, GeneratorInvariance, PTL

\* Whatever the numbers of series, of series in a request and of paths, each path has carried
\* every series when all have had their turn (generateRequest of main.go).
THEOREM EveryPathIsCarried == GeneratorSpec => []EveryPathCarriesEverySeries
<1>1. GeneratorInv => EveryPathCarriesEverySeries
  BY InvEveryPathCarries
<1> QED
  BY <1>1, GeneratorInvariance, PTL
==============================================================================
