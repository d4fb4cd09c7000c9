-------------------------------- MODULE Config --------------------------------
(***************************************************************************)
(* What the inspector makes of its command line: normalize and the checks  *)
(* of internal/inspector/config.go, the identities of identity.go, and     *)
(* what New builds from them.  A command line is a record with the fields  *)
(* of Config, top-series labels still as they were typed.  A header and a  *)
(* label are taken without the spaces around them: absent and blank are    *)
(* both "".                                                                *)
(***************************************************************************)
EXTENDS StateCache, Integers, SequencesExt

CONSTANTS
  Limits,          \* the names of the options for which 0 and less mean the default
  DefaultLimit,    \* the default of each of them
  DefaultCacheSize,
  BytesPerEntry,   \* estimatedBytesPerEntry
  MaxInt,          \* the largest int of the build
  DefaultShards,   \* defaultCacheShards
  MalformedNames,  \* the names labelNameRE does not match
  DunderNames      \* the names that begin with two underscores

ASSUME LimitsAssumption ==
  /\ "MaxIdentityLength" \in Limits
  /\ DefaultLimit \in [Limits -> Nat \ {0}]
ASSUME SizesAssumption ==
  /\ DefaultCacheSize \in Nat \ {0} /\ BytesPerEntry \in Nat \ {0} /\ MaxInt \in Nat \ {0}
  /\ DefaultCacheSize <= MaxInt /\ DefaultShards \in Nat \ {0}

unknownIdentity == "unknown"

------------------------------------------------------------------------------
(* Identities.                                                              *)

Supported == {"tenant", "pipeline_sink", "input_path", "writer_id"}

\* NewIdentitySet refuses the others, and a name given twice.
ValidIdentities(names) == ToSet(names) \subseteq Supported /\ IsInjective(names)

\* Slip of Has: the search ends at the first definition.
HasAsFirst(names, name) == names # << >> /\ names[1] = name

Has(names, name) == \E n \in DOMAIN names : names[n] = name

\* A value is cut to so many bytes.
truncateIdentityValue(value, maxLen) ==
  IF Len(value) <= maxLen THEN value ELSE SubSeq(value, 1, maxLen)

\* The first of the headers of an identity that is not blank gives its value.
Resolve(cfg, headers) ==
  [name \in ToSet(cfg.identities) |->
     LET given == SelectSeq(headers[name], LAMBDA raw : raw # "") IN
     IF given = << >> THEN unknownIdentity
                      ELSE truncateIdentityValue(given[1], cfg.limits["MaxIdentityLength"])]

GetIdentity(identity, name) == IF name \in DOMAIN identity THEN identity[name] ELSE unknownIdentity

------------------------------------------------------------------------------
(* Top-series labels.                                                       *)

\* The flag is refused while it is parsed.
Unparsable(label) == label.source = "" \/ (label.mapped /\ label.output = "")

\* "source" alone stands for "source=source_source".
ParseTopSeriesLabel(label) ==
  [ Source |-> label.source,
    Output |-> IF label.mapped THEN label.output ELSE "source_" \o label.source ]

Outputs(cfg) == [n \in DOMAIN cfg.labels |-> cfg.labels[n].Output]
Sources(cfg) == [n \in DOMAIN cfg.labels |-> cfg.labels[n].Source]

\* Slip of reserved: the labels of the metric, and not what only the log has.
reservedInMetric(cfg) ==
  {"reason", "series_name", "host_name", "series_fingerprint"} \cup ToSet(cfg.identities)

reserved(cfg) ==
  { "__name__", "component", "event", "host_name", "incoming_value", "incoming_value_bits",
    "labels", "labels_truncated", "previous_value", "previous_value_bits", "reason",
    "sample_timestamp_ms", "sample_type", "series_fingerprint", "series_name",
    "value_delta" } \cup ToSet(cfg.identities)

ValidTopSeriesLabels(cfg) ==
  /\ (ToSet(Sources(cfg)) \cup ToSet(Outputs(cfg))) \cap MalformedNames = {}
  /\ IsInjective(Sources(cfg)) /\ IsInjective(Outputs(cfg))
  /\ ToSet(Outputs(cfg)) \cap reserved(cfg) = {}

\* The labels of a row of the top series.
RowLabels(cfg) ==
  cfg.identities \o << "reason", "series_name", "host_name", "series_fingerprint" >> \o Outputs(cfg)

\* The attributes of the record of a finding that has every kind of evidence, with
\* the one the logger brings.
LogKeys(cfg) ==
  << "component", "event", "reason", "series_name", "host_name", "series_fingerprint", "labels",
     "labels_truncated" >>
  \o cfg.identities \o Outputs(cfg)
  \o << "sample_timestamp_ms", "sample_type", "previous_value_bits", "previous_value",
        "incoming_value_bits", "incoming_value", "value_delta" >>

\* What the registry takes for the labels of a metric.
Registrable(names) == IsInjective(names) /\ ToSet(names) \cap DunderNames = {}

------------------------------------------------------------------------------
(* Sizes.                                                                   *)

\* Slip of crossPathActive: the detector is counted whether it has its identity or not.
crossPathEnabled(flags) == ~flags.disableCrossPath

crossPathActive(flags) == ~flags.disableCrossPath /\ "input_path" \in ToSet(flags.identities)

activeStatefulDetectors(flags) ==
  (IF flags.disableDuplicate THEN 0 ELSE 1) + (IF crossPathActive(flags) THEN 1 ELSE 0)

\* At least one entry for each, and no more than an int holds.
cacheSizeFromMemoryBudget(bytes, activeCaches) ==
  IF activeCaches = 0 THEN 0
  ELSE LET entries == bytes \div (activeCaches * BytesPerEntry) IN
       IF entries < 1 THEN 1 ELSE IF entries > MaxInt THEN MaxInt ELSE entries

cacheSize(flags) ==
  CASE flags.cacheMemoryBytes > 0 ->
         cacheSizeFromMemoryBudget(flags.cacheMemoryBytes, activeStatefulDetectors(flags))
    [] flags.cacheMemoryBytes <= 0 /\ flags.cacheSize <= 0 -> DefaultCacheSize
    [] OTHER -> flags.cacheSize

\* Slip of limit: a zero is taken at its word.
limitUnlessNegative(flags, name) ==
  IF flags.limits[name] < 0 THEN DefaultLimit[name] ELSE flags.limits[name]

limit(flags, name) == IF flags.limits[name] <= 0 THEN DefaultLimit[name] ELSE flags.limits[name]

normalize(flags) ==
  [flags EXCEPT !.limits = [name \in Limits |-> limit(flags, name)],
                !.cacheSize = cacheSize(flags),
                !.labels = [n \in DOMAIN flags.labels |-> ParseTopSeriesLabel(flags.labels[n])]]

------------------------------------------------------------------------------
(* New.                                                                     *)

ValidCapture(capture) ==
  /\ capture.Duration > 0 /\ capture.MaxSamples > 0 /\ capture.Rate > 0
  /\ capture.LabelBytes >= 2
  /\ capture.constrained   \* the selector parses, and cannot match the absence of labels

\* logSampleRate is in percent.  Capture is off without a selector.
Acceptable(cfg) ==
  /\ ValidTopSeriesLabels(cfg)
  /\ cfg.logSampleRate \in 0..100
  /\ cfg.logFirstExamples >= 0
  /\ ValidIdentities(cfg.identities)
  /\ Registrable(RowLabels(cfg))
  /\ cfg.capture.selected => ValidCapture(cfg.capture)

\* newStateCache: of the cache it gives only the sizes of the shards are of interest here.
ShardSizes(maxEntries) ==
  LET size == IF maxEntries <= 0 THEN 1 ELSE maxEntries
      count == ShardCount(size, DefaultShards)
  IN [idx \in 0..(count - 1) |-> ShardSize(size, count, idx)]

\* The detectors that get a cache.
CachesOf(cfg) ==
  (IF cfg.disableDuplicate THEN {} ELSE {"sample_conflicts"})
    \cup (IF ~cfg.disableCrossPath /\ Has(cfg.identities, "input_path") THEN {"cross_path"} ELSE {})

\* cache_capacity_entries and the caches.
New(cfg) ==
  [ cfg |-> cfg,
    capacity |-> [c \in CachesOf(cfg) |-> cfg.cacheSize],
    caches |-> [c \in CachesOf(cfg) |-> ShardSizes(cfg.cacheSize)] ]

\* The caches an inspection looks into for a request of this identity: the samples unless
\* that is disabled, the paths if the request names one.
LooksInto(cfg, identity) ==
  (IF cfg.disableDuplicate THEN {} ELSE {"sample_conflicts"})
    \cup (IF ~cfg.disableCrossPath /\ GetIdentity(identity, "input_path") # unknownIdentity
          THEN {"cross_path"} ELSE {})
==============================================================================
