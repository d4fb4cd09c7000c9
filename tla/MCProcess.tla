------------------------------- MODULE MCProcess -------------------------------
(* Command lines around every decision of the configuration, two connections,  *)
(* and headers that are blank, long, or cut to the word for an unknown value.  *)
EXTENDS Process

MCDefaultLimit == [name \in Limits |-> IF name = "MaxIdentityLength" THEN 7 ELSE 8]

label(source, mapped, output) == [source |-> source, mapped |-> mapped, output |-> output]

Capture == [ selected |-> FALSE, Duration |-> 5, MaxSamples |-> 9, Rate |-> 1, LabelBytes |-> 2,
             constrained |-> TRUE ]

Plain == [ limits |-> [name \in Limits |-> 1], cacheSize |-> 3, cacheMemoryBytes |-> 0,
           identities |-> << "input_path", "tenant" >>, labels |-> << >>,
           disableDuplicate |-> FALSE, disableCrossPath |-> FALSE,
           logSampleRate |-> 1, logFirstExamples |-> 0, capture |-> Capture, showVersion |-> FALSE ]

WithLimits ==
  {[Plain EXCEPT !.limits = [name \in Limits |-> IF name = "MaxIdentityLength" THEN l ELSE m]] :
     l \in {-1, 0, 1, 7}, m \in {-1, 0, 1}}
WithCaches ==
  {[Plain EXCEPT !.cacheSize = size, !.cacheMemoryBytes = bytes, !.identities = names,
                 !.disableDuplicate = duplicate, !.disableCrossPath = cross] :
     size \in {0, 3}, bytes \in {0, 1, 5, 8, 11, 13, 40},
     names \in {<< >>, << "tenant" >>, << "tenant", "input_path" >>},
     duplicate \in BOOLEAN, cross \in BOOLEAN}
WithIdentities ==
  {[Plain EXCEPT !.identities = names] :
     names \in {<< "writer_id", "input_path", "pipeline_sink" >>, << "tenant", "tenant" >>, << "host" >>}}
WithLabels ==
  {[Plain EXCEPT !.labels = labels] :
     labels \in {<< label("zone", FALSE, "") >>, << label("zone", TRUE, "region") >>,
                 << label("", FALSE, "") >>, << label("zone", TRUE, "") >>,
                 << label("a-b", FALSE, "") >>, << label("zone", TRUE, "a-b") >>,
                 << label("zone", TRUE, "tenant") >>, << label("zone", TRUE, "reason") >>,
                 << label("zone", TRUE, "value_delta") >>, << label("zone", TRUE, "labels") >>,
                 << label("zone", TRUE, "event") >>, << label("zone", TRUE, "writer_id") >>,
                 << label("zone", TRUE, "__zone") >>, << label("__name__", TRUE, "metric") >>,
                 << label("zone", FALSE, ""), label("zone", TRUE, "region") >>,
                 << label("zone", FALSE, ""), label("region", TRUE, "source_zone") >>}}
WithLogging ==
  {[Plain EXCEPT !.logSampleRate = rate, !.logFirstExamples = first] : rate \in {-1, 0, 100, 101}, first \in {-1, 0}}
WithCapture ==
  {[Plain EXCEPT !.capture = [Capture EXCEPT !.selected = TRUE, !.Duration = d, !.Rate = r,
                                             !.LabelBytes = b, !.constrained = c]] :
     d \in {0, 5}, r \in {0, 1}, b \in {1, 2}, c \in BOOLEAN}

MCCommands ==
  WithLimits \cup WithCaches \cup WithIdentities \cup WithLabels \cup WithLogging \cup WithCapture
    \cup {[Plain EXCEPT !.showVersion = TRUE]}

MCHeaderSets ==
  {[name \in Supported |-> << "", "unknowns", "b" >>],
   [name \in Supported |-> IF name = "input_path" THEN << "", "", "path" >> ELSE << "", "", "" >>]}
================================================================================
