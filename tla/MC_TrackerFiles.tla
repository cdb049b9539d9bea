--------------------------- MODULE MC_TrackerFiles ---------------------------
(***************************************************************************)
(* Node n publishes on topic c; a subscription of n to c and a timer      *)
(* attached to n are each built with any tracker option (real or NONE)   *)
(* and any of the four writer options.                                    *)
(***************************************************************************)
EXTENDS TrackerFiles, TLC

\* A subscription to topic c in node n of namespace /s.
MCSubs == {"sub"}
MCSubHost == "sub" :> [topic |-> <<"c">>, name |-> <<"n">>, ns |-> <<"/", "s">>]

\* A timer built with TimerOptions(node) for that node.
MCTimers == {"tmr"}
MCTimerOpts == "tmr" :> [node |-> [ns |-> <<"/", "s">>, name |-> <<"n">>], dist |-> <<>>, addr |-> <<>>]

\* Every MessageTrackerEnum a subscription's factory can be given that
\* yields a subscription tracker, and every MeasurementWriterEnum.
MCWriterOpts == {"influx", "file", "print", "none"}
MCSubOpts == [tracker : {"subscriber", "none"}, writer : MCWriterOpts]

\* Every JitterTrackerEnum and MeasurementWriterEnum; TimerOptions'
\* default is ACTIVATION_JITTER with INFLUXDB.
MCJitterOpts == [tracker : {"activation_jitter", "none"}, writer : MCWriterOpts]

MCMaxRows == 1
=============================================================================
