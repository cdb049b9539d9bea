-------------------------- MODULE MC_InfluxWriter --------------------------
(* InfluxWriter instantiated for TLC.  Sizes are scaled down: a latency     *)
(* line is 3 bytes, arrival and jitter lines 2, the steady size constraint *)
(* 6 bytes (so two or three lines accumulate before a size-triggered post) *)
(* and the steady time constraint 2 ms of a 4 ms clock (so time-triggered  *)
(* posts happen too).  Seven lines give a bootstrap post, several batched  *)
(* posts and a leftover for the destructor.                                *)
EXTENDS InfluxWriter

MCKinds == {"subscriber", "jitter"}
MCLineBytes == ("message_latency" :> 3) @@ ("message_arrival" :> 2)
                 @@ ("timer_activation_jitter" :> 2)
MCSizeSteady == 6
MCTimeSteady == 2
MCMaxTime == 4
MCMaxRecords == 7
\* Room for every request of a run: backpressure never builds up.
MCSrvWindow == 8
MCInboxCap == 8
\* A client receive buffer of one response and a server window of one
\* request: the responses fire-and-forget posting never reads pile up.
MCSmallWindow == 1
MCSmallInbox == 1
=============================================================================
