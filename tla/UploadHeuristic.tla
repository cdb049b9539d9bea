--------------------------- MODULE UploadHeuristic ---------------------------
(***************************************************************************)
(* rclcpp::InfluxDBUploadHeuristic (influxdb_measurement_writer.hpp): the  *)
(* state is a record [last, sizeC, timeC] holding lastUploadTime_ (ms of   *)
(* the steady clock), sizeConstraintBytes_ and timeConstraintMS_.  The     *)
(* clock reading `now` is passed in by the module that owns the clock.    *)
(***************************************************************************)
EXTENDS Integers

\* InfluxDBUploadHeuristic(timeMS, sizeBytes): lastUploadTime_ is 0.
NewHeuristic(timeMS, sizeBytes) == [last |-> 0, sizeC |-> sizeBytes, timeC |-> timeMS]

\* should_upload: more than timeC ms since the last upload, or a buffer
\* larger than sizeC bytes (both comparisons strict).
ShouldUpload(h, now, bufferSize) ==
  \/ now - h.last > h.timeC
  \/ bufferSize > h.sizeC

\* set_last_upload_time: remember the steady clock's current reading.
SetLastUploadTime(h, now) == [h EXCEPT !.last = now]

\* updateHeuristic: each constraint is overwritten only if its flag is set.
UpdateHeuristic(h, newSize, newTime) ==
  [h EXCEPT !.sizeC = IF newSize[1] THEN newSize[2] ELSE @,
            !.timeC = IF newTime[1] THEN newTime[2] ELSE @]
=============================================================================
