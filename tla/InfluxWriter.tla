----------------------------- MODULE InfluxWriter -----------------------------
(***************************************************************************)
(* rclcpp::InfluxDBMeasurementWriter (influxdb_measurement_writer.cpp)     *)
(* together with the tracker that owns it and the InfluxDB server at the   *)
(* other end of its socket.                                                *)
(*                                                                         *)
(* Each tracker owns one writer (the factories make a fresh writer per     *)
(* tracker).  A SubscriberMessageTracker records a latency line and then   *)
(* an arrival line per message; an ActivationJitterTracker records one     *)
(* jitter line per timer activation.  After every line maybe_upload asks   *)
(* the heuristic, and on "yes" posts the whole builder buffer with         *)
(* await_post_response_ = false, clears it and raises the thresholds.  The *)
(* destructor posts what is left with await_post_response_ = true and      *)
(* reads one response.                                                     *)
(*                                                                         *)
(* The builder's text is abstracted to its lines: a line is [id, key],    *)
(* id numbering the lines in record order.  Its size in bytes is           *)
(* LineBytes[key] plus the '\n' that builder::meas writes before every     *)
(* line but the first.  The write of a request is atomic here (HttpWrite   *)
(* shows the writev loop delivers the bytes in order): it succeeds when    *)
(* the server's receive window has room, blocks otherwise, and may fail    *)
(* at any time with -6 once the connection is broken or reset.            *)
(*                                                                         *)
(* The server: srvQueue holds the requests it has received and not yet    *)
(* processed (at most SrvWindow, the TCP window), it processes them in     *)
(* order and sends one response each into the client's receive buffer     *)
(* `inbox`, which holds at most InboxCap unread responses.                 *)
(***************************************************************************)
EXTENDS Integers, Sequences, SequencesExt, UploadHeuristic

CONSTANTS
  Kinds,          \* tracker types that own a writer: "subscriber", "jitter"
  LineBytes,      \* [measurement name -> bytes of one line of it]
  SizeSteady,     \* the size constraint set after an upload (64000)
  TimeSteady,     \* the time constraint set after an upload (15000 ms)
  MaxTime,        \* bound on the steady clock, in ms
  MaxRecords,     \* bound on the number of lines recorded
  SrvWindow,      \* requests the server side accepts before writev blocks
  InboxCap        \* unread responses the client's socket can hold

VARIABLES
  kind,           \* the tracker that owns this writer
  measurements,   \* measurements_: registered names, key k at k + 1
  keys,           \* the keys the owning tracker got from registration
  trk,            \* subscriber's progress in track_message: "idle" or "arrival"
  phase,          \* "running", "posting", "final", "awaiting", "closed"
  buffer,         \* influx_builder_'s lines
  nextId,         \* id of the next line recorded
  heur,           \* heuristic_
  now,            \* steady clock, ms
  await,          \* server_info_->await_post_response_
  connOk,         \* FALSE once a write has failed: the socket is broken
  srvQueue,       \* requests received by the server, not yet processed
  inbox,          \* responses (request numbers) sent back, not yet read
  delivered,      \* ids of lines the server has processed, in order
  reqCount,       \* requests written so far
  finalReq,       \* number of the destructor's request (0: none)
  awaited         \* number of the response the destructor read (0: none)

vars == <<kind, measurements, keys, trk, phase, buffer, nextId, heur, now, await,
          connOk, srvQueue, inbox, delivered, reqCount, finalReq, awaited>>

Names == DOMAIN LineBytes

MaxLineBytes == Max({LineBytes[n] : n \in Names})

Name(line) == measurements[line.key + 1]

Ids(buf) == [i \in 1..Len(buf) |-> buf[i].id]

\* builder::getBufferSize: the bytes of the lines plus a '\n' between two.
BufferSize(buf) ==
  IF buf = <<>> THEN 0
  ELSE FoldSeq(LAMBDA l, acc : acc + LineBytes[Name(l)], 0, buf) + Len(buf) - 1

-----------------------------------------------------------------------------
(* The writer *)

\* Mutation: the constructor starts from the steady-state thresholds.
InitialHeuristicSteady == SetLastUploadTime(NewHeuristic(TimeSteady, SizeSteady), 0)

\* Constructor: heuristic (0 ms, 0 bytes) and set_last_upload_time().
InitialHeuristic == SetLastUploadTime(NewHeuristic(0, 0), 0)

\* Mutation: register_measurement_class returns the new size as the key.
RegisterKeyOffByOne(ms, name) == [ms |-> Append(ms, name), key |-> Len(ms) + 1]

\* register_measurement_class: emplace_back the name, return size() - 1.
RegisterMeasurementClass(ms, name) ==
  [ms |-> Append(ms, name), key |-> Len(Append(ms, name)) - 1]

\* SubscriberMessageTracker's constructor registers the latency and the
\* arrival class and keeps both keys.
SubscriberRegistration ==
  LET r1 == RegisterMeasurementClass(<<>>, "message_latency")
      r2 == RegisterMeasurementClass(r1.ms, "message_arrival")
  IN  [ms |-> r2.ms, keys |-> <<r1.key, r2.key>>]

\* ActivationJitterTracker's constructor registers its one class.
JitterRegistration ==
  LET r1 == RegisterMeasurementClass(<<>>, "timer_activation_jitter")
  IN  [ms |-> r1.ms, keys |-> <<r1.key>>]

\* The writer's registry after the constructor of a tracker of kind k.
TrackerRegistration(k) ==
  IF k = "subscriber" THEN SubscriberRegistration ELSE JitterRegistration

Init ==
  /\ kind \in Kinds
  /\ measurements = TrackerRegistration(kind).ms
  /\ keys = TrackerRegistration(kind).keys
  /\ trk = "idle"
  /\ phase = "running"
  /\ buffer = <<>>
  /\ nextId = 1
  /\ heur = InitialHeuristic
  /\ now = 0
  /\ await = FALSE
  /\ connOk = TRUE
  /\ srvQueue = <<>>
  /\ inbox = <<>>
  /\ delivered = <<>>
  /\ reqCount = 0
  /\ finalReq = 0
  /\ awaited = 0

\* builder::clear: lines_.str({}) empties the buffer.
Clear(buf) == <<>>

\* Mutation: maybe_upload consults only the time constraint.
ShouldUploadTimeOnly(h, t, size) == t - h.last > h.timeC

\* maybe_upload's question to heuristic_.
UploadDue(h, t, size) == ShouldUpload(h, t, size)

\* The record_* calls: builder.meas()...timestamp() appends one line, then
\* maybe_upload: on "yes", set_last_upload_time and start post_http.
RecordLine(key) ==
  LET buf == Append(buffer, [id |-> nextId, key |-> key])
  IN  /\ buffer' = buf
      /\ nextId' = nextId + 1
      /\ IF UploadDue(heur, now, BufferSize(buf))
           THEN /\ heur' = SetLastUploadTime(heur, now)
                /\ phase' = "posting"
           ELSE UNCHANGED <<heur, phase>>

\* The rest of maybe_upload once post_http returns, whatever it returned:
\* influx_builder_.clear() and updateHeuristic(64000, 15000).
FinishUpload ==
  /\ buffer' = Clear(buffer)
  /\ heur' = UpdateHeuristic(heur, <<TRUE, SizeSteady>>, <<TRUE, TimeSteady>>)
  /\ phase' = "running"

\* SubscriberMessageTracker::track_message, first half: record_latency.
TrackMessage ==
  /\ kind = "subscriber"
  /\ phase = "running"
  /\ trk = "idle"
  /\ nextId <= MaxRecords
  /\ RecordLine(keys[1])
  /\ trk' = "arrival"
  /\ UNCHANGED <<kind, measurements, keys, now, await, connOk, srvQueue, inbox,
                 delivered, reqCount, finalReq, awaited>>

\* SubscriberMessageTracker::track_message, second half: record_arrival
\* (after any upload record_latency started has returned).
RecordArrival ==
  /\ phase = "running"
  /\ trk = "arrival"
  /\ RecordLine(keys[2])
  /\ trk' = "idle"
  /\ UNCHANGED <<kind, measurements, keys, now, await, connOk, srvQueue, inbox,
                 delivered, reqCount, finalReq, awaited>>

\* ActivationJitterTracker::track_jitter: record_activation_jitter.
TrackJitter ==
  /\ kind = "jitter"
  /\ phase = "running"
  /\ nextId <= MaxRecords
  /\ RecordLine(keys[1])
  /\ UNCHANGED <<kind, measurements, keys, trk, now, await, connOk, srvQueue, inbox,
                 delivered, reqCount, finalReq, awaited>>

\* Mutation: the buffer is cleared before the request body is taken from it.
PostWrittenClearedFirst ==
  /\ phase = "posting"
  /\ connOk
  /\ Len(srvQueue) < SrvWindow
  /\ srvQueue' = Append(srvQueue, [n |-> reqCount + 1, lines |-> Ids(Clear(buffer))])
  /\ reqCount' = reqCount + 1
  /\ FinishUpload
  /\ UNCHANGED <<kind, measurements, keys, trk, nextId, now, await, connOk, inbox,
                 delivered, finalReq, awaited>>

\* post_http's writev loop completes: the request is in the server's queue;
\* the caller does not look at the response.
PostWritten ==
  /\ phase = "posting"
  /\ connOk
  /\ Len(srvQueue) < SrvWindow
  /\ srvQueue' = Append(srvQueue, [n |-> reqCount + 1, lines |-> Ids(buffer)])
  /\ reqCount' = reqCount + 1
  /\ FinishUpload
  /\ UNCHANGED <<kind, measurements, keys, trk, nextId, now, await, connOk, inbox,
                 delivered, finalReq, awaited>>

\* writev returns -1 (reset or broken pipe): post_http returns -6, which
\* maybe_upload ignores; the buffer is cleared all the same.
PostFailed ==
  /\ phase = "posting"
  /\ connOk' = FALSE
  /\ FinishUpload
  /\ UNCHANGED <<kind, measurements, keys, trk, nextId, now, await, srvQueue, inbox,
                 delivered, reqCount, finalReq, awaited>>

\* Mutation: the destructor uploads only a buffer of more than one line.
FinalUploadDue(buf) == Len(buf) > 1

\* The destructor's test: influx_builder_.getBufferSize() > 0.
FinalUploadNeeded(buf) == BufferSize(buf) > 0

\* ~InfluxDBMeasurementWriter: with a non-empty buffer, set
\* await_post_response_ and post; with an empty one, return at once.
Shutdown ==
  /\ phase = "running"
  /\ trk = "idle"
  /\ IF FinalUploadNeeded(buffer)
       THEN /\ await' = TRUE
            /\ phase' = "final"
       ELSE /\ phase' = "closed"
            /\ UNCHANGED await
  /\ UNCHANGED <<kind, measurements, keys, trk, buffer, nextId, heur, now, connOk,
                 srvQueue, inbox, delivered, reqCount, finalReq, awaited>>

\* The destructor's post: the write completes and the call goes on to
\* read a response.
FinalWritten ==
  /\ phase = "final"
  /\ connOk
  /\ Len(srvQueue) < SrvWindow
  /\ srvQueue' = Append(srvQueue, [n |-> reqCount + 1, lines |-> Ids(buffer)])
  /\ reqCount' = reqCount + 1
  /\ finalReq' = reqCount + 1
  /\ phase' = "awaiting"
  /\ UNCHANGED <<kind, measurements, keys, trk, buffer, nextId, heur, now, await,
                 connOk, inbox, delivered, awaited>>

\* The destructor's write fails: -6 is printed, nothing is read.
FinalFailed ==
  /\ phase = "final"
  /\ connOk' = FALSE
  /\ phase' = "closed"
  /\ UNCHANGED <<kind, measurements, keys, trk, buffer, nextId, heur, now, await,
                 srvQueue, inbox, delivered, reqCount, finalReq, awaited>>

\* recv returns the first response in the socket; the parser stops after
\* one response, the destructor prints its code and the socket is closed.
ReadResponse ==
  /\ phase = "awaiting"
  /\ inbox # <<>>
  /\ awaited' = Head(inbox)
  /\ inbox' = Tail(inbox)
  /\ phase' = "closed"
  /\ UNCHANGED <<kind, measurements, keys, trk, buffer, nextId, heur, now, await,
                 connOk, srvQueue, delivered, reqCount, finalReq>>

-----------------------------------------------------------------------------
(* The environment: the steady clock and the server *)

Tick ==
  /\ now < MaxTime
  /\ now' = now + 1
  /\ UNCHANGED <<kind, measurements, keys, trk, phase, buffer, nextId, heur, await,
                 connOk, srvQueue, inbox, delivered, reqCount, finalReq, awaited>>

\* The server processes its oldest request and answers it; it blocks while
\* the client's receive buffer is full.
ServerProcess ==
  /\ srvQueue # <<>>
  /\ Len(inbox) < InboxCap
  /\ delivered' = delivered \o Head(srvQueue).lines
  /\ inbox' = Append(inbox, Head(srvQueue).n)
  /\ srvQueue' = Tail(srvQueue)
  /\ UNCHANGED <<kind, measurements, keys, trk, phase, buffer, nextId, heur, now,
                 await, connOk, reqCount, finalReq, awaited>>

\* The writer has been destroyed; nothing more happens on its side.
Closed ==
  /\ phase = "closed"
  /\ UNCHANGED vars

Next ==
  \/ TrackMessage \/ RecordArrival \/ TrackJitter
  \/ PostWritten \/ PostFailed
  \/ Shutdown \/ FinalWritten \/ FinalFailed \/ ReadResponse
  \/ Tick \/ ServerProcess \/ Closed

\* The server keeps working while the writer's socket is open, and a
\* blocked writev resumes once the server side has room; record calls,
\* failures and shutdown are not forced.  Nothing is assumed of the
\* server once the destructor has closed the socket: closing with
\* responses unread resets the connection.
Fairness ==
  /\ WF_vars(ServerProcess /\ phase # "closed")
  /\ WF_vars(PostWritten)
  /\ WF_vars(FinalWritten)
  /\ WF_vars(ReadResponse)

Spec == Init /\ [][Next]_vars /\ Fairness

-----------------------------------------------------------------------------
(* Properties *)

TypeOK ==
  /\ kind \in Kinds
  /\ measurements \in Seq(Names)
  /\ trk \in {"idle", "arrival"}
  /\ phase \in {"running", "posting", "final", "awaiting", "closed"}
  /\ keys \in Seq(0..(Len(measurements) - 1))
  /\ buffer \in Seq([id : Nat, key : 0..(Len(measurements) - 1)])
  /\ nextId \in Nat
  /\ heur \in [last : Nat, sizeC : Nat, timeC : Nat]
  /\ now \in 0..MaxTime
  /\ await \in BOOLEAN
  /\ connOk \in BOOLEAN
  /\ delivered \in Seq(Nat)
  /\ {reqCount, finalReq, awaited} \subseteq Nat

\* The bootstrap workaround (constructor's 0 ms / 0 bytes thresholds): the
\* first request written on a fresh connection carries exactly one line.
FirstRequestOneLine ==
  [][reqCount = 0 /\ reqCount' = 1 => Len(buffer) = 1]_vars

\* maybe_upload after every line keeps each request body at most one line
\* over the steady size constraint.
PayloadBounded ==
  [][reqCount' = reqCount + 1 => BufferSize(buffer) <= SizeSteady + 1 + MaxLineBytes]_vars

\* The refinement mapping onto TelemetrySink: a line is sent once its
\* request is written to the socket (queued at the server or processed),
\* pending while it is in the builder's buffer and not yet written, and
\* dropped otherwise or once the writer, and its buffer, is destroyed; the sink has failed once a write has failed.
Written == delivered \o FlattenSeq([i \in 1..Len(srvQueue) |-> srvQueue[i].lines])

Sink == INSTANCE TelemetrySink WITH
          next    <- nextId,
          sent    <- Written,
          dropped <- {id \in 1..(nextId - 1) \ ToSet(Written) :
                        id \notin ToSet(Ids(buffer)) \/ phase = "closed"},
          failed  <- ~connOk,
          closed  <- phase = "closed"

\* InfluxDBMeasurementWriter implements TelemetrySink: every record_*,
\* maybe_upload post (written or failed) and destructor step writes each
\* line at most once and in record order, and gives lines up only with a
\* failed write, including the destructor's.
ImplementsTelemetrySink == Sink!Spec

\* Spec section 7: a failed write leaves the buffer for a later retry, so a
\* line recorded is either still buffered or written to the server.
NoSilentLoss ==
  \A id \in 1..(nextId - 1) :
    \/ id \in ToSet(Ids(buffer))
    \/ \E r \in ToSet(srvQueue) : id \in ToSet(r.lines)
    \/ id \in ToSet(delivered)

\* The destructor's comment: awaiting the response completes the final
\* request in full before the socket is closed.  When the destructor
\* returns after writing its request, the server has processed it.
ShutdownWaitsForFinalBatch ==
  (phase = "closed" /\ finalReq # 0) =>
     \A r \in ToSet(srvQueue) : r.n # finalReq

=============================================================================
