--------------------------- MODULE MessageTracing ---------------------------
(***************************************************************************)
(* Message stamping along a chain of ROS 2 topics.                         *)
(*                                                                         *)
(* A publisher's tracker stamps every message it publishes:                *)
(* PublisherMessageTracker::track_message always takes the next id of its *)
(* own counter; TracingPublisherMessageTracker::track_message keeps a     *)
(* non-zero id (so a forwarded message keeps the id it got at its source) *)
(* and takes a new one only for a fresh message.  Both set the publisher  *)
(* hash and the send timestamp.  A subscriber's SubscriberMessageTracker  *)
(* records, per received message, a latency row and an arrival row        *)
(* through the writer the factory created (create_result_writer).  A      *)
(* relay node republishes what it receives on one topic through its own   *)
(* publisher on the next topic, copying the tracking variables.           *)
(*                                                                         *)
(* A message is [id, hash, ts, origin, by]: origin is the identity of    *)
(* the message a trace follows and by the publisher that stamped it last  *)
(* (neither is a field of the code); ts is the send stamp, <<origin,      *)
(* publisher>>, distinct per publish.  Hashes are [hi, lo] 16-bit halves. *)
(***************************************************************************)
EXTENDS Integers, Sequences, FiniteSets, SequencesExt, HexChars

CONSTANTS
  Pubs,        \* publishers (each has its own tracker)
  NodeOf,      \* [Pubs -> [ns, name]]: the namespace and name of its node
  Hash,        \* MurmurHash3_x86_32 (seed 0) of each string hashed, as [hi, lo]
  PubTopic,    \* [Pubs -> topic it publishes on]
  Kinds,       \* [Pubs -> set of tracker types it may have: "plain", "tracing"]
  Sources,     \* publishers whose node creates fresh messages
  Relay,       \* [topic -> publisher that forwards what arrives on it, or None]
  None,        \* no relay; no publisher has stamped the message yet
  Writers,     \* writer types a subscriber's factory may create
  MaxMsgs      \* bound on fresh messages

Topics == DOMAIN Relay

VARIABLES
  kind,      \* [Pubs -> the tracker type the factory gave each publisher]
  writer,    \* the writer type of the subscribers' trackers
  counter,   \* [Pubs -> current_msg_id]
  chan,      \* [Topics -> messages published, not yet taken by the subscriber]
  rows,      \* arrival rows written: [topic, publisher, msgId] and ghosts by, origin
  created    \* fresh messages so far

vars == <<kind, writer, counter, chan, rows, created>>

-----------------------------------------------------------------------------

\* hash_full_node_name(): strcpy the namespace, strcat the name (no
\* separator), and MurmurHash3_x86_32 of the result with seed 0, which
\* create_message_tracker passes to the publisher tracker as host_hash_.
\* MurmurHash3 is outside the repository and left uninterpreted: Hash
\* gives its values.
HostHash(p) == Hash[NodeOf[p].ns \o NodeOf[p].name]

\* message.vandenhoven_publisher_hash = host_hash_: the uint32 is stored in
\* the int32_t field, keeping its bits; 2^31 and above become negative.
ToInt32(x) == [hi |-> IF x.hi >= 2^15 THEN x.hi - 2^16 ELSE x.hi, lo |-> x.lo]

\* hex_char_array_t hexString(msg.vandenhoven_publisher_hash): the int32
\* converts back to uint32_t modulo 2^32.
ToUint32(x) == [hi |-> x.hi % 2^16, lo |-> x.lo]

\* A message as the publishing node creates it: MessageTrackingVariables
\* zero-initialised (by is the publisher that last stamped it, a ghost).
FreshMessage(o) == [id |-> 0, hash |-> [hi |-> 0, lo |-> 0], ts |-> <<>>, origin |-> o, by |-> None]

\* Mutation: the counter starts at 0, the value that means "no id yet".
FirstIdZero == 0

\* `int64_t current_msg_id = 1;`
FirstId == 1

\* Mutation: the tracing tracker overwrites every id.
StampAlways(p, m) ==
  [m EXCEPT !.id = counter[p], !.hash = ToInt32(HostHash(p)), !.ts = <<m.origin, p>>, !.by = p]

\* track_message of publisher p's tracker on message m: the timestamp, the
\* id (always for "plain"; only when the id is 0 for "tracing") and the hash.
Stamp(p, m) ==
  [m EXCEPT !.id = IF kind[p] = "plain" \/ m.id = 0 THEN counter[p] ELSE @,
            !.hash = ToInt32(HostHash(p)),
            !.ts = <<m.origin, p>>,
            !.by = p]

\* Whether the tracker took a new id: current_msg_id++.
Takes(p, m) == kind[p] = "plain" \/ m.id = 0

\* Mutation: the counter is not advanced.
NextCounterStuck(p, m) == counter

NextCounter(p, m) == IF Takes(p, m) THEN [counter EXCEPT ![p] = @ + 1] ELSE counter

\* Publisher p publishes m: its tracker stamps it, rcl_publish enqueues it.
Publish(p, m) ==
  /\ chan' = [chan EXCEPT ![PubTopic[p]] = Append(@, Stamp(p, m))]
  /\ counter' = NextCounter(p, m)

\* The columns SubscriberMessageTracker registers for its arrival class.
ArrivalColumns == <<"publisher_hash", "msg_id">>

\* FileMeasurementWriter::register_measurement_class: the CSV header line
\* is "unix_time" followed by the registered columns.
FileHeader(columns) == <<"unix_time">> \o columns

\* FileMeasurementWriter::record_arrival: output_timestamp(), the
\* publisher hash and the message's send timestamp.
FileArrivalRow(m) == <<"now", HexCharArray(ToUint32(m.hash)), m.ts>>

\* The value in the column named c of a CSV row under header h.
Column(h, row, c) == row[CHOOSE i \in DOMAIN h : h[i] = c]

\* PrintMeasurementWriter::record_arrival prints "[ publisher->name ]: (id)".
PrintArrivalId(m) == m.id

\* InfluxDBMeasurementWriter::record_arrival: field "msg_id" is the id.
InfluxArrivalId(m) == m.id

\* The msg_id an arrival row of writer type w carries for message m.
ArrivalId(w, m) ==
  CASE w = "influx" -> InfluxArrivalId(m)
    [] w = "print"  -> PrintArrivalId(m)
    [] w = "file"   -> Column(FileHeader(ArrivalColumns), FileArrivalRow(m), "msg_id")

\* A node creates a fresh message (tracking variables zero) and publishes it.
Create(p) ==
  /\ p \in Sources
  /\ created < MaxMsgs
  /\ Publish(p, FreshMessage(created + 1))
  /\ created' = created + 1
  /\ UNCHANGED <<kind, writer, rows>>

\* The subscriber of topic t takes its oldest message:
\* SubscriberMessageTracker::track_message formats the publisher hash
\* (hex_char_array_t hexString) and records latency and arrival;
\* a relay node then republishes the message on its publisher.
Deliver(t) ==
  /\ chan[t] # <<>>
  /\ LET m == Head(chan[t])
         r == [topic |-> t, publisher |-> HexCharArray(ToUint32(m.hash)), by |-> m.by, msgId |-> ArrivalId(writer, m), origin |-> m.origin]
     IN  /\ rows' = rows \cup {r}
         /\ IF Relay[t] = None
              THEN /\ chan' = [chan EXCEPT ![t] = Tail(@)]
                   /\ UNCHANGED counter
              ELSE LET p == Relay[t]
                   IN  /\ chan' = [chan EXCEPT ![t] = Tail(@),
                                               ![PubTopic[p]] = Append(@, Stamp(p, m))]
                       /\ counter' = NextCounter(p, m)
  /\ UNCHANGED <<kind, writer, created>>

\* The middleware drops a message (best-effort QoS, or a KeepLast queue
\* overflowing); the subscriber never sees it.
Lose(t) ==
  /\ chan[t] # <<>>
  /\ chan' = [chan EXCEPT ![t] = Tail(@)]
  /\ UNCHANGED <<kind, writer, counter, rows, created>>

\* MessageTrackerEnum and MeasurementWriterEnum as the uint8_t they are
\* cast to in rcl_message_tracker_options_t.
MTECode == ("subscriber" :> 0) @@ ("plain" :> 1) @@ ("tracing" :> 2) @@ ("none" :> 3)
MWECode == ("influx" :> 0) @@ ("file" :> 1) @@ ("print" :> 2) @@ ("none" :> 3)

\* intToMTE / intToMWE: the switch from the integer back to the enum.
IntToEnum(code, x) == CHOOSE e \in DOMAIN code : code[e] = x

\* The option a node sets, as the factory sees it: to_rcl_message_tracker_options
\* casts it to uint8_t and MessageTrackerOptions(c_type) converts it back.
ThroughRcl(code, e) == IntToEnum(code, code[e])

\* The factories: each publisher gets a tracker of one of the types its
\* node may set, the subscribers a writer of one of the writer types.
Init ==
  /\ kind \in {k \in [Pubs -> {"plain", "tracing"}] :
                \A p \in Pubs : k[p] \in {ThroughRcl(MTECode, o) : o \in Kinds[p]}}
  /\ writer \in {ThroughRcl(MWECode, w) : w \in Writers}
  /\ counter = [p \in Pubs |-> FirstId]
  /\ chan = [t \in Topics |-> <<>>]
  /\ rows = {}
  /\ created = 0

Next ==
  \/ \E p \in Pubs : Create(p)
  \/ \E t \in Topics : Deliver(t)
  \/ \E t \in Topics : Lose(t)

Spec == Init /\ [][Next]_vars

-----------------------------------------------------------------------------
(* Properties *)

TypeOK ==
  /\ kind \in [Pubs -> {"plain", "tracing"}]
  /\ writer \in Writers
  /\ counter \in [Pubs -> Nat \ {0}]
  /\ \A t \in Topics : \A i \in DOMAIN chan[t] : chan[t][i].id \in Nat \ {0}
  /\ created \in 0..MaxMsgs

\* The tracing tracker's design (tracing_publisher_message_tracker.cpp):
\* ids are forwarded once assigned, so every arrival row of one message,
\* at every hop of its trace, carries the same msg_id.
IdsForwarded ==
  \A r1, r2 \in rows : r1.origin = r2.origin => r1.msgId = r2.msgId

\* The inner join on msg_id across the hops of a trace pairs only rows of
\* the same message.
JoinSound ==
  \A r1, r2 \in rows : r1.topic # r2.topic /\ r1.msgId = r2.msgId => r1.origin = r2.origin
=============================================================================
