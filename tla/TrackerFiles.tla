---------------------------- MODULE TrackerFiles ----------------------------
(***************************************************************************)
(* The CSV files of FileMeasurementWriter, for the trackers that register  *)
(* measurement classes: subscriptions (SubscriberMessageTracker) and       *)
(* timers (ActivationJitterTracker, built by the TimerBase constructor).   *)
(*                                                                         *)
(* Each writer names its files from the MessageTrackerHostInfo it is      *)
(* given; each register_measurement_class opens one std::ofstream on      *)
(* "{topic}->{ns::}{node}_[{class}].txt" in the working directory and      *)
(* writes the CSV header; each record_* appends a row to that stream.     *)
(*                                                                         *)
(* Strings are sequences of tokens: a token is one character or a literal *)
(* without '/'.  Files are sequences of rows, one slot per row: a stream  *)
(* writes at its own offset, so two streams on one file overwrite each    *)
(* other's rows (the rows of one file are taken to be of equal length).   *)
(*                                                                         *)
(* Each tracker is built through its factory from the options it is given:*)
(* make() picks the real or the dummy tracker factory, and both call      *)
(* create_result_writer.  Only the FILE writer touches the file system;   *)
(* the other writers are modelled in InfluxWriter and MessageTracing.     *)
(***************************************************************************)
EXTENDS Integers, Sequences, FiniteSets, SequencesExt

CONSTANTS
  Subs,       \* subscriptions with a subscriber tracker and the FILE writer
  SubHost,    \* [Subs -> [topic, name, ns]]: MessageTrackerHostInfo(tn, node_handle)
  Timers,     \* timers whose jitter_tracking_options select the FILE writer
  TimerOpts,  \* [Timers -> [node, dist, addr]]: the TimerOptions it is built with
  NoNode,     \* TimerOptions(): the timer is attached to no node
  SubOpts,    \* MessageTrackerOptions a subscription may be given: [tracker, writer]
  JitterOpts, \* JitterTrackerOptions a timer may be given: [tracker, writer]
  MaxRows     \* bound on the rows each tracker records

Trackers == Subs \cup Timers

VARIABLES
  opts,      \* [Trackers -> [tracker, writer]]: the options each factory was given
  built,     \* trackers constructed (their writer registered its classes)
  bound,     \* timers whose rcl timer is initialised and bound to the TimerBase
  streams,   \* [<<tracker, key>> -> [path, good, pos]]: the writer's ofstreams
  disk,      \* [path -> sequence of rows]: the files of the working directory
  count,     \* [Trackers -> rows recorded so far]
  recorded   \* ghost: every row a tracker has handed to its writer

vars == <<opts, built, bound, streams, disk, count, recorded>>

-----------------------------------------------------------------------------

\* rcl_node_get_fully_qualified_name (rcl): namespace and name joined by '/'.
FullyQualified(n) == IF n.ns = <<"/">> THEN n.ns \o n.name ELSE n.ns \o <<"/">> \o n.name

\* The TimerOptions constructors: "independent timer (<this>)" for
\* TimerOptions(), else the node's fully qualified name and distinguisher.
TimerName(o) ==
  IF o.node = NoNode
    THEN <<"i", "ndependent timer (">> \o o.addr \o <<")">>
    ELSE FullyQualified(o.node) \o o.dist

\* JitterTrackerFactory::create_result_writer: topic, name and namespace
\* faked, the name taken from timer_name.c_str() + 1.
JitterHostInfo(o) ==
  [topic |-> <<"__rclcpp_timer_activation_jitter">>, name |-> Tail(TimerName(o)), ns |-> <<"/">>]

Host(t) == IF t \in Subs THEN SubHost[t] ELSE JitterHostInfo(TimerOpts[t])

\* FileMeasurementWriter(host_info): topic "->", then the namespace without
\* its first character and "::" unless that is empty, then the node name.
HostFullName(h) ==
  h.topic \o <<"->">> \o (IF Len(Tail(h.ns)) > 0 THEN Tail(h.ns) \o <<"::">> ELSE <<>>) \o h.name

\* register_measurement_class: fileName = host_full_name_ + "_[" + name + "].txt".
FileName(h, class) == HostFullName(h) \o <<"_[">> \o class \o <<"].txt">>

\* stream.open(fileName) creates the file only when the name has no '/':
\* a '/' makes it a path into a directory of the working directory (or of
\* the root, when it comes first) that the writer never creates.  On a
\* failed open the stream is bad and every later << is a no-op.
Creatable(path) == "/" \notin Range(path)

\* MessageTrackerFactory::make: SUBSCRIBER gives the subscriber tracker
\* factory, NONE the dummy one, whose DummyMessageTracker registers no
\* class and returns from track_message at once.
SubTracks(s) == opts[s].tracker = "subscriber"

\* JitterTrackerFactory::make: ACTIVATION_JITTER or the dummy factory; the
\* dummy tracker registers no class and records nothing.
TimerTracks(t) == opts[t].tracker = "activation_jitter"

Tracks(t) == IF t \in Subs THEN SubTracks(t) ELSE TimerTracks(t)

\* MessageTrackerFactory::create_result_writer, called by every factory,
\* the dummy one included: whether the writer is a FileMeasurementWriter.
SubFileWriter(s) == opts[s].writer = "file"

\* JitterTrackerFactory::create_result_writer: the same switch for timers.
TimerFileWriter(t) == opts[t].writer = "file"

FileWriter(t) == IF t \in Subs THEN SubFileWriter(t) ELSE TimerFileWriter(t)

\* The tracker records through a FileMeasurementWriter.
Files(t) == Tracks(t) /\ FileWriter(t)

\* The classes each tracker's constructor registers, in order:
\* SubscriberMessageTracker latency then arrival, ActivationJitterTracker
\* one jitter class.
Classes(t) ==
  IF t \in Subs THEN <<<<"message_latency">>, <<"message_arrival">>>>
                ELSE <<<<"timer_activation_jitter">>>>

\* The file of the k-th class of tracker t.
PathOf(t, k) == FileName(Host(t), Classes(t)[k])

\* A row left between two others by a write past the end of the file.
Hole == [tracker |-> NoNode, key |-> 0, n |-> 0]

\* Row r written at slot i of file f: over the row there, or past the end.
PutAt(f, i, r) ==
  [j \in 1..(IF i > Len(f) THEN i ELSE Len(f)) |->
     IF j = i THEN r ELSE IF j <= Len(f) THEN f[j] ELSE Hole]

\* The writer of tracker t registers its classes: each open truncates
\* (or creates) the file, and the header takes its first row.  A dummy
\* tracker registers nothing, and only the FILE writer opens files.
Register(t) ==
  LET keys   == DOMAIN Classes(t)
      opened == {PathOf(t, k) : k \in {k \in keys : Creatable(PathOf(t, k))}}
      Header == [tracker |-> t, key |-> 0, n |-> 0]
  IN  IF Files(t)
        THEN /\ streams' = streams @@ [s \in {<<t, k>> : k \in keys} |->
                            [path |-> PathOf(t, s[2]), good |-> Creatable(PathOf(t, s[2])), pos |-> 2]]
             /\ disk' = [p \in DOMAIN disk \cup opened |->
                          IF p \in opened THEN <<Header>> ELSE disk[p]]
        ELSE UNCHANGED <<streams, disk>>

\* The stream of key k of tracker t writes row r; a bad stream writes nothing.
Write(d, t, k, r) ==
  IF streams[<<t, k>>].good
    THEN [d EXCEPT ![streams[<<t, k>>].path] = PutAt(@, streams[<<t, k>>].pos, r)]
    ELSE d

\* The stream position after a row.
Advance(t, keys) ==
  [s \in DOMAIN streams |-> IF s[1] = t /\ s[2] \in keys
                              THEN [streams[s] EXCEPT !.pos = @ + 1] ELSE streams[s]]

-----------------------------------------------------------------------------

\* SubscriberMessageTrackerFactory::create_message_tracker: the FILE writer
\* for the subscription's host info, then the tracker, which registers.
CreateSubscriberTracker(s) ==
  /\ s \in Subs \ built
  /\ Register(s)
  /\ built' = built \cup {s}
  /\ UNCHANGED <<opts, bound, count, recorded>>

\* TimerBase::TimerBase: JitterTrackerFactory::make and
\* create_jitter_tracker (writer, then ActivationJitterTracker, which
\* registers), then rcl_timer_init; only when it succeeds is the instance
\* bound, so that the rcl timer calls back into this TimerBase.
ConstructTimer(t) ==
  /\ t \in Timers \ built
  /\ Register(t)
  /\ built' = built \cup {t}
  /\ \/ bound' = bound \cup {t}
     \/ UNCHANGED bound
  /\ UNCHANGED <<opts, count, recorded>>

\* SubscriberMessageTracker::track_message: record_latency on the latency
\* stream, then record_arrival on the arrival stream.
TrackMessage(s) ==
  /\ s \in Subs \cap built
  /\ Files(s)
  /\ count[s] < MaxRows
  /\ LET n  == count[s] + 1
         r1 == [tracker |-> s, key |-> 1, n |-> n]
         r2 == [tracker |-> s, key |-> 2, n |-> n]
     IN  /\ disk' = Write(Write(disk, s, 1, r1), s, 2, r2)
         /\ recorded' = recorded \cup {r1, r2}
  /\ streams' = Advance(s, {1, 2})
  /\ count' = [count EXCEPT ![s] = @ + 1]
  /\ UNCHANGED <<opts, built, bound>>

\* rcl_timer_callback -> TimerBase::timer_activate_callback ->
\* ActivationJitterTracker::track_jitter -> record_activation_jitter.
Activate(t) ==
  /\ t \in bound
  /\ Files(t)
  /\ count[t] < MaxRows
  /\ LET r == [tracker |-> t, key |-> 1, n |-> count[t] + 1]
     IN  /\ disk' = Write(disk, t, 1, r)
         /\ recorded' = recorded \cup {r}
  /\ streams' = Advance(t, {1})
  /\ count' = [count EXCEPT ![t] = @ + 1]
  /\ UNCHANGED <<opts, built, bound>>

Init ==
  /\ opts \in {o \in [Trackers -> SubOpts \cup JitterOpts] :
                /\ \A s \in Subs : o[s] \in SubOpts
                /\ \A t \in Timers : o[t] \in JitterOpts}
  /\ built = {}
  /\ bound = {}
  /\ streams = <<>>
  /\ disk = <<>>
  /\ count = [t \in Trackers |-> 0]
  /\ recorded = {}

Next ==
  \/ \E s \in Subs : CreateSubscriberTracker(s) \/ TrackMessage(s)
  \/ \E t \in Timers : ConstructTimer(t) \/ Activate(t)

Spec == Init /\ [][Next]_vars

-----------------------------------------------------------------------------
(* Properties *)

\* FileMeasurementWriter "writes files in the directory that the process is
\* run from": every row a subscriber or timer tracker has recorded is in one
\* of those files.
RowsKept ==
  \A r \in recorded : \E p \in DOMAIN disk : r \in Range(disk[p])
=============================================================================
