-------------------------- MODULE MC_MessageTracing --------------------------
(***************************************************************************)
(* A trace A -(a)-> B -(b)-> C -(c)-> sink: node A creates messages, B and *)
(* C forward what they receive.  A's tracker may be either type; the      *)
(* relays use the tracing tracker, as the design requires.                 *)
(***************************************************************************)
EXTENDS MessageTracing, TLC

MCPubs == {"A", "B", "C"}
\* Nodes /A, /B and /C; the hashes of "/A", "/B" and "/C" are taken with
\* every hex digit, a zero half and an all-ones half.
MCNodeOf == ("A" :> [ns |-> "/", name |-> "A"]) @@ ("B" :> [ns |-> "/", name |-> "B"])
            @@ ("C" :> [ns |-> "/", name |-> "C"])
MCHash == ("/A" :> [hi |-> 43981, lo |-> 4660]) @@ ("/B" :> [hi |-> 0, lo |-> 15])
          @@ ("/C" :> [hi |-> 61440, lo |-> 65535])
MCPubTopic == ("A" :> "a") @@ ("B" :> "b") @@ ("C" :> "c")
MCKinds == ("A" :> {"plain", "tracing"}) @@ ("B" :> {"tracing"}) @@ ("C" :> {"tracing"})
MCSources == {"A"}
MCRelay == ("a" :> "B") @@ ("b" :> "C") @@ ("c" :> "none")
MCMaxMsgs == 3

\* Writers that put the id in the msg_id column.
MCWritersIdColumn == {"influx", "print"}

\* The file writer.
MCWritersFile == {"file"}
=============================================================================
