----------------------------- MODULE RecentLogs -----------------------------
(***************************************************************************)
(* What the log broadcasting service promises of its memory: for each host *)
(* and program it keeps the logs it received last, Capacity of them at     *)
(* most, in the order in which they were received, and it keeps every log  *)
(* once, under the log's own host and program.                             *)
(*                                                                         *)
(* LogBroadcasting implements this specification with ring buffers that    *)
(* concurrent threads create and fill.                                     *)
(***************************************************************************)
EXTENDS Naturals, Sequences

CONSTANTS
  Logs,      \* the logs the service may be given
  Streams,   \* the pairs of a host and a program
  NoStream,  \* stands for a log without a host or a program
  StreamOf,  \* the stream of each log
  Capacity   \* how many logs of a stream are kept

VARIABLES
  recent,    \* [Streams -> sequences of logs], oldest first
  awaited    \* the logs not received yet

vars == <<recent, awaited>>

Streamed == {log \in Logs : StreamOf[log] # NoStream}

DropOldest(logs) == IF Len(logs) > Capacity THEN Tail(logs) ELSE logs

Init ==
  /\ recent = [stream \in Streams |-> <<>>]
  /\ awaited = Streamed

Receive(log) ==
  /\ log \in awaited
  /\ awaited' = awaited \ {log}
  /\ recent' = [recent EXCEPT ![StreamOf[log]] = DropOldest(Append(@, log))]

Next == \E log \in Logs : Receive(log)

Spec == Init /\ [][Next]_vars
=============================================================================
