---------------------------- MODULE MCLogTables ----------------------------
(***************************************************************************)
(* Small instances of LogTables. The logs a1, a2 and far name host h1,     *)
(* farB names h2, nobodys names no host; far and farB are dated past the   *)
(* last partition of the table logs.                                       *)
(***************************************************************************)
EXTENDS LogTables, TLC

CONSTANTS h1, h2, a1, a2, farB, far, nobodys

HostOfLog ==
  [log \in Logs |-> CASE log \in {a1, a2, far} -> h1
                      [] log = farB -> h2
                      [] log = nobodys -> NoHost]

\* A request of two messages, whose host is the client's, and logs of adapters.
Calls == {{a1, a2}, {farB}, {nobodys}}

\* A log without a partition beside another one of its host.
WithFarLog == {{a1}, {far}}

Forms == {<<h1>>, <<h2, h1>>}

Symmetry == Permutations(Writers) \cup Permutations(Operators)

=============================================================================
