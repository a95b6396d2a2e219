------------------------- MODULE MCLogBroadcasting -------------------------
(***************************************************************************)
(* Small instances of LogBroadcasting. Three logs of program p1 of host h1 *)
(* are enough to wrap a ring of capacity 2, c1 comes from the same program *)
(* of another host, and null stands for a log that names no program.       *)
(***************************************************************************)
EXTENDS LogBroadcasting, TLC

CONSTANTS h1, h2, p1, p2, a1, a2, a3, c1, null

StreamOfLog ==
  [log \in Logs |-> CASE log \in {a1, a2, a3} -> <<h1, p1>>
                      [] log = c1 -> <<h2, p1>>
                      [] log = null -> NoStream]

Ask(hosts, programs, state) == [hosts |-> hosts, programs |-> programs, state |-> state]

\* Clients that follow one program of one host and of two.
Followers == {Ask({h1}, {p1}, "INITIAL"), Ask({h1, h2}, {p1}, "ONLINE_BROADCASTING")}

\* A client that asks for broadcasts at once, or names no program.
Either == {Ask({h1}, {p1}, "ONLINE_BROADCASTING"), Ask({h1}, {}, "INITIAL")}

OneHost == {Ask({h1}, {p1}, "INITIAL")}

Symmetry == Permutations(Sessions) \cup Permutations(Threads)
=============================================================================
