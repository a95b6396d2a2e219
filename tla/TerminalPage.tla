----------------------------- MODULE TerminalPage -----------------------------
(***************************************************************************)
(* The online page in the browser (terminal-1.0.0.js and                   *)
(* multi-select-dropdown.js). Every click on a host or a program closes    *)
(* the socket, puts a new terminal over the one before and, when there are *)
(* hosts and programs selected, opens a new socket for them. The handlers  *)
(* of a socket print to the global terminalIO, which becomes that of a     *)
(* terminal only when its preferences have been read, in a later task.     *)
(*                                                                         *)
(* A terminal is known by its number: the first one is made when the page  *)
(* has been loaded, the others by one click each. A socket is known by the *)
(* number of the terminal that was made with it. What the server and the   *)
(* network do is described by the events the browser gets from them.       *)
(***************************************************************************)
EXTENDS Integers, FiniteSets

CONSTANTS
  Hosts, Programs,   \* the options of the two lists
  MaxTerminals       \* bound on terminals, which is one more than clicks

ASSUME PageAssumption == MaxTerminals \in Nat \ {0}

VARIABLES
  selected,     \* the options that are selected
  terminals,    \* how many terminals have been made; the last is on top
  ready,        \* how many of them have called onTerminalReady
  terminalIO,   \* the terminal that is printed to, 0 when undefined
  socket,       \* the number of the socket, 0 when undefined
  state,        \* the state of every socket
  asked,        \* the options every socket asks for
  shown         \* what has been printed in a terminal

pageVars == <<selected, terminals, ready, terminalIO, socket, state, asked, shown>>

Numbers == 1 .. MaxTerminals

\* A socket is aborting when it was closed before the connection was made.
States == {"none", "connecting", "open", "closing", "aborting", "closed"}

Live == {"connecting", "open"}

\* What is printed: logs, the server's refusal, and how a connection ended.
Kinds == {"logs", "errorMessage", "closed", "closed with an error"}

\* The request names what is selected when the socket is made.
Wanted(options) == options \cap Hosts # {} /\ options \cap Programs # {}

\* Something is printed in the terminal whose IO is the global one. Without
\* it the handler ends with a TypeError and nothing is printed.
PrintItem(kind, k) ==
  shown' = IF terminalIO = 0 THEN shown
           ELSE [shown EXCEPT ![terminalIO] = @ \cup {<<kind, k>>}]

\* Mutant: the socket of the selection before is not closed.
Close_Not == state

\* socket.close(): the close event comes later; no message comes any more.
Close ==
  IF socket # 0 /\ state[socket] \in Live
  THEN [state EXCEPT ![socket] = IF @ = "open" THEN "closing" ELSE "aborting"]
  ELSE state

\* A terminal that is being made does not touch terminalIO.
setupHterm == terminals' = terminals + 1 /\ UNCHANGED terminalIO

\* Mutant: a socket is made for the options that were selected before.
getLatestLogs_Stale(closed) ==
  IF Wanted(selected')
  THEN /\ socket' = terminals'
       /\ state' = [closed EXCEPT ![terminals'] = "connecting"]
       /\ asked' = [asked EXCEPT ![terminals'] = selected]
  ELSE state' = closed /\ UNCHANGED <<socket, asked>>

\* Without hosts or programs the socket that was closed stays the socket.
getLatestLogs(closed) ==
  IF Wanted(selected')
  THEN /\ socket' = terminals'
       /\ state' = [closed EXCEPT ![terminals'] = "connecting"]
       /\ asked' = [asked EXCEPT ![terminals'] = selected']
  ELSE state' = closed /\ UNCHANGED <<socket, asked>>

\* An option is clicked: it is selected, or not any more.
ClickOption(option) ==
  /\ terminals < MaxTerminals
  /\ selected' = IF option \in selected THEN selected \ {option}
                                        ELSE selected \cup {option}
  /\ setupHterm
  /\ getLatestLogs(Close)
  /\ UNCHANGED <<ready, shown>>

\* Mutant: every callback takes the IO of the first terminal.
onTerminalReady_First ==
  /\ ready < terminals
  /\ ready' = ready + 1
  /\ terminalIO' = 1
  /\ UNCHANGED <<selected, terminals, socket, state, asked, shown>>

\* The callbacks come in the order in which the terminals were made.
onTerminalReady ==
  /\ ready < terminals
  /\ ready' = ready + 1
  /\ terminalIO' = ready'
  /\ UNCHANGED <<selected, terminals, socket, state, asked, shown>>

\* The connection is there: the request is sent.
onopen(k) ==
  /\ state[k] = "connecting"
  /\ state' = [state EXCEPT ![k] = "open"]
  /\ UNCHANGED <<selected, terminals, ready, terminalIO, socket, asked, shown>>

\* Logs, or an error message, of what the socket asked for.
onmessage(k) ==
  /\ state[k] = "open"
  /\ \E kind \in {"logs", "errorMessage"} : PrintItem(kind, k)
  /\ UNCHANGED <<selected, terminals, ready, terminalIO, socket, state, asked>>

\* The connection ends: cleanly, after close() or at the server's will, or
\* with an error before.
onclose(k) ==
  /\ state[k] \in Live \cup {"closing", "aborting"}
  /\ \/ state[k] \in {"open", "closing"} /\ PrintItem("closed", k)
     \/ PrintItem("closed with an error", k)
  /\ state' = [state EXCEPT ![k] = "closed"]
  /\ UNCHANGED <<selected, terminals, ready, terminalIO, socket, asked>>

\* window.onload makes the first terminal.
PageInit ==
  /\ selected = {}
  /\ terminals = 1 /\ ready = 0 /\ terminalIO = 0
  /\ socket = 0
  /\ state = [k \in Numbers |-> "none"]
  /\ asked = [k \in Numbers |-> {}]
  /\ shown = [k \in Numbers |-> {}]

PageNext ==
  \/ \E option \in Hosts \cup Programs : ClickOption(option)
  \/ onTerminalReady
  \/ \E k \in Numbers : onopen(k)
  \/ \E k \in Numbers : onmessage(k)
  \/ \E k \in Numbers : onclose(k)

\* The browser runs the callbacks that are due, and says how a connection
\* that is being made, or closed, ends.
PageFairness ==
  /\ WF_pageVars(onTerminalReady)
  /\ \A k \in Numbers :
       /\ WF_pageVars(onopen(k) \/ (state[k] = "connecting" /\ onclose(k)))
       /\ WF_pageVars(state[k] \in {"closing", "aborting"} /\ onclose(k))

PageSpec == PageInit /\ [][PageNext]_pageVars

FairPageSpec == PageSpec /\ PageFairness

----------------------------------------------------------------------------
\* The types; a terminal is printed to only when it is ready.
PageTypeOK ==
  /\ selected \subseteq Hosts \cup Programs
  /\ terminals \in Numbers /\ ready \in 0 .. terminals
  /\ terminalIO \in 0 .. ready /\ socket \in 0 .. terminals
  /\ state \in [Numbers -> States]
  /\ asked \in [Numbers -> SUBSET (Hosts \cup Programs)]
  /\ shown \in [Numbers -> SUBSET (Kinds \X Numbers)]

(***************************************************************************)
(* A connection that is open or being made is the last one and asks for    *)
(* what is selected now: however fast the options are clicked, no older    *)
(* connection goes on, with another selection or without one.              *)
(***************************************************************************)
LiveSocketAsksForSelection ==
  \A k \in Numbers : state[k] \in Live =>
    k = socket /\ k = terminals /\ asked[k] = selected /\ Wanted(selected)

(***************************************************************************)
(* A terminal shows no logs of a selection from before it was made: the    *)
(* terminal on top shows only what is selected. Logs that come before it   *)
(* is ready are printed in one that it covers.                             *)
(***************************************************************************)
NoOlderLogs ==
  \A terminal, k \in Numbers :
    {<<"logs", k>>, <<"errorMessage", k>>} \cap shown[terminal] # {} => k >= terminal

(***************************************************************************)
(* When the clicks have ended, in the end the terminal on top is the one   *)
(* that is printed to, and every connection has been made or is closed, so *)
(* that the logs that come from then on are seen.                          *)
(***************************************************************************)
PageSettles ==
  <>[](/\ terminalIO = terminals
       /\ \A k \in Numbers : state[k] \in {"none", "open", "closed"})

=============================================================================
