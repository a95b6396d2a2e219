------------------------- MODULE InMemoryLogStorage -------------------------
(***************************************************************************)
(* The ring buffer that keeps the last logs of one program of one host     *)
(* (class InMemoryLogStorage). Its methods are synchronized, so each one   *)
(* is an operator on the whole ring, applied by one step of its callers.   *)
(*                                                                         *)
(* asLogList sorts by date. A ring's list is modelled by the set of the    *)
(* logs it holds: no property here depends on their order.                 *)
(***************************************************************************)
EXTENDS Naturals, Sequences

CONSTANTS
  Logs,      \* LogData objects
  NoLog,     \* the null that fills an unused slot
  Capacity   \* bufferSize, LOG_STORAGE_CAPACITY of the service

ASSUME CapacityAssumption == Capacity \in Nat \ {0}
ASSUME NoLogAssumption == NoLog \notin Logs

Slots == 0 .. Capacity - 1

Rings == [logDataBuffer: [Slots -> Logs \cup {NoLog}], currentLogDataPointer: Slots]

NewRing ==
  [logDataBuffer |-> [slot \in Slots |-> NoLog], currentLogDataPointer |-> 0]

NextPointer(pointer) == IF pointer < Capacity - 1 THEN pointer + 1 ELSE 0

\* Add: the log overwrites the slot under the pointer, which moves on.
AddToRing(ring, log) ==
  [logDataBuffer |->
     [ring.logDataBuffer EXCEPT ![ring.currentLogDataPointer] = log],
   currentLogDataPointer |-> NextPointer(ring.currentLogDataPointer)]

AsLogSet(ring) == {ring.logDataBuffer[slot] : slot \in Slots} \ {NoLog}

(***************************************************************************)
(* The logs of a ring, oldest first: the slots before the pointer as long  *)
(* as the ring has not wrapped, else Capacity slots from the pointer on.   *)
(***************************************************************************)
Wrapped(ring) == ring.logDataBuffer[ring.currentLogDataPointer] # NoLog

OldestFirst(ring) ==
  LET buffer  == ring.logDataBuffer
      pointer == ring.currentLogDataPointer
  IN  IF ~Wrapped(ring)
      THEN [i \in 1 .. pointer |-> buffer[i - 1]]
      ELSE [i \in 1 .. Capacity |->
              IF pointer + i - 1 < Capacity THEN buffer[pointer + i - 1]
                                            ELSE buffer[pointer + i - 1 - Capacity]]
=============================================================================
