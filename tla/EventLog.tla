------------------------------ MODULE EventLog ------------------------------
(***************************************************************************)
(* What the event store promises the rest of the engine: one totally       *)
(* ordered log of events that only ever grows at its end, in which ids     *)
(* count 1, 2, 3, ... and an idempotency key is spent at most once.        *)
(* Everything else (files, locks, crashes, failed writes) is a detail of   *)
(* module EventStore, which is shown to implement this one.                *)
(***************************************************************************)
EXTENDS Naturals, Sequences

CONSTANTS Key,   \* idempotency keys
          NoKey  \* an append made without one

VARIABLE log

Event == [id : Nat \ {0}, key : Key \cup {NoKey}]

KeysOf(events) == {events[i].key : i \in 1..Len(events)} \ {NoKey}

Fresh(key, events) == key \notin KeysOf(events)

Init == log = <<>>

(* store.py append: a new event takes the next id and a key that no event  *)
(* of the log carries; a key already spent returns the old event and       *)
(* changes nothing, which is a stuttering step here.                       *)
Record(key) ==
    /\ Fresh(key, log)
    /\ log' = Append(log, [id |-> Len(log) + 1, key |-> key])

Next == \E key \in Key \cup {NoKey} : Record(key)

Spec == Init /\ [][Next]_log

-----------------------------------------------------------------------------
(* The log is a sequence of events. *)
TypeOK == log \in Seq(Event)

(* Ids count 1, 2, 3, ... with no gap: replay order is id order. *)
IdsCount == \A i \in 1..Len(log) : log[i].id = i

(* An idempotency key is spent by at most one event. *)
KeysSpentOnce ==
    \A i, j \in 1..Len(log) :
        log[i].key = log[j].key /\ log[i].key # NoKey => i = j
=============================================================================
