--------------------------- MODULE EventProcessor ---------------------------
(***************************************************************************)
(* The event list of a world object: a multimap from the time an event is  *)
(* due to the event, and the queue of new events in front of it.  Times    *)
(* are counted from now (m_time is always 0), so a due event has a time    *)
(* that is not positive.  An event is a record with a field time and a     *)
(* field abort (to_Abort).                                                 *)
(***************************************************************************)
EXTENDS Integers, Sequences, SequencesExt, FiniteSets

\* m_events.insert: behind every event that is due no later.
Inserted(events, e) ==
    InsertAt(events, 1 + Cardinality({i \in DOMAIN events : events[i].time <= e.time}), e)

\* m_time += p_time.
Elapsed(events, p) == [i \in DOMAIN events |-> [events[i] EXCEPT !.time = @ - p]]

\* m_events.begin(), if it is there and due.
IsDue(events) == events # << >> /\ Head(events).time <= 0

\* New events of a unique type: the list may already hold one.
Mutant_Renewed(events, queue) ==
    IF events = << >> THEN FoldLeft(Inserted, events, queue) ELSE events

\* The queue of new events goes into the list, in the order in which it was filled.
Renewed(events, queue) == FoldLeft(Inserted, events, queue)

=============================================================================
