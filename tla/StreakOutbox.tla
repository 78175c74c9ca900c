---------------------------- MODULE StreakOutbox ----------------------------
(***************************************************************************)
(* A consumer of the outbox of StreakService: it polls for the events with *)
(* an id after the last one it has seen (PollEvents in                     *)
(* internal/engine/read.go).                                               *)
(***************************************************************************)
EXTENDS StreakService

CONSTANT Limit  \* the most events one poll returns, at least one

VARIABLES
  cursor,  \* the last id the consumer has seen
  polled   \* the events it was given

OutboxInit == ServiceInit /\ cursor = 0 /\ polled = {}

\* PollEvents: of the committed events after the cursor the oldest ones.
Polled ==
  LET after == {r \in outbox : r.id > cursor}
  IN  {r \in after : Cardinality({q \in after : q.id < r.id}) < Limit}

\* The consumer polls and goes on from the last event it was given.
Poll ==
  /\ Polled # {}
  /\ polled' = polled \cup Polled
  /\ cursor' = (CHOOSE r \in Polled : \A q \in Polled : q.id <= r.id).id
  /\ UNCHANGED svars

OutboxNext == (ServiceNext /\ UNCHANGED <<cursor, polled>>) \/ Poll

OutboxSpec == OutboxInit /\ [][OutboxNext]_<<svars, cursor, polled>>

\* No event is lost on a consumer that polls (engine.go:76-78, PLAN.md:274): what
\* is in the outbox up to the consumer's cursor was given to it.
NothingSkipped == \A r \in outbox : r.id <= cursor => r \in polled
=============================================================================
