--------------------------- MODULE MCOutboxDispatch ---------------------------
(* Small instances of OutboxDispatch for TLC. *)
EXTENDS OutboxDispatch, TLC

\* Workers are interchangeable, and so are events.
Symmetry == Permutations(Worker) \cup Permutations(Event)

=============================================================================
