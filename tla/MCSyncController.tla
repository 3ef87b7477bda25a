-------------------------- MODULE MCSyncController --------------------------
(* Model-checking instance of SyncController: task addresses are model     *)
(* values (a freed address may be handed out again, as by the allocator). *)
EXTENDS SyncController, TLC

CONSTANTS t1, t2, t3, t4

MCTaskIds == {t1, t2, t3, t4}

\* Task addresses are interchangeable: nothing orders or inspects them.
Symmetry == Permutations(MCTaskIds)

\* Bound on the Controller's event queue, for runs that look for a
\* counterexample: behaviours that let more events pile up are cut.
MaxQueue == 4
QueueBound == Len(queue) <= MaxQueue
=============================================================================
