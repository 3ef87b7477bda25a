----------------------------- MODULE DeliverOnce -----------------------------
(***************************************************************************)
(* What a download task promises the Controller (spec.md sections 4.3 and *)
(* 7): it hands every height of its residue class to putBlock exactly      *)
(* once, in any order, and reports one outcome.  Success comes only after  *)
(* the last height and ends the task's deliveries; a failure may still be  *)
(* followed by the blocks already in flight, never by success.             *)
(***************************************************************************)
EXTENDS Sequences, SequencesExt

CONSTANT Heights   \* the residue class the task was given

VARIABLES
    handed,    \* heights handed to putBlock, in order
    outcome    \* "pending", "success" or "errored"

vars == <<handed, outcome>>

Init == handed = <<>> /\ outcome = "pending"

\* A height not handed yet is handed.
Hand(h) ==
    /\ outcome # "success"
    /\ h \in Heights \ ToSet(handed)
    /\ handed' = Append(handed, h)
    /\ UNCHANGED outcome

\* Every height has been handed: the task succeeds.
Succeed ==
    /\ outcome = "pending"
    /\ ToSet(handed) = Heights
    /\ outcome' = "success"
    /\ UNCHANGED handed

\* The task fails, whatever it has handed so far.
Fail ==
    /\ outcome = "pending"
    /\ outcome' = "errored"
    /\ UNCHANGED handed

Next == (\E h \in Heights : Hand(h)) \/ Succeed \/ Fail

Spec == Init /\ [][Next]_vars
=============================================================================
