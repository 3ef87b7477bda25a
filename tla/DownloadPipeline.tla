--------------------------- MODULE DownloadPipeline ---------------------------
(***************************************************************************)
(* One DownloadBlocksTask of src/Controller.cpp against bitcoind: the      *)
(* task's thread runs its queued process() calls, bitcoind answers the     *)
(* outstanding getblockhash/getblock pairs in any order, and any request   *)
(* may fail.  The controller side is reduced to what the task sees of it:  *)
(* the start() that runs on_started, and the stop() that the success or    *)
(* errored hook runs once the task has signalled.                          *)
(***************************************************************************)
EXTENDS CtlTasks, Sequences

CONSTANTS From, To, Stride,   \* the constructor arguments
          MaxFaults           \* bound on failed requests in a behaviour

ASSUME /\ From \in Nat /\ To \in Nat /\ To >= From
       /\ Stride \in Nat \ {0}
       /\ MaxFaults \in Nat

VARIABLES
    task,        \* the task record (CtlTasks)
    delivered,   \* heights handed to Controller::putBlock, in order
    signals,     \* success/errored signals emitted, in order
    faults       \* failed requests so far

vars == <<task, delivered, signals, faults>>

Heights == ResidueClass(From, To, Stride)

TaskRecs ==
    [kind : {"DL"}, from : {From}, to : {To}, stride : {Stride},
     expectedCt : Nat, next : Nat, goodCt : Nat, qct : Nat,
     maybeDone : BOOLEAN, again : Nat, inflight : SUBSET Heights,
     phase : {"new", "running", "stopped"}]

Init ==
    /\ task = DownloadBlocksTask(From, To, Stride)
    /\ delivered = <<>>
    /\ signals = <<>>
    /\ faults = 0

\* The start() queued by Controller::newTask runs: on_started posts process().
Start ==
    /\ task.phase = "new"
    /\ task' = Started(task)
    /\ UNCHANGED <<delivered, signals, faults>>

\* One queued DownloadBlocksTask::process() call.
Process ==
    /\ task.phase = "running"
    /\ task.again > 0
    /\ task' = DLProcessed(task)
    /\ signals' = IF DLProcessSignal(task) = "none" THEN signals
                  ELSE Append(signals, DLProcessSignal(task))
    /\ UNCHANGED <<delivered, faults>>

\* bitcoind answers the pair for height h with a header that checks out.
GotBlock(h) ==
    /\ task.phase = "running"
    /\ h \in task.inflight
    /\ task' = DLGotBlock(task, h)
    /\ delivered' = Append(delivered, h)
    /\ UNCHANGED <<signals, faults>>

\* The pair for height h fails: the task emits errored.
RequestFails(h) ==
    /\ task.phase = "running"
    /\ h \in task.inflight
    /\ faults < MaxFaults
    /\ faults' = faults + 1
    /\ task' = DLRequestFailed(task, h)
    /\ signals' = Append(signals, "errored")
    /\ UNCHANGED delivered

\* The controller runs the stop() hook of the first signal.
Stop ==
    /\ signals # <<>>
    /\ task.phase = "running"
    /\ task' = Stopped(task)
    /\ UNCHANGED <<delivered, signals, faults>>

Next ==
    \/ Start
    \/ Process
    \/ \E h \in Heights : GotBlock(h) \/ RequestFails(h)
    \/ Stop

\* The task's thread runs what is posted to it, bitcoind (or the RPC layer's
\* timeout) answers every request, and the controller runs the stop hook.
Fairness ==
    /\ WF_vars(Start)
    /\ WF_vars(Process)
    /\ \A h \in Heights : WF_vars(GotBlock(h))
    /\ WF_vars(Stop)

Spec == Init /\ [][Next]_vars /\ Fairness

-----------------------------------------------------------------------------

TypeOK ==
    /\ task \in TaskRecs
    /\ delivered \in Seq(Heights)
    /\ signals \in Seq({"success", "errored"})
    /\ faults \in 0..MaxFaults

\* The pipelining of do_get never has more than max_q requests submitted or
\* about to be submitted (queued process() calls), whatever order bitcoind
\* answers in: the q_ct bookkeeping (saturating decrement, top-up loop)
\* stays an upper bound of what is outstanding.
OutstandingWithinMaxQ ==
    task.phase = "running" => Cardinality(task.inflight) + task.again <= MaxQ

\* The task's outcome as the signals tell it: success once it signalled
\* success, errored once it signalled errored only.
Outcome ==
    CASE \E i \in DOMAIN signals : signals[i] = "success" -> "success"
      [] \E i \in DOMAIN signals : signals[i] = "errored" -> "errored"
      [] OTHER                                            -> "pending"

DO == INSTANCE DeliverOnce WITH handed <- delivered, outcome <- Outcome

\* The task implements DeliverOnce: do_get, the stride walk, the getblock
\* continuation and the two-step maybeDone termination hand each height of
\* the residue class to putBlock once, and success comes only after the
\* last of them (expectedCt and goodCt agree with the heights requested),
\* never after an errored and never followed by another block.
DeliversOnce == DO!Spec

\* With no failed request, the task eventually signals success: the top-up
\* loop never leaves a height unrequested while nothing is outstanding.
EventuallySucceeds ==
    [](faults = 0) => <>(\E i \in DOMAIN signals : signals[i] = "success")
=============================================================================
