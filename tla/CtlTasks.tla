------------------------------ MODULE CtlTasks ------------------------------
(***************************************************************************)
(* The two controller tasks of src/Controller.cpp as values: a task is a   *)
(* record, and each step of the task's own thread is an operator from the  *)
(* record before the step to the record after it.  The modules that own   *)
(* the task variables (DownloadPipeline, SyncController) apply these.      *)
(*                                                                         *)
(* A task's thread runs queued process() calls one at a time: "again"     *)
(* counts the process() calls posted to it and not yet run (on_started     *)
(* posts the first, AGAIN() the others).  "inflight" is the set of heights *)
(* whose getblockhash/getblock pair has been submitted and not answered.   *)
(* "phase" is new (created, start() still queued), running or stopped     *)
(* (stop() ran on the controller thread: the thread has quit and the RPC   *)
(* continuations of the task are gone).                                    *)
(***************************************************************************)
EXTENDS Naturals, FiniteSets, Sequences

CONSTANT MaxQ   \* DownloadBlocksTask::max_q = BitcoinDMgr::N_CLIENTS + 1

ASSUME MaxQ \in Nat \ {0}

Max0(n) == IF n > 0 THEN n ELSE 0
MinOf(a, b) == IF a < b THEN a ELSE b

\* DownloadBlocksTask::nToDL, qMax(stride, 1) included: how many heights of
\* from..to the task with this stride downloads.
nToDL(from, to, stride) ==
    ((to - from) + 1 + stride - 1) \div (IF stride > 1 THEN stride ELSE 1)

\* Reference definition (not code): the heights of the residue class.
ResidueClass(from, to, stride) == {h \in from..to : (h - from) % stride = 0}

-----------------------------------------------------------------------------
(* DownloadBlocksTask                                                      *)
-----------------------------------------------------------------------------

\* The constructor: next = from, counters zero, nothing queued yet.
DownloadBlocksTask(from, to, stride) ==
    [kind |-> "DL", from |-> from, to |-> to, stride |-> stride,
     expectedCt |-> nToDL(from, to, stride), next |-> from,
     goodCt |-> 0, qct |-> 0, maybeDone |-> FALSE,
     again |-> 0, inflight |-> {}, phase |-> "new"]

\* Mutant of DLProcessed: the "next > to" early return is missing.
DLProcessedNoEnd(r) ==
    [r EXCEPT !.again = @ - 1, !.inflight = @ \cup {r.next},
              !.next = @ + r.stride]

\* One process() call: past "to" it does nothing (the signal is below),
\* otherwise do_get(next) submits getblockhash for next and next += stride.
DLProcessed(r) ==
    IF r.next > r.to
    THEN [r EXCEPT !.again = @ - 1]
    ELSE [r EXCEPT !.again = @ - 1, !.inflight = @ \cup {r.next},
                   !.next = @ + r.stride]

\* The signal that process() call emits: success or errored once maybeDone
\* is set and next is past "to", none otherwise.
DLProcessSignal(r) ==
    IF r.next > r.to /\ r.maybeDone
    THEN IF r.goodCt >= r.expectedCt THEN "success" ELSE "errored"
    ELSE "none"

RECURSIVE DLRunQueued(_, _)
\* Run the queued process() calls one after the other: the record after
\* them and the signals appended to sigs.  Used where the task's thread is
\* taken to run what it has queued right after the step that queued it.
DLRunQueued(r, sigs) ==
    IF r.again = 0 THEN <<r, sigs>>
    ELSE DLRunQueued(DLProcessed(r),
                     IF DLProcessSignal(r) = "none" THEN sigs
                     ELSE Append(sigs, DLProcessSignal(r)))

\* Mutant of TopUp: the loop stops one request early.
TopUpShort(expected, good, q) == Max0(MinOf(expected - good - 1, MaxQ) - q)

\* Mutant of TopUp: the loop ignores the max_q bound.
TopUpNoMaxQ(expected, good, q) == Max0((expected - good) - q)

\* How many AGAIN()s the loop "while (goodCt + q_ct < expectedCt &&
\* q_ct < max_q) { AGAIN(); ++q_ct; }" posts.
TopUp(expected, good, q) == Max0(MinOf(expected - good, MaxQ) - q)

\* The getblock continuation of do_get(h) when the header has the right
\* size and hashes to the block hash: ++goodCt, q_ct = qMax(q_ct-1, 0),
\* putBlock (done by the caller), then either maybeDone and AGAIN(), or the
\* top-up loop.
DLGotBlock(r, h) ==
    LET good == r.goodCt + 1
        q    == Max0(r.qct - 1)
        k    == TopUp(r.expectedCt, good, q)
    IN  IF good >= r.expectedCt
        THEN [r EXCEPT !.inflight = @ \ {h}, !.goodCt = good, !.qct = q,
                       !.maybeDone = TRUE, !.again = @ + 1]
        ELSE [r EXCEPT !.inflight = @ \ {h}, !.goodCt = good, !.qct = q + k,
                       !.again = @ + k]

\* Mutant of DLRequestFailed: ++goodCt before the header is checked.
DLRequestFailedCounted(r, h) ==
    [r EXCEPT !.inflight = @ \ {h}, !.goodCt = @ + 1]

\* A failed height: getblockhash or getblock answered with an error
\* (on_error), the RPC layer failed the request (on_failure), or the hash
\* or header did not check out.  Every path emits errored.
DLRequestFailed(r, h) == [r EXCEPT !.inflight = @ \ {h}]

-----------------------------------------------------------------------------
(* GetChainInfoTask                                                        *)
-----------------------------------------------------------------------------

\* The constructor; "silent" is the beSilentIfUpToDate the success handler
\* connected in Controller::process captures.
GetChainInfoTask(silent) ==
    [kind |-> "CI", silent |-> silent, again |-> 0, pending |-> FALSE,
     reply |-> {}, phase |-> "new"]

\* process(): submit getblockchaininfo.
CIProcessed(r) == [r EXCEPT !.again = @ - 1, !.pending = TRUE]

\* bitcoind has answered getblockchaininfo with info; the reply is on its
\* way through BitcoinDMgr to the task's results lambda (reply = {info}).
CIAnswered(r, info) == [r EXCEPT !.pending = FALSE, !.reply = {info}]

\* getblockchaininfo failed (error reply, RPC failure) or did not parse.
CIFailed(r) == [r EXCEPT !.pending = FALSE]

\* The results lambda has run on the task's thread: the reply is consumed.
CIDelivered(r) == [r EXCEPT !.reply = {}]

-----------------------------------------------------------------------------

\* CtlTask::stop, run from the success/errored hooks on_started connects:
\* the thread quits, queued process() calls and RPC continuations are gone.
Stopped(r) ==
    IF r.kind = "DL"
    THEN [r EXCEPT !.phase = "stopped", !.again = 0, !.inflight = {}]
    ELSE [r EXCEPT !.phase = "stopped", !.again = 0, !.pending = FALSE, !.reply = {}]

\* start() through on_started: the thread runs and process() is queued.
Started(r) == [r EXCEPT !.phase = "running", !.again = 1]
=============================================================================
