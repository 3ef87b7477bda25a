---------------------------- MODULE SyncController ----------------------------
(***************************************************************************)
(* The header-synchronisation Controller of src/Controller.cpp with the   *)
(* tasks it spawns, the header storage it appends to and the bitcoind it   *)
(* polls.                                                                  *)
(*                                                                         *)
(* The Controller runs on one thread: every callback into it (AGAIN(),     *)
(* putBlock, the queued success/errored/finished hooks of its tasks, the   *)
(* zero-timer that starts a task) is a message posted to its event queue  *)
(* and handled whole, in post order.  Each task runs on its own thread    *)
(* (CtlTasks); bitcoind answers a task's requests in any order.  The       *)
(* state machine is "sm", NoSM when Controller::sm is null (idle between   *)
(* polls).  The storage is the header count and the header verifier; a    *)
(* block is its height, since without a reorg the block at a height is     *)
(* unique, and the verifier accepts exactly the header that extends the    *)
(* stored chain.  The hooks Controller::startup connects are modelled    *)
(* too: the readiness gate and its callProcess timer, allConnectionsLost,  *)
(* and the one-shot upToDate hook that starts the servers.                 *)
(***************************************************************************)
EXTENDS Integers, Sequences, FiniteSetsExt, Functions, CtlTasks

CONSTANTS
    TaskIds,        \* addresses a task object can have (CtlTask *)
    NoTask,         \* what task[t] is when no task object lives at t
    NoSM,           \* sm when Controller::sm is null
    NoChain,        \* the empty chain name in a fresh database
    Chain,          \* the chain bitcoind reports
    DLConcurrency,  \* StateMachine::DL_CONCURRENCY
    MaxHeight,      \* bound on bitcoind's tip
    MaxFaults,      \* bound on failed RPC requests in a behaviour
    InitHeaders,    \* possible header counts of the storage at startup
    InitTips,       \* possible bitcoind tips at startup
    InitIBD,        \* possible initialblockdownload flags at startup
    MaxDrops,       \* bound on allConnectionsLost in a behaviour
    MayShutdown     \* whether the application may shut the Controller down

ASSUME /\ DLConcurrency \in Nat \ {0}
       /\ MaxHeight \in Nat /\ MaxFaults \in Nat
       /\ InitHeaders \subseteq 0..(MaxHeight + 1)
       /\ InitTips \subseteq 0..MaxHeight
       /\ InitIBD \subseteq BOOLEAN
       /\ MaxDrops \in Nat /\ MayShutdown \in BOOLEAN

VARIABLES
    sm,         \* Controller::sm
    tasks,      \* Controller::tasks: the registered task addresses
    task,       \* the task object at each address, or NoTask
    queue,      \* the Controller thread's event queue
    nHeaders,   \* storage->headers().size()
    rejected,   \* the header verifier has rejected a header
    dbChain,    \* storage->getChain()
    remoteTip,  \* bitcoind's "blocks"
    ibd,        \* bitcoind's "initialblockdownload"
    pollArmed,  \* the pollTimer is running
    faults,     \* failed RPC requests so far
    fatal,      \* "none", or why the Controller stopped: Fatal(), FatalAssert, cleanup
    gate,       \* the gotFirstGoodConnection connection of waitForBitcoinD is live
    callArmed,  \* the "callProcess" timer is running
    connected,  \* BitcoinDMgr has a good connection to bitcoind
    drops,      \* allConnectionsLost signals so far
    upConn,     \* the one-shot upToDate -> SrvMgr connection is live
    serving     \* srvmgr has been created and started

vars == <<sm, tasks, task, queue, nHeaders, rejected, dbChain, remoteTip,
          ibd, pollArmed, faults, fatal, gate, callArmed, connected, drops,
          upConn, serving>>

\* The hooks Controller::startup connects, and the connection state.
link == <<gate, callArmed, connected, drops, upConn, serving>>
\* The Controller's own state apart from its tasks and event queue.
ctl == <<sm, tasks, nHeaders, rejected, dbChain, pollArmed, fatal>>

Heights == 0..MaxHeight
States == {"Begin", "GetBlocks", "DownloadingBlocks", "FinishedDL", "End",
           "Failure", "IBD"}

\* A fresh Controller::StateMachine.
FreshSM == [state |-> "Begin", ht |-> -1, pp |-> {}, next |-> 0, start |-> 0,
            end |-> 0]

\* The reply getblockchaininfo carries, as far as the Controller reads it.
NoInfo == [ibd |-> FALSE, blocks |-> 0, chain |-> NoChain]

ProcessMsg(silent) == [m |-> "process", silent |-> silent]
StartMsg(t) == [m |-> "start", task |-> t]
PutBlockMsg(t, h) == [m |-> "putBlock", task |-> t, height |-> h]
SignalMsg(t, kind, sig, info) ==
    [m |-> "signal", task |-> t, tkind |-> kind, sig |-> sig, info |-> info]
RmMsg(t) == [m |-> "rm", task |-> t]
\* BitcoinDMgr's signals, queued to the Controller thread.
GoodMsg == [m |-> "good"]
LostMsg == [m |-> "lost"]
\* Controller::upToDate, queued to the SrvMgr start hook.
UpToDateMsg == [m |-> "upToDate"]

Free == TaskIds \ tasks

RECURSIVE RunLen(_, _)
\* How many consecutive heights from h on are in S.
RunLen(S, h) == IF h \in S THEN 1 + RunLen(S, h + 1) ELSE 0

-----------------------------------------------------------------------------
(* Controller::process, one branch per state.  q is the event queue with  *)
(* the event that called process() removed.                              *)
-----------------------------------------------------------------------------

\* Fatal() and FatalAssert end the process: nothing happens after them.
Alive == fatal = "none"

\* The Controller thread handles the event at the head of its queue.
Handles(kind) == Alive /\ queue # <<>> /\ Head(queue).m = kind

Cur == IF sm = NoSM THEN FreshSM ELSE sm

\* Begin: spawn GetChainInfoTask; its success handler carries on.
ProcessBegin(silent, q) ==
    /\ Cur.state = "Begin"
    /\ \E t \in Free :
         /\ tasks' = tasks \cup {t}
         /\ task' = [task EXCEPT ![t] = GetChainInfoTask(silent)]
         /\ queue' = Append(q, StartMsg(t))
    /\ sm' = Cur
    /\ pollArmed' = FALSE
    /\ UNCHANGED <<nHeaders, rejected, dbChain, fatal>>

\* Mutant of DownloadBase: the storage tip instead of the header count.
DownloadBaseTip == nHeaders - 1

\* The first height to download: storage->headers().first.size().
DownloadBase == nHeaders

\* Mutant of EndHeight: one past the last height.
EndHeightPastTip(base, num) == base + num

\* endHeight = unsigned(base + num) - 1.
EndHeight(base, num) == base + num - 1

\* GetBlocks: split base..ht into nTasks residue classes, one
\* DownloadBlocksTask each, and wait for putBlock.  num <= 0 fails the
\* FatalAssert (or, wrapped around as size_t, the task constructor's).
ProcessGetBlocks(q) ==
    /\ Cur.state = "GetBlocks"
    /\ pollArmed' = FALSE
    /\ LET base == DownloadBase
           num  == Cur.ht + 1 - base
           n    == MinOf(num, DLConcurrency)
       IN  IF num <= 0
           THEN /\ fatal' = "assert"
                /\ UNCHANGED <<sm, tasks, task, queue, nHeaders, rejected, dbChain>>
           ELSE \E f \in [1..n -> Free] :
                  /\ IsInjective(f)
                  /\ tasks' = tasks \cup Range(f)
                  /\ task' = [x \in TaskIds |->
                                IF x \in Range(f)
                                THEN DownloadBlocksTask(base + (CHOOSE i \in 1..n : f[i] = x) - 1,
                                                        Cur.ht, n)
                                ELSE task[x]]
                  /\ queue' = q \o [i \in 1..n |-> StartMsg(f[i])]
                  /\ sm' = [Cur EXCEPT !.state = "DownloadingBlocks", !.next = base,
                                       !.start = base, !.end = EndHeight(base, num)]
                  /\ UNCHANGED <<nHeaders, rejected, dbChain, fatal>>

\* The for-loop of process_DownloadingBlocks pops ppBlocks.begin() while its
\* height is ppBlkHtNext: how many blocks it pops if all verify.
DrainRun(s) == IF s.pp # {} /\ Min(s.pp) = s.next THEN RunLen(s.pp, s.next) ELSE 0

\* Mutant of AfterDrain: erases one block past the popped ones.
AfterDrainErasesNext(s) ==
    LET nxt == s.next + DrainRun(s)
    IN  [s EXCEPT !.pp = @ \ (s.next..nxt), !.next = nxt]

\* sm after the loop has popped (erased) its blocks and advanced
\* ppBlkHtNext past them.
AfterDrain(s) ==
    LET nxt == s.next + DrainRun(s)
    IN  [s EXCEPT !.pp = @ \ (s.next..(nxt - 1)), !.next = nxt]

\* The test after the loop: ppBlkHtNext >= endHeight.
DownloadDone(s) == s.next >= s.end

\* DownloadingBlocks: process_DownloadingBlocks with process_VerifyAndAddBlock
\* for each popped block.  The verifier accepts the header extending the
\* stored chain; on a rejection its state is restored, sm goes to Failure and
\* the loop returns.  Otherwise each header is appended, and once
\* ppBlkHtNext >= endHeight the state becomes FinishedDL.
ProcessDownloading(q) ==
    /\ Cur.state = "DownloadingBlocks"
    /\ pollArmed' = FALSE
    /\ LET s   == Cur
           run == DrainRun(s)
           s2  == AfterDrain(s)
       IN  IF run > 0 /\ s.next # nHeaders
           THEN /\ sm' = [s EXCEPT !.pp = @ \ {s.next}, !.next = @ + 1,
                                   !.state = "Failure"]
                /\ rejected' = TRUE
                /\ queue' = Append(q, ProcessMsg(FALSE))
                /\ UNCHANGED nHeaders
           ELSE /\ nHeaders' = nHeaders + run
                /\ IF DownloadDone(s2)
                   THEN /\ sm' = [s2 EXCEPT !.state = "FinishedDL"]
                        /\ queue' = Append(q, ProcessMsg(FALSE))
                   ELSE /\ sm' = s2
                        /\ queue' = q
                /\ UNCHANGED rejected
    /\ UNCHANGED <<tasks, task, dbChain, fatal>>

\* FinishedDL: reset sm and go round again from Begin (the header save to
\* the database is not modelled).
ProcessFinishedDL(q) ==
    /\ Cur.state = "FinishedDL"
    /\ sm' = NoSM
    /\ queue' = Append(q, ProcessMsg(FALSE))
    /\ pollArmed' = FALSE
    /\ UNCHANGED <<tasks, task, nHeaders, rejected, dbChain, fatal>>

\* Mutant of EnablesPollTimer: the IBD branch leaves the poll timer off.
EnablesPollTimerNoIBD(st) == st \in {"Failure", "End"}

\* The states whose branch sets enablePollTimer (polltime_ms, or one minute
\* in IBD; the delay itself is not modelled).
EnablesPollTimer(st) == st \in {"Failure", "End", "IBD"}

\* Failure, End, IBD: reset sm and arm the poll timer if the branch says so.
ProcessIdle(q) ==
    /\ Cur.state \in {"Failure", "End", "IBD"}
    /\ sm' = NoSM
    /\ pollArmed' = EnablesPollTimer(Cur.state)
    /\ queue' = q
    /\ UNCHANGED <<tasks, task, nHeaders, rejected, dbChain, fatal>>

Process(silent, q) ==
    \/ ProcessBegin(silent, q)
    \/ ProcessGetBlocks(q)
    \/ ProcessDownloading(q)
    \/ ProcessFinishedDL(q)
    \/ ProcessIdle(q)

env == <<remoteTip, ibd, faults>>

-----------------------------------------------------------------------------
(* Events of the Controller thread.                                        *)
-----------------------------------------------------------------------------

\* A queued process() call (AGAIN()).
CtlProcess ==
    /\ Handles("process")
    /\ Process(Head(queue).silent, Tail(queue))
    /\ UNCHANGED <<env, link>>

\* The zero-timer newTask queued: start the task unless it was removed.
\* on_started runs process() on the task's thread (taken to run at once:
\* it only submits the first request).
CtlStart ==
    /\ Handles("start")
    /\ LET t == Head(queue).task
       IN  task' = IF t \in tasks /\ task[t].phase = "new"
                   THEN [task EXCEPT ![t] = IF @.kind = "DL"
                                            THEN DLRunQueued(Started(@), <<>>)[1]
                                            ELSE CIProcessed(Started(@))]
                   ELSE task
    /\ queue' = Tail(queue)
    /\ UNCHANGED <<ctl, env, link>>

\* putBlock drops the block for a missing sm, a task no longer in the map
\* or the Failure state ...
PutBlockDropped(t) == sm = NoSM \/ t \notin tasks \/ sm.state = "Failure"

\* ... and, with a warning, in any state but DownloadingBlocks.
PutBlockWrongState == sm.state # "DownloadingBlocks"

\* The lambda putBlock posts: store the block in ppBlocks and AGAIN().
CtlPutBlock ==
    /\ Handles("putBlock")
    /\ LET t == Head(queue).task
           h == Head(queue).height
       IN  IF PutBlockDropped(t) \/ PutBlockWrongState
           THEN /\ queue' = Tail(queue)
                /\ UNCHANGED sm
           ELSE /\ sm' = [sm EXCEPT !.pp = @ \cup {h}]
                /\ queue' = Append(Tail(queue), ProcessMsg(FALSE))
    /\ UNCHANGED <<tasks, task, nHeaders, rejected, dbChain, pollArmed, fatal, env, link>>

\* Mutant of FinishedPostsRm: the finished signal never reaches rmTask.
FinishedPostsRmNever(t) == <<>>

\* The finished -> rmTask hook of on_started, queued to the Controller.
FinishedPostsRm(t) == <<RmMsg(t)>>

\* After the handler of a success/errored signal, the stop() hook on_started
\* connected runs; the thread's finished signal then posts rmTask.
StopTask(t, q) ==
    IF task[t] # NoTask /\ task[t].phase # "stopped"
    THEN /\ task' = [task EXCEPT ![t] = Stopped(@)]
         /\ queue' = q \o FinishedPostsRm(t)
    ELSE /\ queue' = q
         /\ UNCHANGED task

\* Controller::genericTaskErrored.
GenericTaskErrored(q) ==
    IF sm # NoSM /\ sm.state # "Failure"
    THEN /\ sm' = [sm EXCEPT !.state = "Failure"]
         /\ StopTask(Head(queue).task, Append(q, ProcessMsg(FALSE)))
    ELSE /\ UNCHANGED sm
         /\ StopTask(Head(queue).task, q)

\* A download task signalled: on success only the tx counters (not
\* modelled) change; on errored the handler add_DLHeaderTask connects goes
\* to Failure unless the task is stale or sm is already in Failure.
CtlDLSignal ==
    /\ Handles("signal")
    /\ Head(queue).tkind = "DL"
    /\ LET m == Head(queue)
       IN  IF m.sig = "errored" /\ sm # NoSM /\ m.task \in tasks
           THEN GenericTaskErrored(Tail(queue))
           ELSE /\ UNCHANGED sm
                /\ StopTask(m.task, Tail(queue))
    /\ UNCHANGED <<tasks, nHeaders, rejected, dbChain, pollArmed, fatal, env, link>>

\* The state the GetChainInfoTask success handler moves to, or the Fatal()
\* it ends in: IBD; chain mismatch with the database; up to date; local tip
\* above bitcoind's; behind.
ChainInfoOutcome(info) ==
    CASE info.ibd                                  -> "IBD"
      [] dbChain \notin {NoChain, info.chain}      -> "FatalChain"
      [] nHeaders - 1 = info.blocks                -> "End"
      [] nHeaders - 1 > info.blocks                -> "FatalRegression"
      [] OTHER                                     -> "GetBlocks"

\* What the success handler emits before AGAIN(): upToDate when up to date
\* and not beSilentIfUpToDate, posted only while the hook is connected.
UpToDateEmitted(out, r) ==
    IF out = "End" /\ ~r.silent /\ upConn THEN <<UpToDateMsg>> ELSE <<>>

\* The GetChainInfoTask signalled.  errored: genericTaskErrored, connected
\* by newTask(true, ...) without the stale-task check.  success: the lambda
\* connected in process(): unless stale, set the chain of an empty database,
\* take ht = blocks and move on, then AGAIN().
CtlCISignal ==
    /\ Handles("signal")
    /\ Head(queue).tkind = "CI"
    /\ LET m   == Head(queue)
           out == ChainInfoOutcome(m.info)
       IN  IF m.sig = "errored"
           THEN GenericTaskErrored(Tail(queue)) /\ UNCHANGED <<dbChain, fatal>>
           ELSE IF sm = NoSM \/ m.task \notin tasks
           THEN /\ StopTask(m.task, Tail(queue))
                /\ UNCHANGED <<sm, dbChain, fatal>>
           ELSE IF out \in {"FatalChain", "FatalRegression"}
           THEN /\ fatal' = out
                /\ UNCHANGED <<sm, task, queue, dbChain>>
           ELSE /\ sm' = IF out = "IBD" THEN [sm EXCEPT !.state = out]
                         ELSE [sm EXCEPT !.state = out, !.ht = m.info.blocks]
                /\ dbChain' = IF out # "IBD" /\ dbChain = NoChain
                              THEN m.info.chain ELSE dbChain
                /\ StopTask(m.task, Append(Tail(queue) \o UpToDateEmitted(out, task[m.task]),
                                          ProcessMsg(FALSE)))
                /\ UNCHANGED fatal
    /\ UNCHANGED <<tasks, nHeaders, rejected, pollArmed, env, link>>

\* Controller::rmTask: erase (and delete) the task, or log that it is gone.
CtlRmTask ==
    /\ Handles("rm")
    /\ LET t == Head(queue).task
       IN  IF t \in tasks
           THEN /\ tasks' = tasks \ {t}
                /\ task' = [task EXCEPT ![t] = NoTask]
           ELSE UNCHANGED <<tasks, task>>
    /\ queue' = Tail(queue)
    /\ UNCHANGED <<sm, nHeaders, rejected, dbChain, pollArmed, fatal, env, link>>

\* The pollTimer fires: process(true) if sm is null.
PollTimerFires ==
    /\ Alive
    /\ pollArmed
    /\ IF sm = NoSM
       THEN Process(TRUE, queue)
       ELSE /\ pollArmed' = FALSE
            /\ UNCHANGED <<sm, tasks, task, queue, nHeaders, rejected, dbChain, fatal>>
    /\ UNCHANGED <<env, link>>

\* The gotFirstGoodConnection lambda of waitForBitcoinD: if its connection
\* is still live, disconnect it and arm "callProcess" (100 ms, no repeat).
\* Stale deliveries to a disconnected lambda do nothing.  All live gate
\* connections are one flag: each fires on the same signal and arms the
\* same named timer.
CtlGood ==
    /\ Handles("good")
    /\ queue' = Tail(queue)
    /\ IF gate
       THEN /\ gate' = FALSE
            /\ callArmed' = TRUE
       ELSE UNCHANGED <<gate, callArmed>>
    /\ UNCHANGED <<ctl, task, connected, drops, upConn, serving, env>>

\* Mutant of WaitForBitcoinD: the timers are stopped but no gate connected.
WaitForBitcoinDNoGate == pollArmed' = FALSE /\ callArmed' = FALSE /\ gate' = gate

\* The waitForBitcoinD lambda: stop the poll and callProcess timers and
\* connect a new gotFirstGoodConnection gate.
WaitForBitcoinD == pollArmed' = FALSE /\ callArmed' = FALSE /\ gate' = TRUE

\* allConnectionsLost runs waitForBitcoinD again; sm and the tasks are left
\* as they are.
CtlLost ==
    /\ Handles("lost")
    /\ queue' = Tail(queue)
    /\ WaitForBitcoinD
    /\ UNCHANGED <<sm, tasks, task, nHeaders, rejected, dbChain, fatal,
                   connected, drops, upConn, serving, env>>

\* The upToDate hook: disconnect itself and, if srvmgr is null, create it
\* and start it on the creation thread (waiting for it).  A bind failure
\* there is Fatal(); binding is not modelled.
CtlUpToDate ==
    /\ Handles("upToDate")
    /\ queue' = Tail(queue)
    /\ upConn' = FALSE
    /\ serving' = TRUE
    /\ UNCHANGED <<ctl, task, gate, callArmed, connected, drops, env>>

\* The callProcess timer fires: process(), whatever state sm is in.
CallProcessFires ==
    /\ Alive
    /\ callArmed
    /\ callArmed' = FALSE
    /\ Process(FALSE, queue)
    /\ UNCHANGED <<gate, connected, drops, upConn, serving, env>>

-----------------------------------------------------------------------------
(* Events of the task threads and of bitcoind.                            *)
-----------------------------------------------------------------------------

Running(t, kind) ==
    /\ Alive
    /\ task[t] # NoTask
    /\ task[t].kind = kind
    /\ task[t].phase = "running"

\* bitcoind answers getblockhash and getblock for h: the task counts the
\* block, posts putBlock and queues process() calls that top up its
\* requests or, after the last block, signal success.  The queued calls
\* touch only the task and are taken to run at once (DownloadPipeline
\* checks the task with them as steps of their own).
DLBlockArrives(t, h) ==
    /\ Running(t, "DL")
    /\ h \in task[t].inflight
    /\ h <= remoteTip
    /\ LET after == DLRunQueued(DLGotBlock(task[t], h), <<>>)
       IN  /\ task' = [task EXCEPT ![t] = after[1]]
           /\ queue' = Append(queue, PutBlockMsg(t, h))
                       \o [i \in DOMAIN after[2] |-> SignalMsg(t, "DL", after[2][i], NoInfo)]
    /\ UNCHANGED <<ctl, env, link>>

\* A request for h fails (error reply, RPC failure, bad hash or header).
DLRequestFails(t, h) ==
    /\ Running(t, "DL")
    /\ h \in task[t].inflight
    /\ faults < MaxFaults
    /\ faults' = faults + 1
    /\ task' = [task EXCEPT ![t] = DLRequestFailed(@, h)]
    /\ queue' = Append(queue, SignalMsg(t, "DL", "errored", NoInfo))
    /\ UNCHANGED <<ctl, remoteTip, ibd, link>>

\* bitcoind evaluates getblockchaininfo: the answer holds its tip now.
BitcoindAnswersCI(t) ==
    /\ Running(t, "CI")
    /\ task[t].pending
    /\ task' = [task EXCEPT ![t] = CIAnswered(@, [ibd |-> ibd, blocks |-> remoteTip,
                                                     chain |-> Chain])]
    /\ UNCHANGED <<ctl, queue, env, link>>

\* The answer reaches the task's results lambda, which parses it and emits
\* success to the Controller.  Each probe's answer travels over its own
\* connection and task thread, so two probes' answers reach the Controller
\* in either order, whichever bitcoind evaluated first.
CIReplyArrives(t) ==
    /\ Running(t, "CI")
    /\ \E info \in task[t].reply :
         /\ task' = [task EXCEPT ![t] = CIDelivered(@)]
         /\ queue' = Append(queue, SignalMsg(t, "CI", "success", info))
    /\ UNCHANGED <<ctl, env, link>>

\* getblockchaininfo fails or does not parse: errored.
CIRequestFails(t) ==
    /\ Running(t, "CI")
    /\ task[t].pending
    /\ faults < MaxFaults
    /\ faults' = faults + 1
    /\ task' = [task EXCEPT ![t] = CIFailed(@)]
    /\ queue' = Append(queue, SignalMsg(t, "CI", "errored", NoInfo))
    /\ UNCHANGED <<ctl, remoteTip, ibd, link>>

\* A block is mined: bitcoind's tip grows.
Mine ==
    /\ Alive
    /\ remoteTip < MaxHeight
    /\ remoteTip' = remoteTip + 1
    /\ UNCHANGED <<ctl, task, queue, ibd, faults, link>>

\* BitcoinDMgr gets a good connection and emits gotFirstGoodConnection.
BitcoindConnects ==
    /\ Alive
    /\ ~connected
    /\ connected' = TRUE
    /\ queue' = Append(queue, GoodMsg)
    /\ UNCHANGED <<ctl, task, gate, callArmed, drops, upConn, serving, env>>

\* BitcoinDMgr loses every connection and emits allConnectionsLost.
BitcoindLost ==
    /\ Alive
    /\ connected
    /\ drops < MaxDrops
    /\ connected' = FALSE
    /\ drops' = drops + 1
    /\ queue' = Append(queue, LostMsg)
    /\ UNCHANGED <<ctl, task, gate, callArmed, upConn, serving, env>>

\* bitcoind leaves initial block download.
IBDEnds ==
    /\ Alive
    /\ ibd
    /\ ibd' = FALSE
    /\ UNCHANGED <<ctl, task, queue, remoteTip, faults, link>>

\* Controller::cleanup at shutdown: stop the Controller thread (its queued
\* events are never handled), delete every task (each destructor stops and
\* joins the task's thread), tear down srvmgr and bitcoindmgr, reset sm.
\* Nothing runs after it.
Cleanup ==
    /\ Alive
    /\ MayShutdown
    /\ fatal' = "shutdown"
    /\ queue' = <<>>
    /\ tasks' = {}
    /\ task' = [t \in TaskIds |-> NoTask]
    /\ serving' = FALSE
    /\ connected' = FALSE
    /\ sm' = NoSM
    /\ UNCHANGED <<nHeaders, rejected, dbChain, pollArmed, gate, callArmed, drops,
                   upConn, env>>

-----------------------------------------------------------------------------

Init ==
    /\ sm = NoSM
    /\ tasks = {}
    /\ task = [t \in TaskIds |-> NoTask]
    /\ queue = <<>>
    /\ nHeaders \in InitHeaders
    /\ rejected = FALSE
    /\ dbChain \in IF nHeaders = 0 THEN {NoChain, Chain} ELSE {Chain}
    /\ remoteTip \in {tip \in InitTips : tip >= nHeaders - 1}
    /\ ibd \in InitIBD
    /\ pollArmed = FALSE
    /\ faults = 0
    /\ fatal = "none"
    \* startup() has run waitForBitcoinD once; BitcoinDMgr is not connected
    /\ gate = TRUE
    /\ callArmed = FALSE
    /\ connected = FALSE
    /\ drops = 0
    /\ upConn = TRUE
    /\ serving = FALSE

CtlStep ==
    \/ CtlProcess
    \/ CtlStart
    \/ CtlPutBlock
    \/ CtlDLSignal
    \/ CtlCISignal
    \/ CtlRmTask
    \/ CtlGood
    \/ CtlLost
    \/ CtlUpToDate

TaskStep(t) ==
    \/ \E h \in Heights : DLBlockArrives(t, h) \/ DLRequestFails(t, h)
    \/ BitcoindAnswersCI(t)
    \/ CIReplyArrives(t)
    \/ CIRequestFails(t)

Next ==
    \/ CtlStep
    \/ PollTimerFires
    \/ CallProcessFires
    \/ \E t \in TaskIds : TaskStep(t)
    \/ Mine
    \/ IBDEnds
    \/ BitcoindConnects
    \/ BitcoindLost
    \/ Cleanup

\* The Controller thread handles every event posted to it, each task thread
\* runs what is posted to it, bitcoind (or the RPC layer's timeout) answers
\* every request, the poll and callProcess timers fire, BitcoinDMgr
\* reconnects, and bitcoind leaves IBD.  No fairness on failures, lost
\* connections or mining.
Fairness ==
    /\ WF_vars(CtlStep)
    /\ WF_vars(PollTimerFires)
    /\ WF_vars(CallProcessFires)
    /\ WF_vars(BitcoindConnects)
    /\ WF_vars(IBDEnds)
    /\ \A t \in TaskIds :
         /\ WF_vars(BitcoindAnswersCI(t))
         /\ WF_vars(CIReplyArrives(t))
         /\ \A h \in Heights : WF_vars(DLBlockArrives(t, h))

Spec == Init /\ [][Next]_vars /\ Fairness

-----------------------------------------------------------------------------

SMRecs ==
    [state : States, ht : -1..MaxHeight, pp : SUBSET Heights,
     next : 0..(MaxHeight + 2), start : 0..(MaxHeight + 1), end : 0..MaxHeight]

TypeOK ==
    /\ sm \in SMRecs \cup {NoSM}
    /\ tasks \subseteq TaskIds
    /\ \A t \in TaskIds : (task[t] = NoTask) <=> (t \notin tasks)
    /\ nHeaders \in 0..(MaxHeight + 1)
    /\ rejected \in BOOLEAN
    /\ dbChain \in {NoChain, Chain}
    /\ remoteTip \in Heights
    /\ ibd \in BOOLEAN
    /\ pollArmed \in BOOLEAN
    /\ faults \in 0..MaxFaults
    /\ fatal \in {"none", "assert", "FatalChain", "FatalRegression", "shutdown"}
    /\ \A i \in DOMAIN queue : queue[i].m \in {"process", "start", "putBlock", "signal", "rm",
                                                "good", "lost", "upToDate"}
    /\ gate \in BOOLEAN /\ callArmed \in BOOLEAN /\ connected \in BOOLEAN
    /\ drops \in 0..MaxDrops
    /\ upConn \in BOOLEAN /\ serving \in BOOLEAN

\* The header verifier is only ever handed the header that extends the
\* stored chain: in-order reassembly (ppBlocks, ppBlkHtNext) keeps pace with
\* the storage across out-of-order answers, failed rounds, rounds restarted
\* from Begin and blocks still arriving from the tasks of earlier rounds.
VerifierNeverRejects == ~rejected

\* Height h is waiting in ppBlocks, queued as a putBlock, or still to come
\* from a registered download task (in flight, or ahead of the task's
\* "next" in its residue class).
StillComing(h) ==
    \/ h \in sm.pp
    \/ \E i \in DOMAIN queue : queue[i].m = "putBlock" /\ queue[i].height = h
    \/ \E t \in tasks :
         /\ task[t].kind = "DL"
         /\ task[t].phase # "stopped"
         /\ \/ h \in task[t].inflight
            \/ /\ task[t].next <= h /\ h <= task[t].to
               /\ (h - task[t].from) % task[t].stride = 0

\* Every height the current DownloadingBlocks round still needs is on its
\* way (StillComing), or an errored signal is queued that will fail the
\* round: no answer is lost between the tasks' threads, putBlock and the
\* reassembly in process_DownloadingBlocks.
NoLostHeight ==
    (sm # NoSM /\ sm.state = "DownloadingBlocks") =>
        \/ \A h \in sm.next..sm.end : StillComing(h)
        \/ \E i \in DOMAIN queue : queue[i].m = "signal" /\ queue[i].sig = "errored"

\* ppBlocks never holds a height below ppBlkHtNext: those have been consumed
\* (spec.md section 3).  process_DownloadingBlocks only drains while the
\* lowest key equals ppBlkHtNext, so such an entry would block it for good.
BacklogAboveNext ==
    sm # NoSM => \A h \in sm.pp : h >= sm.next

\* A FinishedDL transition leaves the storage tip at endHeight (spec.md
\* section 8): the round has appended every height it set out to download.
FinishedDLHasLastHeader ==
    (sm # NoSM /\ sm.state = "FinishedDL") => nHeaders = sm.end + 1

\* One round at a time (spec.md sections 2 and 4.4: at most one state
\* machine, whose Begin spawns the chain-info probe): no two registered
\* GetChainInfoTasks are still to report, so no second probe's success can
\* move sm back to GetBlocks under a round already under way.
SingleChainInfoProbe ==
    \A t, u \in tasks :
        (/\ task[t].kind = "CI" /\ task[t].phase # "stopped"
         /\ task[u].kind = "CI" /\ task[u].phase # "stopped") => t = u

\* The controller never aborts against a healthy bitcoind, one whose chain
\* is fixed and whose tip only grows (spec.md sections 1 and 5: the fatal
\* exits are for a mismatched chain or an impossible regression, a local tip
\* above bitcoind's).  The success handler compares old, read when the
\* Controller thread handles the signal, with an answer bitcoind gave
\* earlier; only cleanup may stop the Controller.
NeverAborts == fatal \in {"none", "shutdown"}

\* Once bitcoind's tip stops moving, the stored headers eventually reach it
\* and stay there: the controller catches up, whatever order blocks arrive
\* in, through extra rounds if it has to.
EventuallySynced == <>[](nHeaders = remoteTip + 1)

\* The Controller never falls silent: a round (sm non-null) is under way
\* infinitely often.  allConnectionsLost stops the poll timer, so after a
\* drop only the re-armed readiness gate and its callProcess timer can
\* start the next round.
KeepsPolling == []<>(sm # NoSM)

\* The servers eventually start (spec.md section 4.7: server startup is
\* gated on the first upToDate, which section 4.4 emits whenever the
\* chain-info probe finds the storage at bitcoind's tip).
ServersEventuallyStart == <>serving

\* A download round always ends: once Controller::process is in
\* DownloadingBlocks, the drain loop of process_DownloadingBlocks eventually
\* reaches endHeight (FinishedDL) or the round fails and sm is reset.  The
\* poll timer is stopped during the round, so nothing else restarts it.
DownloadRoundEnds ==
    (sm # NoSM /\ sm.state = "DownloadingBlocks")
        ~> (sm = NoSM \/ sm.state # "DownloadingBlocks")

\* Every task the controller spawns is eventually stopped and removed from
\* the task map by the finished -> rmTask hook: no task object is leaked,
\* whichever of its success/errored signals reaches the controller first.
TasksReaped == \A t \in TaskIds : (t \in tasks) ~> (t \notin tasks)
=============================================================================
