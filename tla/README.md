# TLA+ models of Fulcrum's header-sync Controller

This directory holds TLA+ models of `src/Controller.cpp` and `src/src/RPCMsgId.h`. The first is the Controller that keeps the header storage in step with bitcoind, with the two kinds of task it spawns. The second is the JSON-RPC id type. The TLC configurations check them. `PROJECT.json` lists the components, runs, mutants, the source map, the findings and the hazards.

## 1. The system

`src/Controller.cpp` has these parts:

| Part | Code | State |
|---|---|---|
| Controller state machine | `Controller::process`, `putBlock`, `process_DownloadingBlocks`, `process_VerifyAndAddBlock` | `sm` (null, or a `StateMachine`: `state`, `ht`, `ppBlocks`, `ppBlkHtNext`, `startheight`, `endHeight`) |
| Task set and lifecycle | `newTask`, `CtlTask::on_started`, `rmTask`, `isTaskDeleted`, `genericTaskErrored` | `Controller::tasks` (map of task addresses) |
| DownloadBlocksTask | `nToDL`, `process`, `do_get` | `next`, `goodCt`, `q_ct`, `maybeDone`, requests in flight |
| GetChainInfoTask | `process`, and the success lambda in `Controller::process` | `info` |
| Poll timer | end of `Controller::process` | armed or not |
| Readiness gate | `startup`: `waitForBitcoinD`, `gotFirstGoodConnection`, `allConnectionsLost` | connection pointer, timers |
| upToDate hook | `startup`: starts `SrvMgr` once | `srvmgr` |
| Shutdown | `Controller::cleanup`, the task destructors | stops the thread, deletes every task and the managers |
| Stats | `stats`, `nHeadersDownloadedSoFar`, `nTxInOutSoFar`, `ChainInfo::toString` | none (read-only) |
| RPCMsgId | `src/src/RPCMsgId.h` | `typ`, `idata`, `sdata` |

Storage (the header vector, the shared header verifier, `save`) and BitcoinDMgr (the RPC connections) are outside `src/`. The model treats them as the environment.

### How the parts interact

- The Controller runs on one Qt thread. These calls into it are events posted to its queue and handled one at a time in post order:
  - `AGAIN()`;
  - the lambda `putBlock` posts;
  - the success, errored and finished hooks of a task;
  - the zero-timer that starts a task.
- Each task runs on its own thread.
- bitcoind answers the requests of a task in any order. A request can fail: an error reply, a transport failure, or a bad hash or header.
- One sync round goes through these states:
  1. `Begin` spawns a GetChainInfoTask.
  2. Its success handler chooses `IBD`, `End` (up to date), `GetBlocks`, or `Fatal` (chain mismatch or regression).
  3. `GetBlocks` splits `base..ht` into `nTasks` residue classes and spawns one DownloadBlocksTask per class.
  4. Each good block goes through `putBlock` into `ppBlocks`.
  5. `DownloadingBlocks` drains `ppBlocks` in height order through the header verifier into storage.
  6. Once `ppBlkHtNext >= endHeight`, the state is `FinishedDL`. That resets `sm` and goes round again from `Begin`.
  7. `Failure`, `End` and `IBD` reset `sm` and arm the poll timer. The timer calls `process(true)` later.
- `startup` connects three hooks:
  - the readiness gate: on `gotFirstGoodConnection`, it arms the 100 ms `callProcess` timer, which calls `process()`;
  - `allConnectionsLost` runs `waitForBitcoinD` again. That stops the poll and `callProcess` timers and connects a new gate;
  - the one-shot `upToDate` hook creates and starts `SrvMgr`. `upToDate` is emitted by the chain-info success handler when up to date, unless the round came from the poll timer (`beSilentIfUpToDate`).

### What is hard here

- A reset of `sm` does not stop or remove the tasks of the round it ends. Their `putBlock`s and signals arrive in a later round.
- The only guards against them are `isTaskDeleted` (an address comparison) and the state checks in `putBlock`.
- A round pipelines requests with `q_ct` and `max_q`, and finishes through the two-step `maybeDone` test.
- Reassembly waits for `ppBlkHtNext` and stops at the first gap.
- After the controller reaches an idle state, only the poll timer restarts it. After a lost connection, only the gate does.
- `process()` can be called by `AGAIN()`, the poll timer and the gate's timer. Nothing stops two of these calls from running in the same state.
- A chain-info answer is taken on the task's thread and compared with the storage tip later, on the Controller thread. A stored tip above the answer ends the process with `Fatal()`.

## 2. Modules

| Module | Models | State and actions |
|---|---|---|
| `CtlTasks` | DownloadBlocksTask and GetChainInfoTask as values | no variables. A task is a record, and each step of its thread is an operator: `DLProcessed` (`process`), `DLGotBlock` (the good-block continuation of `do_get`, with the top-up loop), `DLRequestFailed`, `CIProcessed`, `CIAnswered`, `Started` (`on_started`), `Stopped` (the `stop()` hooks). `DLRunQueued` runs the queued `process()` calls one after another (RECURSIVE). |
| `DownloadPipeline` | one DownloadBlocksTask against bitcoind | `task`, `delivered`, `signals`, `faults`. Actions: `Start`, `Process` (one queued `process()` call), `GotBlock(h)`, `RequestFails(h)`, `Stop`. |
| `DeliverOnce` | what a download task promises (spec.md sections 4.3 and 7) | `handed`, `outcome`. Actions: `Hand(h)`, `Succeed`, `Fail`. This is the abstract specification. `DownloadPipeline` is shown to implement it by `INSTANCE DeliverOnce WITH handed <- delivered, outcome <- Outcome`. `Outcome` reads the task's outcome off its signals. |
| `SyncController` | the Controller with its tasks, storage, bitcoind and the startup hooks | see below |
| `RPCMsgIdType` | `RPCMsgId` | `ids` (two objects, each `typ`, `idata`, `sdata`), `src` (the value each was last given), `lastOp`. Actions: `Construct` (each constructor, copy and move), `AssignFromInt`, `AssignFromText`, `ClearId`, `CopyAssign`. `Hash` is both hashes. |
| `MCDownloadPipeline`, `MCSyncController` | model-checking instances | model values for task addresses, the symmetry set, and the queue bound that one violation run uses |

### `SyncController` variables

| Variable | Stands for |
|---|---|
| `sm` | `Controller::sm`: `NoSM`, or a record with `state`, `ht`, `pp` (the heights in `ppBlocks`), `next` (`ppBlkHtNext`), `start`, `end` |
| `tasks` | `Controller::tasks` |
| `task` | the task object at each address |
| `queue` | the Controller's event queue |
| `nHeaders` | `storage->headers().size()` |
| `rejected` | the header verifier has refused a header |
| `dbChain` | `storage->getChain()` |
| `remoteTip`, `ibd` | bitcoind's `blocks` and `initialblockdownload` |
| `pollArmed` | the poll timer is running |
| `faults` | failed requests so far |
| `fatal` | whether `Fatal()`/`FatalAssert` has ended the process, or `cleanup` has stopped the Controller |
| `gate`, `callArmed` | a gate connection of `waitForBitcoinD` is live; the `callProcess` timer is running |
| `connected`, `drops` | BitcoinDMgr has a good connection; `allConnectionsLost` signals so far |
| `upConn`, `serving` | the `upToDate` hook is connected; `srvmgr` has been started |

### `SyncController` actions

- **Controller-thread actions.** Each handles the event at the head of the queue, whole:
  - `CtlProcess`: `Controller::process`. It splits into `ProcessBegin`, `ProcessGetBlocks`, `ProcessDownloading`, `ProcessFinishedDL` and `ProcessIdle`.
  - `CtlStart`: the zero-timer of `newTask`.
  - `CtlPutBlock`.
  - `CtlDLSignal`: the success and errored lambdas of `add_DLHeaderTask`, followed by `stop()`.
  - `CtlCISignal`: the success lambda of `process`, or `genericTaskErrored`, followed by `stop()`.
  - `CtlRmTask`.
  - `CtlGood`: the gate lambda. `CtlLost`: `waitForBitcoinD`. `CtlUpToDate`: the `SrvMgr` start hook.
  - `PollTimerFires` and `CallProcessFires`: the two timers.
- **Task-thread and bitcoind actions:**
  - `DLBlockArrives(t, h)`: the getblockhash/getblock pair is answered. The task's queued `process()` calls run right after it.
  - `DLRequestFails(t, h)`.
  - `BitcoindAnswersCI(t)`: bitcoind evaluates getblockchaininfo; the answer holds its tip at that moment.
  - `CIReplyArrives(t)`: the answer reaches the task's results lambda, which posts success. The two steps are apart, so two probes' answers reach the Controller in either order.
  - `CIRequestFails(t)`.
  - `Mine`.
  - `IBDEnds`.
  - `BitcoindConnects` and `BitcoindLost`: the BitcoinDMgr signals, which post events to the Controller.
- **Shutdown.** `Cleanup` is `Controller::cleanup`:
  - the Controller thread stops, and its queued events are never handled;
  - every task is deleted, and each destructor stops the task's thread;
  - `srvmgr` and `bitcoindmgr` are torn down and `sm` is reset.
  - Nothing runs after it. The constant `MayShutdown` enables it in `sync_safety` only. The liveness properties assume a process that keeps running.
- **Shared pieces** that the actions use, each a definition of its own so that a mutant can change it:
  - `WaitForBitcoinD` (the lambda of the same name);
  - `EnablesPollTimer` (the states whose branch sets `enablePollTimer`);
  - `FinishedPostsRm` (the `finished -> rmTask` hook);
  - `TopUp` in `CtlTasks` (the `q_ct` top-up loop of `do_get`).

### Abstractions

- A block is its height. Without a reorg, the block at a height is unique.
- The verifier accepts exactly the header at height `nHeaders`. On a rejection it restores its state.
- The two RPCs of `do_get`, and the fields of `getblockchaininfo`, collapse into one answer: good or failed.
- In `SyncController`, a task's queued `process()` calls run right after the step that queued them. This keeps the state space within reach.
  - Those calls touch only the task's own record.
  - `DownloadPipeline` keeps each call as a step of its own and checks the task with every interleaving.
- Task addresses are model values. An address freed by `rmTask` can be allocated again, as `new` may do. TLC finds no stale event that outlives its task's `rmTask`: the Controller's queue is FIFO and a task's events are posted before its `finished`, so reuse never fools `isTaskDeleted` in the model.
- All live gate connections are one flag. They fire on the same signal and arm the same named timer.
- The poll delay, logging, statistics and `save` are left out. Section 5 says why.

## 3. Runs

| Run | Config | Expect | What it shows |
|---|---|---|---|
| `pipeline` | `MCDownloadPipeline.cfg` | pass | Stride 2 over 3..21 (ten heights), `max_q = 4`, up to two failed requests. About 345k states. `OutstandingWithinMaxQ`: in-flight plus queued requests never exceed `max_q`. `DeliversOnce` (refinement of `DeliverOnce`): every height of the class is handed to `putBlock` once. Success comes only after the last height, never after errored, and no block follows it. `EventuallySucceeds`: without failures the task succeeds. |
| `sync_safety` | `MCSyncController.cfg` | pass | Storage at height 0, bitcoind at 3 and mining up to 4, `DL_CONCURRENCY = 2`, one failed request, four task addresses (symmetric), and a shutdown at any point. `VerifierNeverRejects`: the verifier is only ever handed the next header, even with stale tasks, reused addresses and interleaved rounds. `NoLostHeight`: every height a round still needs is on its way, or the round is about to fail. About 1.16M states. |
| `sync_liveness` | `MCSyncLive.cfg` | pass | Empty database, bitcoind at 1, IBD on or off, no failures, no mining, no symmetry. `EventuallySynced`: storage reaches bitcoind's tip and stays there. `TasksReaped`: every task is eventually removed from `tasks`. |
| `reconnect_liveness` | `MCSyncReconnect.cfg` | pass | One drop at any point, IBD on or off, storage at bitcoind's tip 1 or one header behind. `KeepsPolling`: a round is under way infinitely often, although the drop stops the poll timer. `EventuallySynced`: as above. The tip does not grow here: with mining, the race of `stale_probe_fatal` ends the process. |
| `msgid_assign` | `MCRPCMsgIdType.cfg` | pass | Two ids, integers {0,1,2}, texts {"", "1", "a"}, every sequence of constructors, assignments, `clear()` and copies. `TypeOK`: every member stays in its type, so `idata` always has its `{}` initialiser. |
| `finished_dl_early` | `MCSyncFinishedDL.cfg` | violation | `FinishedDLHasLastHeader`: FinishedDL is entered one header early (finding 1). |
| `stale_block_below_next` | `MCSyncStaleBlock.cfg` | violation | `BacklogAboveNext`: a task of a failed round puts a block below `ppBlkHtNext` into the next round (finding 2). |
| `download_round_stalls` | `MCSyncStall.cfg` | violation | `DownloadRoundEnds`: that block stops the drain loop for good (finding 3). The run cuts behaviours whose queue grows past 4 events, so the counterexample is found within about two minutes. The counterexample ends with an empty queue, no task and no timer armed. |
| `double_chain_probe` | `MCSyncProbe.cfg` | violation | `SingleChainInfoProbe`: two queued `process()` calls each spawn a chain-info probe (finding 4). |
| `stale_probe_fatal` | `MCSyncAbort.cfg` | violation | `NeverAborts`: the older of two probes' answers, handled after the newer one's round stored a header, ends the process with `Fatal()` (finding 7). |
| `servers_never_start` | `MCSyncServe.cfg` | violation | `ServersEventuallyStart`: the servers never start after an IBD start (finding 5). |
| `msgid_text_ctor` | `MCRPCMsgIdText.cfg` | violation | `HashIsValue`: an id built from a `const QString` hashes as the integer 0 (finding 6). |

Every property of a passing run has a mutant in `PROJECT.json`. Each mutant is a plausible slip in the code that TLC catches:

- `next > to` test dropped;
- `max_q` bound dropped;
- `goodCt` counted before the header check;
- top-up loop stopping one request early;
- `endHeight` one too high;
- base taken as the tip instead of the count;
- reassembly erasing one block too many;
- IBD branch not arming the poll timer;
- `finished` not reaching `rmTask`;
- `waitForBitcoinD` not connecting a new gate;
- `idata` without its `{}` initialiser.

### Bounds

- Two download tasks over three or more heights are needed for a stride-2 interleaving, for out-of-order answers and for one task to outlive its round.
- One failed request is enough to fail a round while sibling tasks keep delivering.
- Mining two blocks during `sync_safety` makes a task from before a `FinishedDL` deliver into the next round.
- Four task addresses allow a chain-info task, two download tasks and one stale task at once. `ProcessGetBlocks` waits while fewer addresses are free; this is a bound of the model, not of the code. That is why `sync_safety` and the violation runs do not check deadlock.
- `max_q = 4` (BitcoinDMgr's `N_CLIENTS + 1`) is below the ten heights of the pipeline run, so the bound and the top-up loop both come into play. Two failures let a task fail while requests are still outstanding, and then fail again.
- One drop is enough for the gate to fire twice: once at startup, and once after the reconnect, in whatever state `sm` is then. In `reconnect_liveness`, one download task per round keeps the overlapping rounds within four task addresses.
- `sync_safety` and `download_round_stalls` keep `MaxDrops = 0`. The startup gate then contributes three steps before the first `process()`.
- The liveness run is smaller so that its liveness check and its mutants stay fast. It still reaches the extra round that finding 1 causes.

### Fairness

- Weak fairness is assumed on:
  - the Controller thread handling its queue (a Qt event loop handles every posted event);
  - the poll and `callProcess` timers firing once armed;
  - BitcoinDMgr eventually getting a good connection (it retries; the code waits for this signal);
  - bitcoind answering every outstanding request (the RPC layer fails a request it cannot complete, through `on_failure`);
  - bitcoind eventually leaving IBD.
- There is no fairness on failures, lost connections or mining.
- `DownloadPipeline` assumes the same for the task thread and the stop hook.

## 4. Findings

1. **FinishedDL one header early** (`Controller.cpp:536`).
   - `ppBlkHtNext >= endHeight` holds right after the header at `endHeight-1` is appended.
   - spec.md section 8 says FinishedDL leaves the storage tip at `endHeight`.
   - The last block, if it is late, is dropped by `putBlock` once `sm` is reset. It is downloaded again in an extra round.
2. **Stale tasks deliver into the next round** (`Controller.cpp:480`, `474`).
   - `sm.reset()` does not remove the tasks of the round it ends.
   - Their blocks pass `putBlock`'s checks in the next round, at heights that round has already consumed.
   - This breaks the spec.md section 3 invariant that `ppBlocks` holds no height below `ppBlkHtNext`.
3. **The sync stalls** (`Controller.cpp:517`).
   - The drain loop only pops while `ppBlocks.begin()` is `ppBlkHtNext`, so an entry below it stops the loop for good.
   - The poll timer is off during `DownloadingBlocks`.
   - After one failed request the Controller never reaches bitcoind's tip.

4. **A second chain-info probe** (`Controller.cpp:417`).
   - The `Begin` branch spawns a probe on every `process()` call.
   - Extra `process()` calls from `putBlock`'s `AGAIN()`, from `FinishedDL`, or from the gate's timer run after `sm.reset()`, and each spawns another probe.
   - The second probe's success sets `sm` back to `GetBlocks` under the running round, and that round's download tasks are started again.
5. **Servers never start** (`Controller.cpp:438`).
   - `upToDate` is not emitted for poll-driven rounds (`beSilentIfUpToDate`).
   - If the storage is first found at the tip by such a round (after IBD, a failure or a reconnect) and no new block comes, the one-shot hook never starts `SrvMgr`.
   - spec.md section 4.4 emits `upToDate` whenever `storage_tip == targetHeight`.
6. **RPCMsgId from a const QString is an Integer** (`RPCMsgId.h:42`).
   - `RPCMsgId(const QString &)` sets `typ = Integer`, unlike the `QString &&` constructor and `operator=`.
   - Such an id hashes and reads as the integer 0.
7. **A stale probe answer ends the process** (`Controller.cpp:443`).
   - With two probes running (finding 4), bitcoind answers the first at tip 3, mines, and answers the second at tip 4.
   - The second answer arrives first; its round stores header 4.
   - The first answer is then handled under a non-null `sm`: `old = 4 > 3`, and the handler calls `Fatal()`.
   - spec.md sections 1 and 5 keep the fatal exit for an impossible regression. Here bitcoind's tip never went back.

## 5. Not modelled, and the plan

- **Abstract sync specification.** What the Controller promises the storage is that headers grow contiguously, never past bitcoind's tip, and eventually reach it. In the model a block only arrives for a height at or below `remoteTip`, and the verifier only appends the next header. So the safety half of such a refinement holds by the shape of the environment, and its liveness half is `EventuallySynced`. A refinement mapping on `nHeaders` would check nothing more, so none is written. The download task, whose contract is not visible in its code, does have one (`DeliverOnce`).
- **Liveness with drops and failures together.** The state space with overlapping rounds grows past what TLC explores in minutes.
- **RPCMsgId comparisons and conversions.** `operator<`, `==`, `toVariant`, `fromVariant`, `toInt` and `toString` are defined outside `src/`.
- **"Only heights above the storage tip are requested"** (spec.md section 3). Finding 2 shows tasks of a failed round still requesting consumed heights. A run of its own would repeat that finding, so none is kept.
- **Storage, save, crash and restart.** The database is outside `src/`, and the Controller only enqueues saves.
  - Saves happen at `FinishedDL` (line 476) and when `nLeft % 10000 == 0` (line 571).
  - `nLeft` counts down to the end of the round. A round that fails before its first periodic save, followed by a round that starts after new blocks, can leave more than 10000 headers unsaved. spec.md section 4.5 says every 10,000 headers.
  - Showing this needs a saved-count variable, `SaveEvery >= 4` and heights up to 6. That instance is beyond the runs that finish in time, so it is listed as a hazard in `PROJECT.json` and not checked.
- **A completed round failed before its save** (`Controller.cpp:474`). The `FinishedDL` branch, the only save of a round, runs from an `AGAIN()` queued behind events already posted. An errored signal ahead of it moves `sm` to Failure, and the round's headers stay unsaved while the next probe reports up to date. In the `sync_safety` bounds TLC reaches this only through finding 1. Otherwise it needs two failures, or a drop and a failed probe. It is listed as a hazard and not checked.
- **A stale task failing a later round** (`Controller.cpp:375`). The errored handler only checks that the task is still registered. A download task that outlived a failed round can fail the next one. This takes two failed requests, and `MaxFaults = 2` with two download tasks is beyond the runs that finish in time.
- **Statistics.** `stats()`, `nHeadersDownloadedSoFar` and `nTxInOutSoFar` only read and format state. No decision of the Controller reads what they compute.

## 6. Running

```
cd tla
tlc -workers 2 -config MCDownloadPipeline.cfg MCDownloadPipeline
tlc -workers 2 -config MCSyncController.cfg MCSyncController
tlc -workers 2 -config MCSyncLive.cfg MCSyncController
tlc -workers 2 -config MCSyncReconnect.cfg MCSyncController
tlc -workers 2 -config MCRPCMsgIdType.cfg RPCMsgIdType
```
