# The NEXTSPACE Workspace, its window stacking and its dispatch library: a TLA+ development

xperimentum is a desktop built from GNUstep, NEXTSPACE and a set of user
applications. Most of its 2.4 million lines are third-party libraries carried in
the tree. Three parts have state worth verifying and are modelled here:

* the *Workspace*, which runs background operations on the user's files in separate
  processes, talks to them through pipes and decides when a session may end; a
  mistake there costs files;
* the *window manager* inside the Workspace, of which the stacking lists are
  modelled; a mistake there is a wild pointer in the process that holds the session;
* *libdispatch*, whose groups, semaphores and global queues carry the threads of the
  desktop; a mistake there is a thread that sleeps for ever.

The project model-checks them with TLC and proves their safety properties with TLAPS.

Paths below are relative to `src/src/system/nextspace/Applications/Workspace/`
unless they start with `src/`; `LD/` stands for `src/src/system/libdispatch/src/`.

## 1. Inventory

| Component | State | Operations | Talks to |
|---|---|---|---|
| FileMover tool, `Tools/FileMover/*.m` | the two directory trees, position in the file list, `isStopped`, `makeCleanupOnStop` | Copy, Duplicate, Move, Link, Delete; cleanup after a stop; SIGINT handler | Communicator |
| Communicator, `Tools/Communicator.m` | remembered answers, the open alert | print an alert line, wait for a letter, print the final report | the Workspace, by stdin and stdout |
| FileMover operation, `Operations/FileMover.m` | `state`, `problem`, `isSizing`, `isSuspended`, the truncated line | launch Sizer then tool, `readInput:`, `postSolution:`, `pause:`, `stop:`, the two termination handlers, `destroyOperation` | the tools, ProcessManager, the Processes panel |
| BGOperation, `Operations/BGOperation.m` | `state` | `setState:`, create and destroy notifications | ProcessManager |
| ProcessManager, `Operations/ProcessManager.m` | `operations`, `applications`, `_workspaceQuitting` | start an operation, the notifications, `terminateAllBGOperations`, `terminateAllApps` | Controller, window manager thread |
| Controller, `Controller.m` | `isQuitting` | `applicationShouldTerminate:`, panels, media notifications | all of the above |
| Sizer, `Operations/Sizer.m`, `Tools/Sizer` | sizes, `inputLock` | computes sizes before a file operation and for the inspector | FileMover operation, ProcessManager |
| Stacking, `WM/src/stacking.c` | per level a doubly linked list of frames with its top, `child_of`, `window_count`; the order at the X server | raise, lower, add, remove, move, change level, remake, commit | windows, icons, dock, clients' configure requests |
| Applications, focus, dock, `WM/src/application.c`, `window.c`, `dock.c` ... | the list of applications with reference counts, the focused window, docked icons | X events, launch and end of applications | stacking, the bridge `Workspace+WM.m` |
| Semaphores, `LD/semaphore.c`, `LD/shims/lock.c` | `dsema_value`, the kernel's semaphore | signal, wait with and without a deadline | the global queues (as the mediator) and applications |
| Groups, `LD/semaphore.c` | `dg_state` (value, generation, two flags), the notification list, references | enter, leave, notify, wait, async | futexes, queues |
| Global queues, `LD/queue.c`, `LD/inline_internal.h`, `LD/event/workqueue.c` | the item list, `dgq_pending`, `dgq_thread_pool_size`, the mediator, registered workers | push, poke, drain one, worker life, monitor tick | semaphores, pthreads, the manager's timer |
| Mounter and media, `Operations/Mounter.m`, SystemKit `OSEMediaManager`, `OSEUDisks*` | `mediaOperations`, drives and volumes | mount, unmount, eject | UDisks over D-Bus, Controller |
| NSWorkspace services, `Controller+NSWorkspace.m` | launched applications, the shared launch file | launch, notifications | applications |
| Login, `Applications/Login` | user sessions | start, restart, end of a session | PAM, Workspace |
| OSEFileSystemMonitor | monitored paths, its thread | add, remove, event dispatch | viewers |
| TerminalKit, GTKWebKit | parser state; a GTK loop beside the GNUstep one | pty and GTK events | the applications |

What is hard here:

* *Interleaving.* A tool, the run loop of the Workspace and the user act on one
  operation at the same time; a signal can fall between any two system calls;
  the window manager's thread reports X applications without a lock.
* *Stale state.* `stop:` decides between a signal and an answer by the
  Workspace's own `state`, which lags behind the tool by what is in the pipe. The
  tool looks up whether a target exists before it asks the user what to do.
* *Partial failure.* Every system call of a copy can fail, and a move between
  file systems is a copy followed by a delete.
* *Liveness.* Alerts wait for a click, the log out waits for the operations, and
  an operation leaves the list only by a timer.

* *Lock-free code.* libdispatch takes its decisions with single atomic operations on
  words that other threads change in between; the window in question is a few
  instructions wide and no test reaches it on purpose.
* *Long sequences.* The stacking lists are changed by ten functions, each with its own
  handling of tops, ends, levels and transients.

`PROJECT.json` lists each of these hazards with its line and the properties that
would catch it. The properties that make the components correct: a move loses no
file the user was not told about; an older file is kept unless the user was
asked; a cleanup undoes; a stop ends the tool; an alert on the screen is the
question the tool waits on and every answer reaches its question; every operation
ends; a session does not end under a running operation; a log out that was given
up leaves a working session; the stacking lists stay lists that agree with the server
and fit the buffer they are copied to; every thread that waits on a semaphore or a
group is woken, once; every item of a global queue is invoked, once; the counters of
threads and references stay true.

## 2. Modules

```
 ToolProtocol  <--implements--  FileMoverTool          (FileMoverTool_proofs <-
      |                          MCFileMoverTool         FileMoverCarry_proofs)
      |
   INSTANCE
      v
 FileMoverOp   --implements-->  BGOperation            (FileMoverOp_proofs)
  MCFileMoverOp                      |
                                 INSTANCE, one per operation
                                     v
                               ProcessManager          (ProcessManager_proofs)
                                MCProcessManager

 DispatchSemaphore  --INSTANCE (the mediator)-->  DispatchRootQueue
  MCDispatchSemaphore                              MCDispatchRootQueue
 (DispatchSemaphore_proofs)  --INSTANCE-->        (DispatchRootQueue_proofs)

 DispatchGroup                                    Stacking
  MCDispatchGroup                                  MCStacking
 (DispatchGroup_proofs)                           (Stacking_proofs)
```

**`FileMoverTool`** is the tool process. Its variables are the two trees `src` and
`dst` (a function from paths to what lies there), the control point `pc`, the walk
through the list and the open directories, and the Communicator's answers. An
action is the code between two points where a signal, an answer or a failure can
intervene: `CopyRegular`, `RegExists`, `RegCreate`, `RegOpen`, `RegLoop`,
`RegAttrs` are the body of `CopyRegular()`, and so on. `Ask` is
`howToHandleProblem:`, which also clears `makeCleanupOnStop`; `Interrupt` is the
SIGINT handler, which only sets `isStopped`; before the handler is installed the
signal kills (`Killed`), and between its installation and `isStopped = NO` it is
forgotten (`Start`). A file is one of "complete", "incomplete", "was there before"
and so on; names and bytes are not kept. `CopyFile` on a link that is followed
is modelled with the `trav` flag, as in the code. The paths below a link to a directory
are what is found by following it (`Away`); the flag is not passed to them, so a link there
asks again. For a Duplicate the target of a path is its `CopyOf_` name, which lies next to the
source: a Duplicate of a link to its own directory that the user lets follow it comes upon the
directory it is making (`Own`, there as soon as it is made, `Present`), enters it, makes the
same inside, and goes on until a name is too long (`TooLong`) and the creation of the
directory fails.

**`ToolProtocol`** is what the Workspace may rely on: one question at a time, one
answer to each, a remembered answer is not asked for again, a report at the end.

**`FileMoverOp`** is the Workspace object with the tool (as `ToolProtocol`) and the
two pipes. Each handler is one action: `ReadInput` (any number of lines per read),
`PostSolution` and `PostStop` (the buttons of the alert view), `Suspend` and
`Resume`, `UserStop` and `ManagerStop` (both `stop:`), `SizerTerminated`,
`TaskTerminated`, `DestroyOperation`. `Buttons` is the table of buttons for each
alert; the assumption `ButtonsAccepted` says the tool accepts each of them, and
TLC evaluates it on the tables taken from the code.

**`BGOperation`** is the abstract operation: state, is a question open, and life.

**`ProcessManager`** holds several operations (each a `BGOperation`, a Sizer without
questions) and the applications, and the whole of `applicationShouldTerminate:` as
the variable `stage`: `confirm` and `bgPanel` are the two panels, `bgWait` the
waiting loop, `apps` the loop of `terminateAllApps`, `refused` the last panel.
Whether clicks are served (`Interactive`), the default run loop runs (`Looping`) or
news of an application can arrive (`Notified`) is taken from how the Workspace uses
GNUstep: a modal panel blocks the default mode, `runUntilDate:` dispatches no
window events, a connection also serves requests while it waits for a reply
(`src/src/system/gnustep-base/Source/NSConnection.m:1136-1137`), and
`WSApplicationDidDestroy` is called through a global queue
(`WM/src/application.c:297`), so at any time.

**`DispatchSemaphore`** has one action per atomic operation of `dispatch_semaphore_wait`
and `_signal`: the decrement (`Wait`), the kernel's wait with or without a post
(`TimedWaitGets`, `TimedWaitExpires`, `WaitGets`), the compare-and-swap loop that takes a
decrement back (`Undo`), the increment (`Signal`) and the post (`Post`). `credit` is a
history variable: what the semaphore still owes to callers.

**`DispatchGroup`** keeps the 64-bit word as a record of its four fields. Clients hold a
reference and call `dispatch_group_async` (`Enter`, `EnterRetain`, `ContinuationAsync`),
`_notify` (`Notify` ... `NotifyFlag`) and `_wait` (`Wait` ... `WaitAgain`); workers run the
blocks and leave (`LeaveAdd`, `LeaveClear`); whoever fires the notifications goes through
`WakeCapture`, `WakeSubmit`, `WakeWaiters`, `WakeRelease`. The list is the os_mpsc list with
its two-step push: in `dg_notify` from the swap of the tail, in `linked` once the
predecessor points to it. Futexes compare and sleep in one step, and a sleep may end by a
wakeup, a signal or the deadline. Which worker runs a block, and which block a client
passes, makes no difference and is fixed by CHOOSE.

**`DispatchRootQueue`** is a global queue with its pool of threads. Clients push
(`PushTail`, `PushLink`), and whoever believes there is work pokes (`PokeProbe` ...
`PokeCreate`, the steps of `_dispatch_root_queue_poke_slow`); workers are born, register,
take items (`Drain...`, the atomic steps of `_dispatch_root_queue_drain_one` with its
contended waits), invoke them, sleep on the mediator and leave. The mediator is an
instance of `DispatchSemaphore`; sleeping and signalling are its actions. `MonitorTick` is
the timer of `workqueue.c`: which workers `/proc` shows as runnable is not determined.
`overcommit` distinguishes the two kinds of global queues.

**`Stacking`** holds the lists as they are linked (`above`, `under`, `top`, `window_level`),
and `x`, the order at the X server: `x[f]` is the set of the frames over `f`, for each that the
server has. A walk along the pointers is `Met`, the set of the frames it meets, from which
the frames of a level (`Column`), those below a frame (`Below`) and what `CommitStacking` puts
into its array (`Listing`) are read off. The operators named after the functions
of `stacking.c` change a desk (lists and order) the way the code does, one pointer after
the other. `wRaiseFrame` calls itself; `Raising` has its steps one after the other, each a
`RaiseStep`: a transient is put on top and its call becomes the innermost one (`cur`), or
the innermost call puts its frame in its place at the server and returns. The actions are the places the window manager calls them from: a window or an
icon is made or destroyed, raised, lowered, moved to another level, docked under another
icon, configured by its client, chosen in the switch panel; an icon of a starting
application is shown, held back from the lists and put back. `transient_for` is what each
window's client says its owner is, and `child_of`, which the stacking functions go by, what it
said when the window was managed; `ChangeTransientFor` is the handler of WM_TRANSIENT_FOR,
which sets the first only. `Reuse` says whether a freed frame's address may be given out
again, `Changes` whether clients name other owners. No handler reads
`transient_for`, so the run `Stacking` takes states that differ only there, or by a renaming of
windows or of icons, for one (`MCView`); its properties do not mention it but for its type.

## 3. Runs

| Run | Instance | Checks | Distinct states |
|---|---|---|---|
| `ToolTree` | five operations on a directory with a file and a link, and a dangling link; all older contents of the destination; same or other file system; unreadable links; SIGINT anywhere | `TypeOK`, `MoveLosesNothingUntold`, `OldFilesKept`, `CleanUpUndoes`, `SilentCompletion`, `ImplementsProtocol` | 2 274 668 |
| `ToolLinks` | five operations on a link `c` to `.`, through which `c` and a link to a directory with a file are seen again; a Duplicate meets its own output once, and its name is too long the second time; with fairness | `Termination` | 1 697 164 |
| `ToolFaults` | a directory with a file and a device; every system call but `write()` may fail | `MoveLosesNothingUntold`, `StopEnds` | 277 925 |
| `Operation` | three alerts of five kinds, two stops, Suspend; with fairness | `TypeOK`, `AlertIsCurrent`, `NoStrayAnswer`, `ImplementsOperation`, `QuestionIsShown`, `Destroyed` | 44 324 |
| `Manager` | two file operations, a Sizer, an X and a GNUstep application, Workspace | `TypeOK`, `NothingRunsAtQuit`, `SessionUsable`, `OperationsBehave` | 881 455 |
| `Group` | two clients, one of which waits, two workers, two enters, two notification blocks; with fairness | `TypeOK`, `OneFires`, `FlagsHaveReader`, `NoUseAfterDispose`, `NoLostWakeup`, `WaitIsHonest`, `Settles` | 353 207 |
| `Semaphore` | five threads, initial value 1, up to three signals ahead | `TypeOK`, `EveryWaiterCounted`, `NoOverAdmission`, `TimeoutsLeaveNoTrace` | 358 (up to symmetry) |
| `RootQueue` | two clients with an item each or one with a chain of two, three workers, both kinds of queue, one processor, two threads at most; with fairness | `TypeOK`, `PendingAccounted`, `PoolAccounted`, `InvokedOnce`, `AllInvoked` | 226 151 |
| `Stacking` | three windows, two icons, two levels; clients change owners | `ListsWellFormed` (with the types), `CommitFits`, `ServerAgrees`, `RaiseReturns`, `TransientsStayAbove` | 5 874 (up to `MCView`) |

Three more runs show where the code does not do what its comments, alert texts or
panels say; each has an entry under "findings":

* `ToolCleanUp`: a copy that is stopped before its first alert removes files that
  were at the destination before, and undoing a move renames them over the source.
* `ManagerLogOut`: a question that arrives during a log out cannot be answered,
  whichever button of the panel was used, and the log out hangs.
* `StackingReuse`: `child_of` of a transient (`WM/src/window.c:1266`) is not cleared when
  the owner's frame is freed; a new frame at the same address becomes its owner. (Until
  an address is used again the pointer is only compared, so `Stacking` runs without reuse; the
  theorems about it, but for `RaiseAlwaysReturns`, hold with it too.)

Section 6 lists the other disagreements that were met.

`MoveLosesNothingUntold`, `CleanUpUndoes` and `OldFilesKept` are stated so that these
known cases are excluded by name (a cleanup over older files, a link the user was
asked about); they hold for everything else.
`OldFilesKept` under failing calls is left to its theorem (`OldKept`, section 4), which has no
condition on them.

**Bounds.** A tree needs a directory with two children and a sibling to let a stop
or a failure fall before, inside and after a directory; deeper trees repeat the
same actions. `ToolLinks` has one directory of a Duplicate's own output that can be made
and one that cannot: between them the walk does the same at every level. Three alerts are enough for an answer to meet the wrong question and
for a remembered answer to be used, two stops for a stop after a stop. Two file
operations are enough for one to end while the other asks. `MaxAsks` is one per
operation in `Manager`; repeated questions are covered in `FileMoverOp`. No symmetry
is used there. `MaySplit` is FALSE in all runs (see section 6). `Operation` switches the
deadlock check off because the user may leave a task suspended.

A group needs two generations for a late wakeup to meet a new wait, hence two enters, and
two blocks for a notify to find the list of another one; one client waits because the
waiters do not interact. Five threads on a semaphore let two signals race with two
deadlines while another thread waits. In the global queue two items are enough for a
push to meet the worker that takes the last item, three workers for one to leave while
two contend; `MaxCredit` bounds how far the monitor raises the mediator, which only matters
while nothing else happens (it still ticks when no worker is left). A poke for more than
one worker that finds a sleeper, and a floor of the monitor other than its two extremes,
do not occur with one processor. Three windows give a transient of a transient, a level
with something above and below, and a window unrelated to both; frames of one kind are
interchangeable, so states that are renamings of each other may be taken for one in `Stacking`
(its `PROPERTY` is about single steps) and in `Semaphore`; no run with liveness uses it. These runs may stop, since clients
make finitely many calls or none, so the deadlock check is off.

**Fairness.** The processes are scheduled by the system unless stopped by SIGSTOP;
the run loop serves every source that is ready; the user answers an alert or a
panel that can be clicked, and resumes what was suspended. Nothing is assumed of
stops or signals. In `ProcessManager` answering is strongly fair, as a panel may come
between; that makes `ManagerLogOut` the stronger: even such a user cannot help. In `DispatchGroup`
and `DispatchRootQueue` every thread that is inside a call is scheduled, blocks end, and
the monitor's timer goes on firing; no deadline, signal or call is ever forced.

`AllInvoked` needs that timer. On a queue that is not overcommit a poke gives up while a
request is pending (`LD/queue.c:5721`), and a worker that backs off counts as pending: a
push in that moment asks for nobody, and if all workers then go to sleep only the monitor
starts another one. Its mutant shows that without the stall rule of the monitor an item
stays on the queue for ever.

## 4. Proofs

TLAPS proves for every value of the constants, that is for every tree, file list,
set of failing calls, number of alerts, operations, applications, threads, blocks and items:

* `FileMoverTool_proofs`: `TypeCorrect` (types, and an alert is open exactly while the
  tool waits) and `ToolImplementsProtocol` (refinement of `ToolProtocol`). The types
  are inductive once `TreeAssumption` gives that parents and children of paths are
  paths; the refinement needs them for the control points only.
  It also has `OldKept` (`OldFilesKept`) and `CleanUpIsUndo` (`CleanUpUndoes`),
  without a condition on the failing calls beyond what the properties name. Neither
  property is inductive. `WalkInv` (theorem `WalkInvariance`) adds which function is at work
  on which path (`Places`, `Contents`, `Ends`), that both directories stay trees (`Trees`: what
  is removed goes with all that lies under it), and that between the look at a target and its
  removal the alert is raised, and between the removal and the creation nothing stands there
  (`Asked`, `Cleared`, `MoveFree`). For the cleanup, `TouchInv` (theorem `TouchInvariance`) adds
  that what the loop has not come to is as it was, that only Move and Delete touch the source,
  and that a move within a file system leaves each name wholly at one end.
* `FileMoverCarry_proofs`: `MoveKeeps` (`MoveLosesNothingUntold`) and `SilentIsComplete`
  (`SilentCompletion`), both under `"write" \notin Faults`: `CopyRegular` ignores the result of
  `write()` (section 6), and every other call may fail. `CarryInv` (theorem `CarryInvariance`)
  is an account of the walk. `Progress` says that each path under the listed name is as it
  should be, excused by an alert, or still to come; to keep it when `CopyDirectory` returns one
  needs that the open directories are those above the current path and the rest of their
  contents is apart from it (`OpenDirs`), that the function at work is the one for the kind of
  file (`Kinds`), and that a move, which asks about its target before it copies, meets nothing
  on the way (`Fresh`). `SilentIsComplete` adds what is known of the names the loop has done
  with as long as no alert was raised (`Heard`, `Silent`).

  The proofs about the directories rest on `TreeAssumption`, `RunAssumption`, `ListAssumption` (a
  list names no file twice: it is a selection in one directory) and `DepthAssumption` (paths
  have a longest one). Where an argument goes along a path, the proof takes the shortest or
  longest counterexample, which exists because `<` on the naturals is well founded (`WFMin` of the
  library), in place of an induction.
* `FileMoverOp_proofs`: `TypeCorrect`, `CurrentAlert`, `AnswersMatch` and
  `OperationImplemented` (refinement of `BGOperation`), all under `~MaySplit`.
  `AlertIsCurrent` and `NoStrayAnswer` are not inductive: a read could show an old
  line. The invariant `IInv` adds `LineIsQuestion` (an alert line in the pipe is the
  last line, is the open question, and has been neither shown nor answered) and
  `Stages` (Sizer, tool, timer in that order). The lemma `AlertOfRead` then says
  what a read of any length shows. `QuestionShown` (`QuestionIsShown`) says what the
  one step is that may take a question off the screen without an answer; with `ReportLast`
  (all that the tool prints until it exits are alerts) a question is on the screen or the last
  line of the pipe (`OnItsWay`), and every other step keeps it so. Besides `OpAssumption` the proofs use `ButtonsAccepted`.
* `ProcessManager_proofs`: `TypeCorrect`, `CleanQuit`, `UsableSession` and
  `EachOperationBehaves`. `IInv` adds that no operation is left past the waiting loop
  (`NoOperationsLeft`; it stays so because nothing is created while the session is
  not interactive), that the two flags follow `stage` (`Flags`), and that an alert
  belongs to a question (`OpStates`).
* `DispatchSemaphore_proofs`: `TypeCorrect`, `WaitersCounted`, `Admission` and `NoTrace`, for
  any number of threads. The invariant `IInv` adds `Balance`: the value is the credit less
  the threads in the slow path. `EveryWaiterCounted` is inductive by itself; with `Balance`
  it gives that the credit is never negative and bounds both counters by the number of
  threads. The lemma `Moves` says how the counts change when one thread changes place. The
  assumption is that there are finitely many threads.
* `DispatchGroup_proofs`: `TypeCorrect`, `OneFiresHolds`, `FlagsAreRead`, `WakeupsKept`,
  `DisposedWhenUnused` and the action property `WaitHonest` (a wait that returns, woken,
  interrupted or past its deadline, tells the truth in both directions). `IInv` has `Structure` (types, which thread
  can be where, and `Counted`: the value is the number of threads that entered and have not
  left), `OneReader` (at most one thread is responsible for the list, none while the flag is
  set or the list is empty), `FlagsHaveReader`, `WaitsKept` (the waiters' flag stays as long as
  the generation a thread waits for, and afterwards a worker that took it, or is about to, wakes
  the sleepers) and `RefsCounted` (an account of the references: clients, the generation, each
  leave on its way, the list and who carries it). The first four are kept by every step given
  `Structure`; the references need `OneReader` as well.
* `DispatchRootQueue_proofs`: `TypeCorrect`, `PendingCounted`, `PoolCounted`, `OnceOnly`
  (`InvokedOnce`) and `MediatorUsed`. `PendingAccounted` and `PoolAccounted` are inductive with the roles
  of the threads: each step books what it changes for the one thread that moves. `InvokedOnce`
  needs `OneLeads`: at most one place (the head, the worker that owns an item, one about to put
  the rest back as the head, a pusher, a link not yet followed) leads to an item, and none to one
  that ran; a step makes a place lose its item or pass it on to one other place.
  `MediatorUsed` is the refinement of `DispatchSemaphore` by the mediator, from which its types
  follow by the theorem about semaphores. `RootQueueAssumption` says that a continuation is
  in one chain, once, and that the pool holds at least one thread per processor.

* `Stacking_proofs`: `ListsStayWellFormed`, `CommitAlwaysFits` and `ServerAlwaysAgrees` (`ListsWellFormed`,
  `CommitFits`, `ServerAgrees`) and `TransientsAlwaysStayAbove` (`TransientsStayAbove`), with and
  without reuse of addresses and changes of owners; and `RaiseAlwaysReturns` (`RaiseReturns`)
  without reuse.

  The first three hold only together: single requests put the server right because the
  lists were, and the lists can be made again because the server's order is one. The invariant
  is `StackInv`: there is an order `o` of the listed
  frames of each level such that the links and tops are those of `o` (`Linked`) and the server
  shows it (`Agree`, together `OnDesk`), the count is right and a `child_of` that is set is the
  address of a frame that there was (`PartInv`). The
  order is not a variable of the model; each operator of `stacking.c` is shown to turn an order
  into another one that is said in full: without a frame, with one on top, with one under another.
  What a walk meets is the least set that holds its start and follows the pointers
  (`MetIsLeast`); that it comes to its end within as many steps as there are frames is the
  pigeonhole principle. `WalksDown` then gives columns and what is below a frame from `o`.

  Raising has an invariant of its own, `RaiseInv`: the frames raised so far and those whose call
  is under way, of which each is a transient of the next lower one and on top of it; the server
  agrees but for the latter; a call that is over has left no transient under its frame. `Progress`,
  twice the number of frames raised less the number of calls under way, grows by one with
  every step, and a frame is not raised twice as long as it is not its own transient. That is
  `~Runaway`, and without reuse it always holds (`NoRunaway`): `RankInv` says that owners rank
  below their transients, since a frame is made after its owner and with an address to
  which nothing points. So the condition `~Runaway` of the actions that
  raise leaves out no step unless addresses are used again.

  The assumption, `StackingAssumption`, is that there are finitely many frames, that windows
  and icons are different and that there is a level.

Together with the refinements the file operations give one chain: the tool implements the
protocol, the Workspace object over that protocol implements `BGOperation`, and the
ProcessManager's operations take only `BGOperation` steps.

Each inductive invariant was checked with TLC on the run of its module before it was proved.

Only model-checked: what needs fairness (`Termination`, `StopEnds`, `Destroyed`, `Settles`,
`AllInvoked`), which is out of the prover's reach. The three runs that show a disagreement
refute what they state, so there is nothing to prove in them.

## 5. Plan

1. Done: tool, protocol, operation, manager and log out; semaphores, groups and global queues;
   window stacking; all with proofs of every safety property that a passing run checks.
2. The list of applications of the window manager with its reference counts and the
   focused window; the application list of the ProcessManager with PIDs beside it.
3. Media: `Mounter`, the media notifications of `Controller.m` and
   `OSEMediaManager`/`OSEUDisks*`: events of UDisks in any order.
4. Sizer's reader with `inputLock`; Login sessions; the OSEFileSystemMonitor thread; the
   GTK loop of GTKWebKit; serial queues (lanes) of libdispatch.

## 6. Not modelled, and what was left out on purpose

* `write()` failing: its result is ignored (`Tools/FileMover/Copy.m:197`), so a full
  disk gives a short copy reported as complete, and a move then deletes the source.
  With `"write"` in `Faults` `MoveLosesNothingUntold` fails at once.
* A read of the pipe that ends inside an alert line: the piece is handled at once and
  again with its end (`Operations/FileMover.m:655`), the alert is shown twice, and the
  second answer meets the next question. `MaySplit = TRUE` shows it. Alert lines are
  short and written in one piece, so the runs and the proofs assume whole lines.
* Skip, in a Copy, ends the whole list (`Copy.m:58`); Overwrite of a file by a directory
  leaves nothing at the target (`Copy.m:107-111`). The model does both; no text of the
  repository says otherwise, so no run is about them.
* A link that the user skipped in a move between file systems is deleted from the source,
  as `CopySymbolicLink` returns YES for it (`Copy.m:304`, `Move.m:99-103`).
* Stop, as an answer to "file exists", removes the existing file: the answer -1 is not
  `SkipFile`, and the file goes before the loop looks at `isStopped` (`Copy.m:155`).
* An operation stopped while sizes are computed starts the mover: the handler looks for
  `OperationStopped`, `stop:` leaves `OperationStopping` (`Operations/FileMover.m:883`).
* An operation may be suspended while its alert is in the pipe; the alert is then shown.
  `stop:` resumes the operation, which sets its state to Running, so that it sends SIGINT to a
  tool that waits for a letter (`Operations/FileMover.m:544`). The Stop button of the alert
  sends the letter but does not resume the task, and Resume cannot be clicked any more
  (`Operations/FileMover.m:207`, `Processes/FileMoverUI.m:216-219`). Neither operation ends.
  `QuestionIsShown` excludes the first of these steps; `Destroyed` supposes that neither has
  happened: that questions stay on the screen and that the task is not left suspended.
* A client may name another owner for its window or none (WM_TRANSIENT_FOR):
  `wClientCheckProperty` sets `transient_for` and not `child_of` (`WM/src/client.c:536`), so raising
  and lowering go by the owner that the window was managed with. `ChildOfIsOwner` fails by this as well, with
  `Changes = TRUE`; `StackingReuse` leaves it out to show the other cause. `TransientsStayAbove` is
  about the window that `child_of` points to.
* After a stop raced with an alert that was answered Skip, the operation shows Completed
  (`FileMover.m:904`). The model has it; nothing in the code promises the opposite.
* `dispatch_group_notify` may submit a block although the group was not empty at any moment
  since the call: the leave of an earlier generation captures the list after it took the
  flag (`LD/semaphore.c:255`). A wait with a deadline on a semaphore may outlast it while it
  drains the post of a raced signal that another thread takes first (`LD/semaphore.c:132`).
  The model has both steps. The manual pages (`src/src/system/libdispatch/man`) say "once
  all blocks associated with the group have completed", with a caveat about groups that are
  used again while they run, and that a wait returns non-zero after its timeout expires.
* Raising a frame that is, through `child_of`, its own transient does not end
  (`WM/src/stacking.c:242`); `Runaway` excludes it, and without reuse of addresses it cannot
  arise (`RaiseAlwaysReturns`). A level change may put a transient's transient under its owner, and lowering
  a transient below a top owner moves it up; `TransientsStayAbove` is stated for the levels
  as they were before the step. `MoveInStackListAbove` has no caller.
* `wApplicationDestroy` frees `wapp->windows` before it looks at the reference count
  (`WM/src/application.c:275`), and `wUnmanageWindow` follows a window to focus that may not
  exist (`WM/src/window.c:1584`). Applications and focus are not modelled, as most statements
  about them that are worth making fail on these lines.
* A followed link in a Duplicate: of what it meets of its own output only the chain of the
  directories is in `Own`. The other files copied there are seen again at every level and
  copied again, which ends where the chain ends; loops of several links, a link
  to the parent, and a destination inside a listed directory are the same recursion at a
  greater distance. A chain of links to `.` (`c/c/c`) is cut after one level, by a
  link that leads nowhere as after the 40 links the kernel follows; in the code both that bound
  and the length of a path are large, so a user who answers "copy" to a link to `.` gets
  hundreds of directories before the tool gives up.
* Older symbolic links at the destination: `fileExistsAtPath:` follows links, so a dangling
  one counts as absent, and `rename()` in a move replaces it without an alert
  (`Tools/FileMover/Move.m:72-89`). `OldTrees` has older files and directories only.
* Smaller cuts in the tool and its reader: `CopyRegular` looks for the file it has just
  created and gives up without an alert if it is gone (`Copy.m:169-173`); `main` ends at once on
  bad arguments or an unknown operation (`FileMover_main.m:89-118`, `142-147`), before `Start`;
  `readInput:` returns on an exception of the pipe, and drops what it read if that does not
  decode as UTF-8 (`Operations/FileMover.m:618-636`), which takes a read that ends inside a
  character, as with `MaySplit`.
* In the global queues, a contended worker reads its predicate and then adds to `dgq_pending`
  by a separate operation (`LD/queue.c:5863-5885`), which is one step of `Contend`: the counter
  takes part in no decision of that worker. `MonitorTick` is the rule for one queue: the bound on
  runnable workers over all queues (`LD/event/workqueue.c:222`) is dropped, so
  a tick may poke more often, and with one processor the rule for queues below their target
  (`221-234`) never fires in the run, only the rule for stalled ones.
* In the stacking lists: `wManageWindow` lists the frame, calls `wApplicationCreate`, which may
  list an application icon, and only then sets `child_of` (`WM/src/window.c:1119`, `1211`, `1266`);
  `CreateWindow` is the whole of it, and the icon, whose own `child_of` is NULL, comes before or
  after. `RemakeStackList` leaves the lists alone when `XQueryTree` fails. That a window without
  GNUstep attributes is at least on its owner's level (`window.c:405-412`) is not required of
  `CreateWindow`, as a client with attributes chooses its level (`363-377`).
* The calls of the Workspace thread into the window manager are whole steps of `Stacking`;
  the code has no lock around them.
* Of libdispatch: serial and concurrent lanes, sync and barriers, sources and timers, I/O,
  priorities, overflow of counters (a crash in the code), and the death of the process.
* A termination notice that arrives during `terminateAllApps` is dropped
  (`ProcessManager.m:283`); if another application then refuses, the dead one stays on
  the list. Applications that start while it works through its copy of the list are neither
  asked nor waited for (`ProcessManager.m:341`). An X application with PID -1, or one that cannot be reached, leaves the list
  although it runs. The model has both.
* The end of the Workspace process itself: the tool would then read EOF for ever
  (`Communicator.m:178`).
* Suspend inside `ProcessManager` (it is in `FileMoverOp`), several instances of one
  application, Mounter entries, info labels and all views.
* Third-party code, pure user interface code and scripts: see "components".
