# Verification of AVCoding's avctool

AVCoding is a C++ toolkit for network and media programs (`avctool/`): an event loop that
is also an executor of jobs and timers, a thread pool, sockets that live on an event loop,
an asynchronous log writer, and the utilities under them. This directory holds TLA+ modules
that model its concurrent core, the TLC configurations that check them on small instances,
and proofs, checked by TLAPS, that hold for every instance. Paths below are relative to
`avctool/` in the repository.

    tlc -config EventPoller.cfg MCEventPoller     # each run: the cfg and its MC module
    tlapm EventPoller_proofs.tla                  # each *_proofs module

`PROJECT.json` lists the runs with their properties, for each property a mutation of the code
that breaks it, the source lines behind each definition, the hazards, and the theorems.

## 1. Inventory

### Parts that carry a protocol

**Semphore** (`util/Semphore.h`). State: a counter `nn_`, a mutex, a condition variable.
Operations: `wait`, `post(n)`. Hard: `post` calls `notify_one` for n = 1 and `notify_all`
otherwise, after it has raised the counter; a thread that was not asleep may take the permit
before the notified one; wakeups may be spurious. Correct if every `wait` that returns has
taken a permit of its own, and no permit lies beside a sleeping thread that nobody will wake.

**TaskCancelable** (`thread/TaskCancelable.h`). State: `strongTask_`, which owns the function,
and `weakTask_`. Operations: `cancel` (drops `strongTask_`), `operator bool`, `operator()`
(locks `weakTask_`, then calls). Used by every executor: the caller of `async` gets the job
and may cancel it from any thread while the executor tests it and calls it. Correct if a body
is not entered after `cancel` has returned.

**TaskExecutorInterface** (`thread/TaskExecutor.h`). `async`, `async_first` (a queue with two
ends; `may_sync` runs the job at once on the executor's own thread), `sync`, `sync_first`
(post and wait for a semaphore). Implemented by EventPoller and ThreadPool. Correct if each
job is begun at most once, jobs at the back keep their order, and a posted job is begun or was
cancelled.

**EventPoller** (`poller/EventPoller.h`, `.cc`). One thread in `runLoop(true)`; state `exit_`,
`thread_`, `tasks_` under `tasks_mutex_`, `pipe_`, `event_records_`, `delay_tasks_`, the epoll
descriptor. It has three jobs, which are three models here:
 - *executor and life cycle*: `async` queues a job and writes a byte to the pipe;
   `onPipeEvent` empties the pipe and then takes the queue; `shutdown`, from the destructor,
   posts a job that throws `Exit`, joins the thread and closes the descriptors. Hard: the queue
   and the pipe are changed in two steps by many threads; the pipe has a capacity and its write
   end blocks; `currentThread()` is true for everybody while `thread_` is null; reads can fail.
 - *delay tasks*: `addDelayTask` posts an insertion into a multimap from deadlines to jobs;
   `scheduleDelayTask` runs what is due and returns the time to the next deadline, which
   becomes the time-out of `epoll_wait`. Hard: callbacks put their timer back or add others
   while the due ones are in a copy; 0 means two things; a 64-bit time becomes an `int`.
 - *event records*: `attachEvent`, `detachEvent`, `modifyEvent` act at once on the poller thread
   and are posted by the others; `runLoop` collects the records signalled and calls them one by
   one. Hard: requests on the two ways overtake each other, the kernel drops a closed
   descriptor by itself and gives its number out again.

**PipeWrapper** (`poller/PipeWrapper.*`). Two descriptors; the read end does not block, the write
end does. Only its byte count matters to EventPoller.

**ThreadPool** (`thread/ThreadPool.h`). State: `pedding_` under `mutex_`, `sem_` (a Semphore),
`exit_`, the threads. A job is queued and then its permit posted, workers take a permit and then
a job. `shutdown` sets `exit_`, posts one permit per worker and joins. Hard: the pace of two
structures under two mutexes; old permits when `shutdown` posts.

**AsyncLogWriter** and **Logger** (`log/Log.h`, `Log.cc`). The writer: a list `pendding_`, a Semphore, a
thread that takes the whole list for one permit and writes it to the channels. `exit` sets a flag,
posts and joins. The Logger: channels and an optional writer; a statement collects an entry on
the stack (LogContextCapture) and writes it at each manipulator and at its end. Hard: several permits
for one batch; entries that arrive while the writer exits; a writer that is set or dropped between
two statements of a thread. Correct if each channel prints what a thread logs once and in order.

**Socket** (`network/Socket.h`, `.cc`). A descriptor (`SockNum` closes it, `SockFD` detaches it
from its poller), callbacks that hold the Socket weakly, two lists of buffers to send.
`bindUdpSocket`, `closeSocket`, `send`, `flushAll`, `onReadable`, `onWritable`. Hard: any thread may
drop the Socket while its callback runs; detaching is posted but closing is not; all sockets of a
poller read into one block of memory, which the user may queue for sending. Correct if a callback reads
from its own Socket's descriptor, a bound Socket gets its events, and a datagram arrives whole.

**BufferSock**, **Buffer** (`network/`). Lists of buffers that the kernel accepts in parts, which only
`flushData` makes, and nothing reaches `flushData` (§3); blocks with a size and a capacity.

**Timer** (`timer/Timer.*`). A delay task that holds its Timer weakly. `start`, `stop`, the destructor.
Hard: all three may be called by the callback itself or while the loop has the job in its hands, and
`delay_task_`, which `start` and `stop` test, use and assign in turn, has no lock. Correct if no job calls a
Timer that was stopped or replaced, and calls are a period apart.

**TaskExecutorGetter**, **EventPollerPool** (`thread/TaskExecutorGetter.*`, `poller/EventPollerPool.*`). The
least loaded of the executors, or the next one while the loads are 0; `pos_` is shared and not
protected.

**ThreadLoadCounter** (`thread/ThreadLoadCounter.*`). A window of sleeping and busy times that the
loop fills and that `load` reads and shortens. Hard: both read the time before they take the lock;
differences are unsigned, and the result is a float that is made an `int`. Correct if the records are one stretch of the past and the load a percentage.

**SockUtil** (`network/SockUtil.*`). Chains of system calls that may fail at each step, and a cache of
addresses used without the lock during a lookup. Correct if nothing leaks and answers are not too old.

**Util: clock** (`util/Util.*`). A thread that reads the system time and publishes one that does not
leap. **OnceToken** (`util/OnceToken.h`): a guard that calls a function when its block is left, on
which `sync` relies. **uv_errno** (`error/uv_errno.*`): the system's errors under common names; `connect`
decides by them.

### Parts without one

EpollWrapper and SelectWrapper (other systems' substitutes for epoll, compiled out on Linux),
MutexWrapper (a lock that can be switched off), StrPrinter, Nocopyable, Thread and
MessageQueue (a wrapper of `std::thread` and an empty class, unused), Error (an exception class),
the programs in `tests/`, and the empty submodules of `3rdpart/`. Formatting of
log lines, file rotation and the texts of errors are left out everywhere.

### How the parts interact

    client threads --async/cancel--> EventPoller <--attach/detach-- Socket <-- its user
         |                             |  ^  \                        ^
         |                    pipe ----+  |   +--callbacks, weakly----+
         |                                +-- delay tasks <-- Timer
         +--async/cancel--> ThreadPool --permits--> Semphore <--permits-- AsyncLogWriter <-- Logger

    EventPollerPool --choice by load--> EventPoller      stamp thread --time--> load counters

Executors own their jobs, callers may own them too; a Socket owns a reference to its poller; a
record of the poller holds its Socket weakly; a call of `sync` owns what its job refers to. Nothing
is persisted, so crash recovery does not arise. Datagrams may be lost; the toolkit does not retry.

## 2. Modules

| module | models | state ↔ code |
|---|---|---|
| `CountingSemaphore` | abstract: what a semaphore promises | permits, threads inside `wait` |
| `Semphore` | `util/Semphore.h` | `nn` = `nn_`; `st` = where each thread is in `wait` (wait set of `cond_`, notified) |
| `TaskExecutor` | abstract: `TaskExecutorInterface` and `TaskCancelable` | queue with two ends, claimed, begun and cancelled jobs |
| `EventPoller` | executor and life cycle of `EventPoller`, with `PipeWrapper` (`Write`, `Read`, `ReOpenFD`) | `exit_`, `thread_`, `tasks_`; `pipe` = bytes in the pipe; `batch` = `tmp` of `onPipeEvent`; `ppc`, `pc` = where the poller thread and each client are |
| `ThreadPool` | `thread/ThreadPool.h` | `pedding_`, `exit_`; `permits`, `waiters` = `sem_`; `job` = the local of `run` |
| `SyncCall` | `sync`, `sync_first` and `OnceToken` | `stack` = the frames of each thread; `nn`, `locked` = the Semphore in the frame of each call |
| `LogSink` | abstract: `LogWriter` | accepted and written entries |
| `AsyncLogWriter` | `AsyncLogWriter` in `log/Log.h` | `pendding_`, `exit_`; `batch` = `tmp` of `run`; `dpc` = where the destructor is |
| `Logger` | `Logger`, `LogContextCapture`, levels of channels | EXTENDS `AsyncLogWriter`: `channels` = `channels_`, `installed` = `writer_` is set, `context` = `context_` |
| `DelayTask` | `addDelayTask`, `scheduleDelayTask`, time-out of `runLoop` | `delay_tasks_` and its copy as sets of timers with deadlines; `timeout` given to `epoll_wait` |
| `PeriodicTimer` | `Timer` on a poller | EXTENDS `DelayTask`: `task` = `delay_task_`; `use` = where the owner and the callback are in `start` or `stop`, `made` = the job such a `start` has got from `addDelayTask`; `held` = the owner's references, `locked` = the reference of the callback |
| `FdEvents` | `attachEvent`, `detachEvent`, `modifyEvent`, the event loop, and `Socket`'s bind, close, callback and destructor | `event_records_`, `tasks_`; `file`, `epoll` = the kernel's tables (external) |
| `SocketIO` | `Socket::onReadable`, `send`, `send_l`; `getSharedBuffer` and `BufferRaw` | `size` = `size_` of the shared block; `waiting` = `send_buffer_waiting_`; `rx` = datagrams in the kernel (external) |
| `SockUtil` | `listen`, `bindUdpSocket`, `connect`, `accept`, `support_ipv6`, `getDomainIP` and `DnsCache`, `uv_translate_posix_error` | `open`, `owned` = descriptors; `fd` = the local of each call; `cache` = `_dns_cache`; `zone` = the name service (external) |
| `PollerPool` | `EventPollerPool`, `TaskExecutorGetter`, `ThreadLoadCounter`, the stamp thread of `Util` | `now`, `last` = the published clock; `stamp` = the time the poller has read and not yet used; `records`, `sleeping`, ... = each counter; `pos` = `pos_`, `minLoad`, `preferred` = the locals of a call |
| `MC*` | instances for TLC | |
| `*_proofs` | theorems | |

Each module has one action per critical section, per read or write of the pipe, per system call or
per test of shared state; whatever the code does in one such section is one step, and everything
between them interleaves. `Spec` always includes the whole of a handler: for example a job is
tested, called, runs, may post another and returns in `TestTask`, `CallTask`, `NestedPush`,
`NestedWrite`, `BodyEnds`, and the queue is taken in one `SwapTasks` as the code swaps it under the
mutex.

How they compose:

 - `Semphore` implements `CountingSemaphore` (run *semphore*, theorem `StepsAreSemaphoreSteps`).
   `ThreadPool` and `AsyncLogWriter` INSTANCE `CountingSemaphore` and take its actions as their own,
   so the mutex and condition variable are not multiplied into their state spaces.
 - `EventPoller` and `ThreadPool` implement `TaskExecutor`, with claimed jobs mapped to the batch in
   one and to the jobs in the workers' hands in the other. Claiming a whole batch, one job, or none
   (a permit without a job) are all steps of the same abstract specification. The poller's exit job is a job
   of the executor too, issued when shutdown posts it and begun when the loop ends or its caller runs it.
 - `AsyncLogWriter` implements `LogSink`. `Logger` extends it: its threads take the writer's steps or write to the
   channels themselves, and the refinement of `LogSink` is checked in the composition.
 - `PeriodicTimer` extends `DelayTask`: `Timer::start` and `stop` are `addDelayTask` and `cancel` of the
   poller, with the steps on `delay_task_` around them; its callback returns the period. Other users' jobs keep all the freedom of `DelayTask`, whose
   properties are checked in the composition.
 - `SyncCall` uses an executor as `TaskExecutor` promises it: a job that was given is run once. `Wait` of
   its Semphore is one step; what matters there is that `post` still holds the mutex after it has
   counted up.
 - `FdEvents` and `DelayTask` use the poller as a queue of jobs that the loop takes. That the loop
   finds a queued job and runs jobs in order is what `EventPoller` shows. `SocketIO` begins where a read
   event of `FdEvents` calls `onReadable`, and `SockUtil` is what `bindUdpSocket` of `FdEvents` calls.

Names: `async`'s queue push and pipe write are `AsyncPush`, `WritePipe`; the call that runs at once
is `AsyncInline`. A definition under "Mutant:" is not part of the specification: it is a faulty
variant of the definition below it, kept to show that a property notices the fault.

## 3. Runs

Passing runs:

| run | instance | shows |
|---|---|---|
| *semphore* | 4 threads, posts of 0, 1 and 2, at most 4 permits | `NoStrandedPermit`; implements `CountingSemaphore` with its liveness |
| *poller* | 2 clients, 3 jobs of which one posts another, both ends of the queue, cancellation; use before and while the thread starts; pipe of 4 bytes, read 2 at a time; reads that fail; destructor | `NoLostWakeup`, `InOrder`, `DrainedAtExit`, `PipeOutlivesUsers`; `PostedIsBegun`, `DestructorReturns`; implements `TaskExecutor` |
| *pool* | 2 workers, 2 clients, 3 jobs of which one posts another, shutdown at any time | `PermitPerJob`, `QueueDrains`, `DestructorReturns`; implements `TaskExecutor` |
| *sync* | a pool of 2 workers, a poller of 1, 2 clients, 4 calls; jobs of the pool call the poller or their own pool; bodies throw | `FrameOutlivesJob`, `SyncReturns` |
| *log* | 2 threads, 3 entries of two levels, 2 channels of which one filters; a writer set and dropped at any time between writes | `ThreadOrder`, `EntriesInOrder`, `NoEntryForgotten`, `ExitReturns`; implements `LogSink` |
| *delay* | a Timer object and 2 jobs, delay 1 from other threads, 0 and 1 from callbacks, other jobs' results 0 (over), 2 and 9; clock to 3; `int` of 4 bits, so 9 is beyond it | `OneLiveJob`, `StopHolds`, `NoCrash`, `PeriodApart`; `TimersKept`, `DeadlineOrder`, `WakesInTime`, `PassEnds` |
| *fds* | 2 clients, 2 sockets, 2 numbers, one bind for each socket, one change of mask | `RecordsMatchEpoll`, `NoDeafSocket`, `NoForeignRead`, `StaleRecordsGo` |
| *io* | 2 sockets, datagrams of 1 and 3 bytes into a block of 4, 3 datagrams, 3 sends | `TypeOK` (room for the terminator), `CutByTheLast` |
| *sockets* | 2 threads, 2 descriptors, a name with two answers (IPv6 first, then IPv6 only) and a literal address, expiries 0 and 1, lookups of at most 1, clock to 4 | `NoFdLeak`, `AddressIsRecent` |
| *pollers* | 2 pollers, 2 callers, windows of 2 records and 1 unit of time, a system clock that leaps, time to 3, 4 transitions, `size_t` of 4 bits, `INT_MAX` 1000 | `TypeOK` (the ints that `load` may return), `RecordsTile`, `LeastLoaded`, `PunctualLoad` |

Why the bounds are enough to meet the hard cases. *semphore*: with four threads a permit can be taken
over by a newcomer while two are notified and one sleeps; `post(2)` and `post(0)` take the other branch
than `post(1)`. *poller*: four bytes hold the three jobs' and the exit job's bytes, so that the drain
needs more than one read, and a push may fall before, between and after reads; three jobs give one
ahead (`async_first`), one behind and one from a body. *pool*: two workers are the least that may race
for one permit and one job, three jobs the least that keep both busy with one queued. *sync*: two
workers of a pool wait for the only thread of the poller, and each other's calls are queued behind
them; the fourth call is one from a body of the third. *log*: two threads are the least that differ in
the way they write, the third entry is pushed while the first two are in a batch. *delay*: two
jobs are the least of which one can be due, running or put back while the other is in the copy, and a
restarted Timer needs both; a start of the owner and one of the callback may both be on their way. *fds*: two sockets
over two numbers, so that a number is taken again while requests for its former owner are queued, in
a batch, or both. *io*: a long, a short and a long datagram in one pass, across two sockets, or across
two passes with a block that is kept. *sockets*: two lookups of one name may overlap and be stored in
either order, the answer changes in between, and each use may be in the last second of an item; one
descriptor can be reused at once by the other thread while the table of two is full. *pollers*: a poller has
no record before its second transition, so that four of them make a third for a window of two; a window of 1 makes `load`
drop one as well; two transitions between the reading of the time and the lock make a difference wrap, and with
an `INT_MAX` of 1000 also the quotient leave the `int`.
`MaxPermits`, `MaxNow`, `MaxBinds`, `MaxArrivals`, `MaxSends`, `MaxCalls`, `MaxTurns` and the sizes of the sets
are the only bounds; every one of them limits the environment (how often it posts, waits, binds), not
the code. Two assumptions are about time: `MaxLookup` is the time from an answer of the name service to its
storing, and in `SockUtil` the seconds of `time(nullptr)` never go back (`SockUtil.cc:489`, `501`): an item of the
cache lives longer by as much as the system time is set back. The clock of `PollerPool` and of the timers is the
published one, which the code keeps from going back (`Stamp`).

Two abstractions of numbers: `load`'s quotient is exact in the model and rounded as a float in the code, which
keeps a part no greater than its whole, so that both stay within 0..100; a quotient that is too great for an
`int`, which C++ leaves undefined, is the least or the greatest `int`, as processors have it.

Runs that end in a violation, each a disagreement between the code and its own comments:

| run | what TLC finds |
|---|---|
| *fd_reuse* | a callback binds a socket on the poller thread (attach at once) to a number whose `detachEvent` another thread has posted and not yet seen run; the queued detach then removes the new socket's registration. |
| *recv_truncates* | `recvfrom` is given `size() - 1` of the shared block, and `setSize` after each datagram sets that size to what was received: a datagram after a shorter one is cut, although "all sockets of one EventPoller can use the same Buffer" (`Socket.cc:387-388`). A block made from a capacity has the size 0, and `0 - 1` is the largest `size_t`, so that its first datagram is whole. |

Other observations. The models contain them but for the second; where a comment of the code speaks of one, it is
quoted:

 - No Socket is ever sendable: `sendable_` is false at first and only `stopWritableEvent`, which `flushData`
   calls, sets it, while `flushAll` does not call `flushData` as long as it is false (`Socket.cc:97`) and
   `onWritable` is empty. What `send` queues is never written. `Socket.cc:233` says that `sendable_` is true at
   first, `Socket.h:234` that it is false.
 - `flushData` is therefore dead code. If the first buffer of a list were refused with another error than a
   retry, it would return with all it took from the queues (`Socket.cc:202-216`), though
   `Socket.h:252-255` says that data are rolled back when sending fails.
 - `delay_task_` has no lock: `start` tests it, posts the job and then assigns it (`Timer.cc:13-16`), `stop` tests
   it, cancels and sets it to null (`Timer.cc:28-30`). When the owner and the callback use a Timer at once, a stop
   that falls between the post and the assignment finds nothing to cancel and is lost; two starts that both pass
   the test leave two jobs; and a stop may call `cancel` on nothing or the `shared_ptr` be torn (`clashed` and
   `crashed` in `PeriodicTimer`). No comment says that a Timer may be used by two threads.
 - `TO_EPOLL_EVENT` (`EventPoller.h:24`) lacks parentheses: `a ? b : 0 | c ? d : 0` groups as
   `a ? b : ((0 | c) ? ...)`. A socket that asks for read, write and error events waits for read events only.
 - `~EventPoller` of a poller that was never started runs its exit job inline, and `Exit` leaves a destructor
   (`aborted` in `EventPoller`). While `thread_` is not assigned yet, `async` runs jobs in the calling thread.
 - A job that posts to its own poller with `may_sync = false` while the pipe is full blocks the only reader. A
   real pipe has 64 KiB, so this takes as many posts without a drain; the instance has a byte for each job.
 - A callback that adds a timer without delay: the result 0 ("due now") is taken for "no timer", and the loop
   sleeps without a time-out. `EventPoller.h:121-124` says that -1 stands for no timer; the code returns 0. A
   delay above `INT_MAX` ms is truncated (`EventPoller.cc:44`). `WakesInTime` says for which delays the loop is in
   time.
 - `load` measures the current stretch from the transition before the last one
   (`ThreadLoadCounter.cc:104-109`), and reads the time before it locks: if its poller both falls asleep and wakes
   in between, a difference wraps around, the result is not a percentage, and it may not fit an `int`
   (`ThreadLoadCounter.cc:143`): as `INT_MIN` it is then the least load. `PunctualLoad` says when it is one.
 - `pos_` of the pool may be counted past the end by one caller between the test and the use of another
   (`crashed` in `PollerPool`).
 - `getDomainIP` returns false in any case, and `connect` compares with -1: after a failed lookup it goes on with
   an uninitialised address. `support_ipv6` keeps a no that it got from a full table of descriptors.
 - Entries still queued when the log writer exits are dropped (`Log.h:228`), which `LogSink` allows once it is
   closed. A Socket bound twice may read in an old callback from a number another Socket has opened
   (`MaxBinds = 1` in *fds*). `Timer::start(0)` runs once and leaves `delay_task_` set.

### Fairness

`EventPoller`, `ThreadPool`, `Logger` with `AsyncLogWriter`, `SyncCall`: weak fairness for the steps of each
thread that is in a call or in its loop, because the operating system runs every thread that can take a
step and bodies of jobs return. No fairness for what users decide: posting, logging, cancelling, sharing,
dropping. `ThreadPool` passes permits with weak fairness for *some* worker, which is what the semaphore
gives: a condition variable does not promise that a given waiter gets through. `Semphore`: weak fairness for
some notified thread to get the mutex. `SyncCall`: a worker that is idle takes some job; the calls of a run are
few, so that none is passed over for ever. `PeriodicTimer`: the loop and the callbacks go on while the poller is
not asleep, and a callback that calls `start` and `stop` returns sooner or later (strong fairness of `BodyEnds`,
which is not enabled within these calls); the clock and events owe nothing. `FdEvents`: the loop and the calls in progress. `SocketIO`,
`SockUtil` and `PollerPool` have safety properties only. A critical section is one step, so
that fairness of a thread is also fairness of its mutexes; with `std::mutex` and a few threads that
are not always inside, this is what a fair scheduler gives.

Deadlock is checked in every passing run but *pollers*: states in which the system may stop for good (poller,
pool or writer destroyed, no socket left, all calls made) have a step of their own that changes nothing. In
*pollers* the published clock and the transitions stop at their bounds, and a search that has crashed goes nowhere.

## 4. Proofs

The proof modules prove, for every value of the constants that meets the named assumptions (finite
sets of threads, a job for each identifier, a pipe of at least one byte, datagrams shorter than the shared
block, `None` names nothing else).
Each theorem `Spec => []Inv` rests on an inductive invariant that is proved with it, and that TLC
checked on the run of its module first:

 - `Counters_proofs`, for `PollerPool`: `PoolTyping`; `Tiles` (`RecordsTile`); `PercentInTime` (`PunctualLoad`);
   `LeastIsChosen` (`LeastLoaded`).
    - The invariant adds to typing and `RecordsTile`: a caller that takes a load has an executor to ask
      (`Asking`); a poller is asleep until it wakes, has no record before its first wake-up, and its last record is
      of the other kind than what it does now (`Turns`); the time a poller has read is not before its last
      transition, and its sleep or wake-up is still to come (`InStep`); the time a caller has read lies after the
      transition `load` counts from unless its poller made two since (`Punctual`); the least load of a call is that of
      the poller preferred so far (`Searching`).
    - `load` adds the times of any number of records. That the fold has a value at all, and that the times of a
      stretch add up to its length, is shown by the least number of records for which it would fail (`LeastNat`,
      `FoldExists`, `Sums`, `TimesOfTile`). From this no sum wraps around, and a part is at most its whole.
    - Hypotheses: an `int` holds 100, and `2 * MaxNow < SizeT`: microseconds since the start of the process stay below half of a
      `uint64_t`, which are some 290 000 years.
 - `Counters_proofs`, for `Semphore`: `SemphoreTyping`; `NoPermitStranded` (`NoStrandedPermit` is always true);
   `StepsAreSemaphoreSteps` (the refinement of `CountingSemaphore`, without its liveness). The
   invariant is inductive with typing: `post(1)` raises the counter by one and the notified threads by
   one, `post(n)` empties the wait set, and a thread that leaves takes a permit with it. Lemmas
   `WokenFinite`, `OneLeaves` and `OneJoins` count threads.
 - `EventPoller_proofs`: `Typing`, where a job is at hand whenever one is tested or called; `LifecycleKept`;
   `PipeOutlives`; `WakeupKept`; `BegunInOrder` (`InOrder`); `ExitDrains` (`DrainedAtExit`);
   `StepsAreExecutorSteps` (the refinement of `TaskExecutor`, without its liveness).
    - `Lifecycle` says who may be where: a client in a call owns a reference, the one in the destructor
      is alone, the pipe is closed only after the loop has ended, and the loop has no thread only around
      its start. From it the pipe's users are bounded; with it `NoLostWakeup` is kept, since a push
      leaves its thread before the write, a drain ends in `SwapTasks`, and nobody closes a pipe in use.
    - `OrderInv`: the jobs begun, the batch and the queue are each sorted as they were posted to the back,
      and each of the three comes before the next. The lemmas say what a step does to the jobs (put at an
      end, the queue taken, the head of the batch begun or skipped), whatever else it does.
    - `ExitInv`: a batch is kept until it is done; exit was posted when there were no clients any more, so
      that only what jobs post may come after it; a job a client posted is somewhere.
    - `JobInv`: each job is in one place, the queue, the batch or neither, and was posted before it can be
      cancelled. With it each step is one of the executor, or leaves the executor's variables alone.
 - `ThreadPool_proofs`: `Typing`, where a worker that tests, calls or runs a job has one; `PaceKept`
   (`PermitPerJob`); `StepsAreExecutorSteps`. `PermitPerJob` is inductive with typing:
   each step of a client or a worker moves one unit between queue, permits and the threads between two
   steps, which the lemmas `ClientMoves` and `WorkerMoves` count. Until `shutdown` posts, the equality also
   tells that a worker with a permit finds a job. `JobInv` is as in the poller, with a job in the hands of
   one worker at most.
 - `SyncCall_proofs`: `Typing`; `CallerOutlivesJob` (`FrameOutlivesJob`). The inductive invariant `IInv` says
   that a job is in the queue of one executor or in one frame (`OnePlace`), that its semaphore is posted only
   by the end of the job, which holds the mutex until it is over (`PostsAtTheEnd`), and that a job which is
   not over has a caller that waits for it (`CallerWaits`).
 - `Network_proofs`, for `SockUtil`: `CallsTyped`; `NothingLeaks` (`NoFdLeak`), where `CallState` says at which
   points of a chain a call has a descriptor; `AnswersAreRecent` (`AddressIsRecent`): what is in the cache, what a
   lookup carries and what a call has taken were each right at the time that is noted with them.
 - `Network_proofs`, for `SocketIO`: `IOTyping`; `CutAfterTheLast` (`CutByTheLast`), from `Holding`: while a block that
   holds a datagram is in a pass or in a queue, its size is that of the last datagram delivered, and a block that is
   new has the size 0 and no other owner.
 - `Logger_proofs`: for the writer by itself, `Typing`, `OrderKept` (`EntriesInOrder`, with "a batch exists
   only while the writer writes it"), `NoneForgotten` and `StepsAreSinkSteps` (the refinement of `LogSink`,
   without its liveness; a step of `WriteToChannels` is a `Write` because of `EntriesInOrder`). For the
   composition, `LoggerTyping`; `LoggerKeepsOrder`, because each step of the Logger is one of the
   writer's or leaves it alone; `ThreadsKeepOrder` (`ThreadOrder`): an entry a thread prints by itself was said
   after everything of it that went through the writer, since it does so before the writer is set or after
   it is gone (`Phases`), and what a channel shows was said before what is still on the way (`Flow`).
 - `PeriodicTimer_proofs`: for the delay tasks by themselves, with callbacks that may return any delay,
   `PollerKeeps` (`TimersKept`, `WakesInTime`, `DeadlineOrder`): during a pass what is added is not due before
   it (`Passing`) and each timer is in one place. The lemma `TimerTurns` says that each step with Timer objects
   is such a step, from which `NoneLost`, `LoopWakes` and `CalledInOrder` follow. `OneJob` (`OneLiveJob`),
   `StoppedStays` (`StopHolds`) and `CrashNeedsClash` (`NoCrash`) rest on `Uses`: of a Timer whose sides have not
   clashed one side at most is in `start` or `stop`, and where it is there says what `delay_task_`, the job it has
   made and the jobs that may call the Timer are (`Orderly`). `CallsApart` (`PeriodApart`, an action property) needs
   `Rhythm` as well: a job that may still call its Timer is not due before a period after the last call has passed. `FirstTimer` shows that the multimap has a first element.
 - `FdEvents_proofs`: `Typing`; `EpollAgrees` (`RecordsMatchEpoll`), without any condition; `ReadsItsOwn`
   (`NoForeignRead`) if no Socket is bound twice (`BoundOnce`); `NobodyDeaf` (`NoDeafSocket`) if moreover no
   callback binds, changes or drops a Socket (`~PollerUses`). `Owned` says who has which descriptor and `Numbers`
   that jobs, records and events are of numbers their Socket has or had. `Requests` says of the jobs on
   their way, queue and taken ones together: a registration that is to stay waits with nothing but changes
   behind it, or is made with nothing but changes to come (`Standing`); one that nobody wants has its end
   behind it (`Released`); between two of one number lies an end (`Clear`). So the number that `bind` gets is
   free by the time its registration is run. The lemmas `AddOn`, `AddOther` and `Take...` say what one job more
   or less does to these.

The two hypotheses of `FdEvents_proofs` are conditions on how sockets are used, and instances meet them
(*fds* does). Without them the properties are false of the code: a Socket that is bound twice may read in an
old callback from a number that another Socket has opened, and its second descriptor may be left without
events; a callback that binds overtakes a request on its way (*fd_reuse*).

Only model-checked: every liveness property and the liveness parts of the refinements (the prover has no
rules for ENABLED and fairness). Every invariant and every action property that a run checks is proved, but
for `Whole` and the `NoDeafSocket` of *fd_reuse*, which do not hold. The modules have no RECURSIVE operators.
`TypeOK` of a module without a run that lists it is there for its theorems. Where one module of proofs
extends two components, the definitions of one of them carry its name (`SemSpec`, `SockSpec`).

## 5. Not modelled

Not modelled, with the reason:

 - the substitutes for epoll on other systems, the branches for Windows, and code under `#if 0`: they are not
   part of the program as it is built on Linux;
 - formatting, paths, file output of the log and the tables from error numbers to names and texts: they have no
   state that another part depends on;
 - a Timer that several threads besides the poller's use at once: its owner is one thread;
 - setters of socket options, getters and conversions of addresses in SockUtil: one system call each, whose
   result the callers ignore;
 - `flushData`, the write event and the lists of `BufferSock`: no call reaches them (§3);
 - TCP in Socket: nothing creates a TCP socket yet, and `onAcceptable`, `onWritable` and the
   error events are empty;
 - the two reads of `strongTask_` in `TaskCancelable::operator bool`, the assignment of `writer_` while others
   log, the assignment of a callback by itself: data races and lifetimes below the grain of these modules, where
   the language leaves nothing to choose from;
 - jobs that throw in a ThreadPool or in a delay task, and the last reference to a poller dropped by its own
   job: they end the process;
 - the programs in `tests/`.
