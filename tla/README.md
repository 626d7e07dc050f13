# A TLA+ verification of the tree-fiddy Nachos kernel

The repository is a Nachos operating system (`Project 2/code`, C++ with user
programs in C): a kernel that runs as one host process on a simulated MIPS
machine with simulated devices. This directory models it in TLA+, checks the
models with TLC on small instances and proves the most important properties with
TLAPS for every instance. Paths below are relative to `Project 2/code`.

## 1. The system and its modules

| Part | Source | Modules |
|---|---|---|
| Threads, scheduler | `threads/thread.cc`, `scheduler.cc`, `switch.s`, `system.cc` | `Scheduler` |
| Semaphores, locks, conditions | `threads/synch.cc` | `Synch`; `FifoLock` (what a lock promises) |
| Lists | `threads/list.cc` | `LinkedList`; `ItemQueue` (what a list promises) |
| Interrupts, timer, simulated time | `machine/interrupt.cc`, `timer.cc` | `Interrupts` |
| Lock and condition system calls | `userprog/exception.cc` 249-395 | `Syscalls` |
| Processes, address spaces | `userprog/exception.cc` 397-527, `progtest.cc`, `addrspace.cc` | `Process` |
| File system calls | `userprog/exception.cc` 43-243 | `FileCalls` |
| Synchronized list, disk, console | `threads/synchlist.cc`, `filesys/synchdisk.cc`, `userprog/synchconsole.cc` and their devices | `SynchList`, `SynchDisk`, `SynchConsole` |
| Disk timing | `machine/disk.cc` | `DiskTiming` |
| File system and its tests | `filesys/*.cc` | `FileSystem`, `FileTests`; `FileStore` (what a file system promises) |
| Network, post office, mail test | `machine/network.cc`, `network/*.cc` | `PostOffice`, `MailTest` |
| Processor | `machine/mipssim.cc` | `Mips` |
| Address translation, user memory | `machine/translate.cc` | `UserMemory`; `FlatMemory` (what a program is promised) |
| Kernel test suite | `threads/threadtest.cc` 918-1263 | `TestSuite` |
| Airport simulation | the rest of `threads/threadtest.cc` | `AirportState`, `LiaisonDesk`, `CheckInDesk`, `Checkpoint`, `Boarding`, `Airport` |

`MC*` modules and `.cfg` files instantiate them for TLC. `*Steps` and `*Proofs`
modules hold the theorems (section 5).

How the parts interact. Everything blocks through `Thread::Sleep` and is woken
through `Scheduler::ReadyToRun`. Locks, conditions and semaphores are built on the
two; devices wake threads with a `V` from an interrupt handler; the system call
handlers use locks and conditions both for their own tables and on behalf of the
user; list, disk, console, post office and airport are clients of locks,
conditions and semaphores.

What makes it hard. The machine is a uniprocessor whose simulated time advances
only when interrupts are re-enabled and after a user instruction. A thread loses
the CPU only when it sleeps or yields, or on such a tick when the timer (`-rs`)
asks for it. Kernel code is written with `SetLevel(IntOff)` around what should be
atomic; the questions are what is *not* covered (between two calls, after an early
return, after a sleep), which list a thread is on, who owns a lock between a
wake-up and the moment the woken thread runs, and what a handler still believes
after it slept.

## 2. How state and actions correspond to the code

**Scheduler.** `currentThread`, `status`, `readyList`, `threadToBeDestroyed` are the
kernel's variables. `Thread` is the set of addresses `new Thread` may return; an
address without an object has status `FREE` and is reused after a deletion.
`frame[t]` is what SWITCH saves, reduced to the kernel routine the thread is inside
of and the objects the rest of that routine refers to; `saved[t]` is the level the
routine will restore. An action is a stretch of code in which the CPU cannot be
lost. `Run` models `Scheduler::Run` with what the next thread executes up to the
next such point: a thread that starts in `ThreadRoot` enables interrupts and does
not delete the carcass, any other one returns into `Run` and does. `TimeSlice` is
the timer interrupt, possible only while `Ticking`; `UserInstruction` is `OneTick`
in `Machine::Run`, which turns interrupts on whatever they were.

**Synch** extends `Scheduler`. `P`, `Acquire` and `Wait` either complete or put the
caller to sleep with its frame inside the routine; `PWoken`, `AcquireWoken` and
`WaitWoken` are the code after `Sleep`. `Release`'s owner path leaves `level` at
`IntOff`, as the code does. `Broadcast` is a loop of `Signal`s with ticks in
between, and a loop without end (`BroadcastSpin`) when called with another lock.
`DeviceRequest`/`DeviceInterrupt` stand for any device whose handler does a `V`.
`held` is a history variable: the locks a thread was given and has not returned.
Threads call any operation at any time, so the clients' discipline is not assumed.
`StaleOwner` is what the memory of `Lock::owner`, which the constructor does not
set, may contain. `FifoLock` is the promise of class `Lock`: FREE or held, taken
when FREE, passed by its holder to the longest waiter.

**Syscalls** extends `Synch`: each step of a handler is one call of a `Synch` action
conjoined with the handler's own progress (`call[t]`). `LockTable` and `CVTable` are
sequences of the records of `system.h`; an object has the number of its entry,
because entries are never reused and objects never deleted. A handler starts only
with interrupts on (`Enter`), because a user instruction precedes every trap. After
a `Release` interrupts are off, so that the rest of a handler cannot be interleaved;
this comes out of `level` and is not assumed. `ReleaseArg` is
`LockTable[n].Kernel_Lock->Release()` on an unchecked entry: a null pointer sets
`fault`, an index outside the vector may or may not. `Release_Syscall`'s deletion is a
step of its own after the one that unlocks the table (pc `"delete"`), and so is what
`Wait_Syscall` does when its `Wait` has returned (pc `"woken"`).

**Process** extends `Synch` in the same way: `StartProcess`, `Exec`, `Fork`, `Exit`,
`Yield`, `Halt`, `newProcess`, `kernelRun`, the process table (`map` and `table`),
the frames of `memMap` and the user context that `Scheduler::Run` saves (`regs`,
`userRegisters`, `pageTable`). `regs` stands for what a new thread sets of the
registers: the two program counters and the stack pointer. `Table::Put` is two steps, because it stores the
pointer after it has released the lock. `StalePid` is what the main thread's `pid`,
which nothing assigns, may contain. The history variable `astray` records that this
pid was not 0 or that a `Put` found the table full; `ThreadCounts` and `ExitEnds`
are stated for the behaviours in which neither happened, because after either the
code leaves counts or `syscallLock` behind (section 6).

**FileCalls** extends `Synch` with the file table of one program. Only `Table::Put`
and `Table::Remove` can lose the CPU, so a call is one step up to the table's lock
and one after it. An `OpenFile` is its number in the order of creation.

**Clients of the kernel.** `SynchList`, `SynchDisk`, `SynchConsole`, `TestSuite` and the
airport modules are threads whose steps are `Synch` actions conjoined with their own
data, one step per call of the kernel. `MCClients` runs one of them at a time,
chosen in the initial state. `AirportState` holds the shared data, the agents' code
is in the four modules named after where they work; a bag is told apart by its
owner and number instead of its weight. The history variable `crowded` records that
two passengers have been in one security officer's line, and `fault` that the loop
that clears a counter went past the last bag; nothing is said after a fault.

**Interrupts** keeps time: the queue of pending interrupts with due times, `OneTick`
(which may nest, through the `Yield` it calls), `CheckIfDue`, `Idle`, the timer's
re-arming. `old[t]` is the status the outermost `OneTick` of a thread restores; `code[t]`
is the code on its stack it goes back to, user or kernel. `Synch` abstracts from it: there an interrupt may come at any tick.

**Machine.** `Mips` executes every implemented instruction with delay slots and traps
on words of four small bytes, with interrupts, which finish a delayed load, and
switches between any two of them; `UserMemory` translates and stores bytes on hosts of
both byte orders; `DiskTiming` computes latencies in an `int` of limited range;
`LinkedList` has the pointers of `list.cc`, so that the other modules may use
sequences. `FileSystem` works on sectors (headers, free map, directory); its
operations are single steps because the code assumes there is no concurrent access.

**PostOffice** has several machines, the packet each network device is sending, the
sockets between them (external: a packet is delivered, or dropped if the network is
lossy), the postal worker and the mailboxes; `MailTest` runs on two of them.

## 3. Runs

All runs use deadlock checking except `cpu_all`, whose programs end.

| Run | Instance | Shows |
|---|---|---|
| `synch_all` | 3 threads, 1 semaphore, 2 locks, 1 condition, timer on, kernel code | `OnePlace`, `MutualExclusion`, `CVLockAgrees`, `LocksAreFifo`, with wrong-lock calls, spinning broadcasts and reuse of addresses |
| `synch_live` | 3 threads, 1 semaphore, 1 lock, user programs, fair | `NoLostWakeup`; `ReadyRuns`: every ready thread gets the CPU, although `Release` leaves interrupts off |
| `syscalls_all` | 2 threads, 1 lock, 1 condition, numbers -1 .. 1, all nine calls | `TableLocks`, `CheckedIsLive` |
| `syscalls_deadlock` | 2 threads, 1 lock, fair | violation of `ReleaseReturns` (section 6) |
| `process_all` | 3 threads, table of 2 slots, 3 pages, programs of 1 and 2 pages and one that cannot be opened, fair | `ThreadCounts`, `MarkedIsStored`, `OwnContext`, `LastExitHalts`, `ExitEnds` |
| `filecalls_all` | 2 threads, table of 3 slots (one for files), 1 name, good and bad buffers, fair | `FilesAccounted`, `CallsReturn` |
| `clients_all` | test suite; list, disk and console with 2 threads each; disk fair | `SuiteOutcome`; `NoStrandedItem`; `OwnCompletion`, `RequestsReturn`; `LinesWhole`, `InputInOrder` |
| `airport_all` | 3 passengers, 2 airlines, 2 of every kind of clerk, one time slice anywhere, fair | `PlaneComplete`, `ReportAgrees`, `OwnAnswer`, `EverybodyBoards` |
| `files_all` | disk of 9 sectors, 2 directory entries, any operations and the `-cp`, `-p`, `-r`, `-t` options | `SectorsAccounted`, `PrintsWhatWasCopied`; `ImplementsStore`: callers see `FileStore` |
| `mail_all` | 2 machines, 2 clients, 2 messages each, lossy network and not, fair | `DeliveredInOrder`, `CanAcknowledge`, `MailArrives`, `MailTestEnds` |
| `machine_all` | interrupts: 2 threads, ticks of 3 and 1, time up to 20; disk; memory; list | `NothingDueWhileOn`, `HaltsWhenDone`; `LatencyExact`; `ReadsAgree`, `ImplementsFlat`; `ImplementsQueue` |
| `cpu_all` | 2 threads, bytes of 1 bit, all operands | `AsIfAlone`, `ComputesAsManual` |

**Bounds, and why they are enough.** Three threads are what it takes for a third
party to come between a wake-up and the woken thread, and for queues of two.
`MaxUnits` bounds a semaphore's value plus its pending interrupts: with 2 a second
`V` happens before the first woken thread runs. Two locks are needed for wrong-lock
calls. `MaxLocks` and `MaxCVs` are 1: the handlers never look at two entries, and
index 1 is then the first number out of range. In `process_all` two slots let the
table fill up and a slot be reused while a thread of another process exits, three
pages let an `Exec` run out of memory half-way, and `MaxForks` (2) bounds the
threads ever made. In `filecalls_all` slots 0 and 1 belong to the console, so that
the third is contended and a second `Open` finds the table full; `MaxOpens` (3) lets
it be reused. `MaxSlices` is 1 in the airport: every step of every agent is tried as
the one after which the agent is preempted. Questioning takes one or two yields, as
in the code; with two a passenger comes back late enough to find another one in line,
with one yield that never happens. `StaleInts` has a negative, a zero and a large value
for the index that is not set. The disk of `files_all` has room for two
files and not for three. `MaxTime` lets the timer fire several times. Words of four
1-bit bytes keep carries, signs, overflow and the four cases of unaligned access.
Symmetry permutes the threads other than `Main`, only in `synch_all`, which has no
liveness property.

The theorems of section 5 hold without these bounds, for the modules they are about.

**Fairness.** It says that the machine goes on, and nothing about what clients call.
A sleeping CPU dispatches or takes a pending interrupt, a woken thread continues and
user code executes its next instruction (weak fairness): the host process does not
stop in the middle of kernel code. A thread that ticks again and again meets the
timer (strong fairness): `Timer` re-arms itself, and a due interrupt is taken on the
next tick. A thread that gets the CPU again and again inside a handler makes its next
step (strong fairness, per thread): between two context switches at least one
stretch of kernel code is executed. In `mail_all` the machines run independently, and each
one's interrupts, postal worker and test go on (weak fairness). In the airport
everything is on one CPU and time slices are bounded, so weak fairness of the whole
suffices.

## 4. Abstract specifications

`FifoLock`, `FileStore`, `FlatMemory` and `ItemQueue` say what a component promises;
the detailed modules implement them (`LocksAreFifo`, `ImplementsStore`,
`ImplementsFlat`, `ImplementsQueue`) under these mappings: the holder is the owner of
a BUSY lock; a file's bytes are those of the sectors its header lists, cut to its
length; a flat byte is the byte of the frame its page is mapped to; a queue is the
sequence of nodes reached from `first`. The first refinement is also proved.

## 5. Proofs

Each theorem holds for any finite set of threads and any values of the other
constants that satisfy the module's named assumption. TLC evaluates the assumptions
in every run that uses the module. They say that the constants are of the right
kind, that NULL is no object, that the locks the code names are distinct objects, and
that the tables have room for what the constructors reserve. The proof modules make
Zenon the default prover (`USE Zenon`); a leaf that needs arithmetic or sequences
cites `SMT`.

### The kernel: `SynchProofs`

- `TypeCorrect`: `Spec => []TypeOK`. `TypeOK` is inductive; that a semaphore's value
  is never negative needs the test in `PWoken`.
- `ThreadsInOnePlace`: `Spec => [](OnePlace /\ CarcassIsDead)`. The conjunction is
  inductive with `TypeOK`. One lemma per kind of step (stay, wake the first of a
  queue, sleep at the end of a queue, switch) says how the sets of threads on the
  lists change; lemmas about queues say the same of the sequences.
- `LocksExclude`: assuming `CleanHeap`, `Spec => [](LockConsistent /\
  MutualExclusion)`. `MutualExclusion` alone is not inductive: it needs that whoever
  holds or has been handed a lock is its owner, and that a FREE lock has no owner
  and no queue, which is `LockConsistent`; that in turn needs `OnePlace`, because
  the head of a lock's queue must be asleep in `Acquire` of that very lock.
- `LocksImplementFifo`: assuming `CleanHeap`, `Spec => LocksAreFifo`. Every step is
  mapped to `Grab`, `Queue`, `Pass`, `Switch` or a stutter.
- `ConditionsKeepTheirLock`: `Spec => []CVLockAgrees`, without `CleanHeap`. With
  `OnePlace` the invariant is inductive: a `Wait` with another lock is refused while
  somebody waits, the last waiter to be signalled clears `waitingLock`, and since a
  sleeper in `Wait` is on exactly one condition's queue, no other step changes who
  sleeps there.
- `WakeupsAreNotLost`: `Spec => []NoLostWakeup`, without `CleanHeap`. `V` adds a unit
  and moves the head of the queue, which `OnePlace` puts asleep in `P` of that
  semaphore, to the woken ones; `PWoken` removes itself from them and either takes a
  unit or finds none, and then the value is 0. The argument is about cardinalities,
  so it uses that `Thread` is finite.

`CleanHeap` says that no new lock finds a thread's address in its uninitialized
`owner`. Without it a thread is let through a FREE lock (section 6).

### System calls: `SyscallProofs`

Assuming `CleanHeap`:

- `SyscallsUseSynch`: `Spec_Syscalls => Spec`. Every step of a handler is a step of
  `Synch` or leaves it alone, so the theorems above hold under system calls. It is
  not a matter of form: that `Wait` gets a lock and a condition, and not a null
  pointer, needs `CheckedIsLive`.
- `TablesProtected`: `Spec_Syscalls => [](TableLocks /\ CheckedIsLive)`. The second is
  about the entries a handler uses with the table locked, in the deferred deletion and
  at the call of `Wait`. It would be false of the lock that `Wait_Syscall` looks up
  after the sleep (section 6).
- `NumbersNotRecycled`: `Spec_Syscalls => EntriesOnlyDie`, an action property, from the
  invariant that a cleared entry is marked.
- `SyscallTypes`: `Spec_Syscalls => []TypeOK_Syscalls`, from `Bounded`: the entries
  that exist and the Creates under way fit.

The inductive invariant is `Synch`'s, the types, `Bounded` and `Guarded`. `TableLocks`
says who owns a table's lock but not why; `LocksGuard` adds that a thread queued for
it is about to check, `NoGuardWait` that no thread waits on a condition with a
table's lock, which would take the lock back at its wake-up, and `Poised` that a
thread between the unlock and the `Wait` of `Wait_Syscall`, or between the unlock and
the deletion of `Release_Syscall`, is running with interrupts off, and that in the
latter case no other is about to leave an `Acquire` or a `Release`: without it the
entries it has checked could be cleared, or those of another that it clears.

### Processes: `ProcessSteps`, `ProcessProofs`

Without `CleanHeap`, so whatever the uninitialized owners hold:

- `ThreadsAreCounted`: `Spec_Process => []ThreadCounts`. A process is in the table
  exactly as long as it has threads, and its count is their number.
- `MarksAreStored`: `Spec_Process => []MarkedIsStored`. Nobody sees a slot between the
  mark and the store of `Table::Put`.
- `ContextsAreOwn`: `Spec_Process => []OwnContext`. User code runs with its own
  program counters, stack pointer and page table.
- `ProcessesKeepPlaces`: `Spec_Process => [](OnePlace /\ CarcassIsDead)`. The kernel's
  invariant under these handlers, which create threads they keep for a while and end
  the machine.

None of the four is inductive. The invariant `IInv` adds:

- `Lives`: what the handlers and class `Thread` think of a thread agrees. An address
  without an object is in no call, one that was not forked has no code yet.
- `Children`: the thread a caller has created and not forked yet is its own; no other
  call refers to it. Without it two `Exec`s could give one thread two processes.
- `Poised`: a thread between the `Release` in `Put` and the store is running with
  interrupts off. This is why `MarkedIsStored` holds, and it holds only because
  `Release` does not restore the level.
- `Marks`: a slot that is not marked holds no pointer, and a marked one does unless
  the current thread is about to store it.
- `Contexts`: a thread that has set up its context has it in the CPU or saved.
- `FirstProcess`: while the main thread starts, there is no other thread and its
  process gets slot 0, which is the pid it is then assumed to have.
- `Counts`: `ThreadCounts`, that the last thread of a process stays its only one while
  it removes the process, and that members have a stored entry.

`ThreadsAreCounted` is the long one: `LeavesLast` decides on the counts it reads that
the caller is the last thread, releases and removes the process several steps later.
That no `Fork` of the same process comes in between is `LastOut`: a `Fork` would need
a member in user code, and the leaving thread is the only one. `ProcessSteps` reduces
the actions to kinds of step (a call moves on, a thread is created, a switch, a
thread ends) and proves the conjuncts about threads and contexts; `ProcessProofs`
proves those about the table.

### File calls: `FileCallsProofs`

- `FilesAreAccounted`: `Spec_FileCalls => []FilesAccounted`, without `CleanHeap`. The
  invariant puts the property slot by slot and file by file (`Accounts`) and adds
  `OneOpener`, that two threads never have the same `OpenFile` under way, and
  `Arguments`, that what a thread in `Open` or `Close` holds refers to something that
  exists. A `Close` that was checked before the thread slept in the table's lock may
  find the slot empty or reused; the proof shows that it then deletes what it clears.

### Synchronized list and disk: `ListProofs`, `DiskProofs`

For any number of threads, items, sectors and requests:

- `NoItemIsStranded`: assuming `ListMade`, that the constructor's lock and condition
  are among `Synch`'s, `Spec_SynchList => []NoStrandedItem`, without `CleanHeap`. The
  invariant adds that only `Remove` waits (`Removers`). Then `Append` adds an item and
  its one `Signal` moves the head of the condition's queue, which `OnePlace` puts
  asleep in `Wait`, to the threads on their way; a thread leaves them only with an
  item, or to wait when there is none. The two sides are compared as cardinalities.
- `OwnInterruptAwaited`: assuming `DiskMade`, `Spec_SynchDisk => []OwnCompletion`.
  `DiskMade` is what `SynchDisk::SynchDisk` makes, a semaphore of value 0 and a lock
  without a stale owner. `OwnCompletion` alone is not inductive. `Locked` says that a
  thread past `Acquire` owns the lock until its `Release`, through the hand-over to a
  thread that has not run yet (`LockConsistent`). `Units` counts: while a thread waits
  for its interrupt the semaphore has one unit or one to come, never both, and none
  otherwise; the device works exactly while the unit is to come. Without it a unit
  left over from an earlier request would let the next call return at once.
  `Transferred` says that a request under way agrees with the disk.

Both modules first show that `Synch`'s invariants hold under the client. Its steps are
`Synch`'s, but for `Spawn`, which is `new Thread` and `Fork` in one.

### Interrupts: `InterruptProofs`

For any number of threads, tick lengths, delays and times:

- `TimeAccounted`, `YieldAtOnce`: time is the sum of its parts, and a yield the timer
  asked for is not kept for another thread.
- `ModeKept`: `Spec => []OwnMode`. A thread goes on in the mode of the code on its
  stack, whatever ticks, handlers, switches and sleeps came in between. It needs
  `Saved`: a thread that is not executing its code has saved the mode of that code.
- `NoneDue`: `Spec => []NothingDueWhileOn`. It needs that the queue is in order and
  that every path that enables interrupts has looked at it.
- `HaltOnlyWhenDone`: `Spec => []HaltsWhenDone`, from `Found`: a thread that does not run
  is on the ready list or has an interrupt coming.

### Only model-checked

- Liveness (`ReadyRuns`, `ReleaseReturns`, `LastExitHalts`, `ExitEnds`, `CallsReturn`,
  `RequestsReturn`, `EverybodyBoards`, `MailArrives`, `MailTestEnds`) is out of the
  prover's reach.
- `ImplementsStore`, `SectorsAccounted`, `PrintsWhatWasCopied`, `ImplementsFlat`,
  `ReadsAgree`, `ImplementsQueue`, `LatencyExact`, `AsIfAlone`, `ComputesAsManual`: what
  is interesting in them is what recursive definitions or folds compute (bytes of a
  file, words of a memory, nodes of a list, bits of a word), and that needs induction
  over data.
- `SuiteOutcome`, `PlaneComplete`, `ReportAgrees`, `OwnAnswer`: statements about fixed
  programs with fixed numbers of threads; TLC covers what they are about.
- `LinesWhole`, `InputInOrder`, `DeliveredInOrder`, `CanAcknowledge`: no proof has been
  written. The properties are safety properties and within the method; the order of a
  mailbox or of typed characters would rest on lemmas about concatenations of
  sequences along the way of a message.

## 6. What the code does otherwise than its documents say

The first is the run `syscalls_deadlock`. The others were met while modelling; the
models do what the code does, and properties are stated around them where said.

- **Contended `Acquire` deadlocks** (`exception.cc:256`): it sleeps with the table
  locked, and `Release` needs the table.
- **Uninitialized owner** (`synch.cc:105`): `Acquire` lets a thread through when the
  garbage in `owner` is its own address; the lock stays FREE. Hence `CleanHeap`.
- **`Release` leaves interrupts off** (`synch.cc:135`), although the file's header says
  the level is always restored. User programs recover with their next instruction.
- **A Thread object can leak** (`scheduler.cc:124`): a new thread does not pass through
  the deletion in `Run`.
- **`Wait` returns without the lock** (`exception.cc:287`), which may have been destroyed
  while the thread slept: the entry checked before is null then. **`DestroyLock` strands a
  signalled waiter** (`:350`), and **error paths use the rejected entry** (`:282`).
- **`Exec` keeps `syscallLock` when the table is full** (`exception.cc:440`), so that no
  later `Exit` ends: `ExitEnds` excludes it (`astray`).
- **A forked thread starts with the other registers of whoever ran before**
  (`exception.cc:459`): `kernelRun` sets the program counters and the stack pointer only.
  `OwnContext` is about these and the page table.
- **Pages are never given back** (`exception.cc:505`), although the destructor's comment
  says so, and **forked threads share one stack address** (`exception.cc:463`).
- **`Signal` with a wrong lock only prints** (`synch.cc:207`), where the test suite's text
  speaks of terminating the thread.
- **Check-in officers never go home** (`threadtest.cc:555`), and **an available security
  officer may be reserved and not used** (`threadtest.cc:804`).
- **Two passengers can meet in a security line** (`threadtest.cc:444`), although a comment
  there says that the officer "will not take anymore passengers as you are in queue": one
  that screening had already sent is on its way. Both and the officer sleep on one
  condition, so a signal may wake the wrong one, an answer may go to the other passenger
  and one may pass without being counted. `OwnAnswer` and the security count of
  `ReportAgrees` are stated for the days on which this has not happened (`crowded`), the
  rest of `airport_all` for all.
- **The loop that clears a counter has no start value** (`threadtest.cc:325`): it leaves
  bags behind, which does no harm, or with a negative value takes bags from an empty
  vector (`fault`).
- **`Remove` frees the blocks of an open file** (`filesys.cc:278`), so the callers in
  `files_all` do not remove a file that is open. **`Allocate` does not check
  `MaxFileSize`** (`filehdr.cc:41`); the sizes in `files_all` fit. **The performance test
  writes nothing** (`fstest.cc:123`), because files do not grow.
- **`sendBusy` is never set** (`network.cc:115`); `sendLock` is what keeps packets apart.
- **A typed 0xFF looks like EOF** (`console.cc:101`) and is overwritten; the inputs of
  `InputInOrder` exclude it.
- **The disk's clock is an `int`** (`disk.cc:237`); `LatencyExact` is about times that fit.
- **`OR` uses one operand** (`mipssim.cc:375`), **`SRL`/`SRLV` shift in the sign** (`:445`),
  and **`LWR` of an aligned address is big-endian** (`:324`); `ComputesAsManual` leaves
  these out.
- **`Read` from the console returns the length asked for** (`exception.cc:231`), **`Close`
  of 0 or 1 frees the console's slot** (`:234`), and **a bad pointer halts the machine**
  instead of returning -1 (`:53`).

## 7. Not modelled

Stack contents and overflow checks; the decoding of instruction words, the TLB (no
build fills it) and the single-step debugger; `printf` and `rand` system calls;
statistics, host system calls, debug output and parsing of the command line; a crash
of the host between two disk writes and concurrent use of the file system, against
which the code has no defence and claims none; the user version of the airport
(`test/Airport.c`), which stops at its first contended `Acquire`; the other user test
programs, in whose place the models let threads make the calls in any order; the
binary tools.
