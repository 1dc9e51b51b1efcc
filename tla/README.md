# Musa.Core in TLA+

Musa.Core lets code written for the Win32 and Rtl user-mode API run in a Windows
kernel driver: it keeps a process block and thread blocks of its own and builds
fiber local storage, heaps, locks, condition variables, environment variables and
the rest of KernelBase and Ntdll on them. This directory models the parts of it
that have state and concurrency, and, by what they borrow and answer, the functions
that have neither; it checks them with TLC on small instances and proves the central
invariants with TLAPS for every instance.

## Inventory

| part | source (`src/Musa.Core/`) | state | operations | what is hard | what makes it correct |
|---|---|---|---|---|---|
| start and stop | `Musa.Core.cpp`, `Musa.Core.SystemEnvironmentBlock.cpp`, `...Process.cpp` | callback object, PEB and its lock, strings, two heaps, registrations | `MusaCoreStartup`, `MusaCoreShutdown`, three Setup/Teardown pairs | failure at any of twelve acquisitions, release in three functions, notifications in flight | nothing released under what uses it, nothing left behind, every start and stop ends |
| thread blocks | `...SystemEnvironmentBlock.Thread.cpp`, `Musa.Utilities.Overlay.cpp` | AVL table keyed by thread id, its spin lock | `RtlGetCurrentTeb`, `ThreadNotifyCallbackForTeb`, `RunTaskOnLowIrql` | recycled ids, lookup/expiry/insertion in three critical sections, callbacks in exiting threads | a thread gets its own block, no FLS data lost or shared |
| fiber local storage | `...SystemEnvironmentBlock.Fls.cpp`, `Thunks/Ntdll.FiberLocalStorage.cpp`, `KernelBase.FiberLocalStorage.cpp`, `KernelBase.ThreadLocalStorage.cpp` | bitmap, callback array, high index, list of per-thread blocks, spin lock | `RtlFlsAlloc/Free/GetValue/SetValue`, `RtlProcessFlsData`, `FlsCleanup`, `FlsCreate` | lock dropped around callbacks, unlocked slots, double removal at unload | the list is a ring of the owned blocks, each value's callback runs once, no stale value |
| condition variable | `Thunks/Ntdll.Synchronize.ConditionVariable.cpp` | one counter, a keyed event | sleep (two locks), wake, wake all | test and decrement in two steps, blocking release, timeouts | no lost wakeup, no waker stuck, counter bounded |
| SRW lock, critical section | `Thunks/Ntdll.Synchronize.*.cpp` | a push lock, an `ERESOURCE` on the heap | init, delete, enter, leave, try | failed initialisation | exclusion; a dead lock is not used |
| heap | `Thunks/Ntdll.Heap*.cpp`, `KernelBase.Heap.cpp` | list of heaps on the PEB, list of blocks per heap, lock per heap | create, destroy, allocate, reallocate, free, size | growth of the list, encoded pointers, destroy beside use | indices match the list, no block freed twice |
| loaded modules | `Thunks/Ntdll.LibraryLoader*.cpp`, `KernelBase.LibraryLoader.cpp` | 16-bit load count of each module, the system's list and its lock | get handle (by name, path, address), add reference, pin, unload, full name | count changed under the shared lock, pin value, wrap | the count covers the references; what is held or pinned stays loaded |
| environment variables | `Thunks/KernelBase.System.cpp` | variable list on the PEB, two registry keys behind it | get, set, get all, expand | separate looks at list and keys, two passes, two readings, failed allocations | what is read was in force, the copy fits its block, the heap balances |
| current directory, names | `Thunks/Ntdll.Path.cpp` | directory on the PEB, under no lock | set, get, full name, NT name | length and contents read apart, a write under a reader, 16-bit counts | no write beyond the caller's buffer, absolute names convert, one directory per full name |
| files | `Thunks/KernelBase.File.cpp`, `KernelBase.FileVersion.cpp`, `KernelBase.Handle.cpp` | find contexts; what a call borrows | some forty functions | failure with paths, handles and blocks in hand | all given back to its owner, the answer tells the effect, the last error the first failure |
| threads, processes, objects, clocks | `Thunks/KernelBase.Thread*.cpp`, `KernelBase.Process*.cpp`, `KernelBase.Synchronize*.cpp`, `KernelBase.System.Times.cpp`, `KernelBase.RealTime.cpp` | what a call borrows | some eighty functions | references and handles on failure; conversion of timeouts | as for files |
| images, resources, messages, text | `Thunks/Ntdll.Image.cpp`, `Ntdll.Debug.cpp`, `KernelBase.Debug.cpp`, `KernelBase.NLS.cpp`, `Ntdll.Pool.cpp` | what a call borrows | load, find, format, convert | exceptions turned into statuses, growing buffers | as for files |
| last error | `Thunks/Ntdll.Error.cpp`, `KernelBase.Error.cpp` | two fields of the thread block | get, set | overwritten on the way out of a call | tells the first failure |

Interaction: start and stop create and destroy the PEB, the thread blocks, FLS
and the heaps, in that order and back. The operating system calls
`ThreadNotifyCallback` for each exiting thread; it reaches
`ThreadNotifyCallbackForTeb` through the callback object, which deletes the
thread's block and hands its FLS data to `RtlProcessFlsData`, which runs client
callbacks and frees to the process heap. FLS finds its per-thread block through
`RtlGetCurrentTeb`. Condition variables leave and take SRW locks or critical
sections. All heaps register on the PEB under its lock, which also guards the list of
environment variables. Paths are converted into pool memory, which the caller frees
with `RtlFreeUnicodeString`; other buffers are blocks of the process heap. The loader
shares its list and its counts with the system.

## Modules

`FiberLocalStorage` (with `MCFiberLocalStorage`). State: `RtlFlsContext` field by
field (`Lock`, `FlsBitmap`, `FlsCallback`, `FlsHighIndex`), the list as the two
link fields `Flink` and `Blink` of each `LIST_ENTRY` (the unload removes a block
from the list twice, which a sequence could not show), `Slots`, the set of
allocated blocks `live`, `Teb->FlsData`. `pc` and the variables beside it are the
locals of a call. An operation that holds the lock throughout is one action
(`RtlFlsAlloc`); where the code drops the lock or never takes it, each stretch is
an action: `RtlFlsFree` / `...Scan` / `...Call` / `...Resume`, `RtlFlsSetValue` /
`...Insert` / `...Store`, `FlsDataCleanup` / `...Slot` / `...Clear` / `...Unlink` /
`...Free`. `FlsCleanup` (unload) and `FlsCreate` (the next load) close the cycle.
History variables (`linked`, `held`, `registered`, `mine`, `running`, `owed`,
`lost`) record what clients are owed; no guard reads them except those that
describe the client. Calls that change nothing (an invalid index, an exhausted
bitmap, a failed allocation) are stuttering steps.

`ThreadEnvironmentBlock` (with `MCThreadEnvironmentBlock`). State: the running
thread under each id, the table, FLS data taken from a deleted block. A thread is a
record with an identity of its own, because the operating system gives the id
of a finished thread to a new one. `config` is how the library is loaded and used; it
is chosen in `Init` and never changes. `RtlGetCurrentTeb` is three actions (lookup,
expiry, insertion) as it is three critical sections; the exit notification is
deletion and processing.

`EnvironmentBlock`. State: where the starting or stopping thread is, and the set of
resources held. `Acquire(step, r, ...)` is one acquisition that succeeds or fails;
releases are actions of their own. Notifications enter, call and return beside it.

`ConditionVariable` (with `MCConditionVariable`) implements `Sleepers`. State: the counter (a LONG, with a
small range that still wraps), who holds the lock and how, where each thread is. The
client is the one every condition variable has: a predicate under the lock,
tested in a loop. The lock knows both modes (`Modes`); `Rendezvous` is the meeting of `ZwReleaseKeyedEvent` with
`ZwWaitForKeyedEvent`. `use` is how clients wake, chosen in `Init`.
`Sleepers` is the promise without counter, lock or event: who is asleep, which wake each
thread is in, which wakers set out to wake somebody. A wake of one gives up only when
every sleeper has a waker coming, a wake of all ends only when nobody sleeps, and until a
wait has timed out every waker that sets out has a sleeper of its own. `Promise` maps the
threads from the count to the end of the wait to `asleep`, those about to release the event
to `claims`; test and decrement of the counter are both stutters unless the decrement
claims somebody or ends the wake.

`Heap` (with `MCHeap`) implements `SharedHeaps`. State: the list on the PEB (`NumberOfHeaps`,
`MaximumNumberOfHeaps`, `ProcessHeaps`, and in `array` the block of the default heap it
lives in once it has grown), the heaps and blocks in the pool, for each heap its
`Index`, its kind of lock and its `Blocks`, and which `ERESOURCE`s are initialised. What
a heap lock or the PEB lock covers is one action: `RtlCreateHeap` and the three outcomes
of `RtlAppendHeap`; `RtlAllocateHeap` (the memory, without the lock) and its insertion;
`RtlReAllocateHeapFree`; destruction as `DestroyBlocks`, `RtlRemoveHeap`,
`RtlDestroyHeapRelease`; an enumeration, which holds the PEB lock shared across the
client's routine; and the teardown loop over the whole array. Startup creates the default
heap and `MusaCoreHeap`. `fault` records that the code touched memory that was not what
it took it for: `RtlRemoveHeap` may then go on or stop the system. Clients free only what
they hold and use no heap they have destroyed. The combination of paged pool with
`HEAP_NO_SERIALIZE` is left out of the instance (see the facts below).
`SharedHeaps` is the promise without arrays, indices and locks: a set of heaps, the blocks
of each, the heaps that were emptied to be removed, and what an enumeration was shown.
Heaps and blocks come and go in one step, a block belongs to one heap, and no heap comes or
goes while somebody enumerates. `Promise` takes the list for the heaps and leaves out of the
default heap the block the list lives in: a growth of the list, which allocates, copies and
frees, is a creation and nothing else. Once the code has touched wrong memory (`broken` is
`fault # {}`) nothing is promised.

`LoadedModules` (with `MCLoadedModules`) implements `ModuleReferences`. State: the
modules on the system's list and their `LoadCount`, which of them the system itself
holds, and, as history, the references clients hold and what they pinned. Functions
that hold `PsLoadedModuleResource` exclusive are one action; `LdrGetDllHandleEx` holds it
shared and still counts, so reading the count and writing it back, in sixteen bits, are
two (`LdrGetDllHandleEx`, `LdrGetDllHandleExCount`). What a call answers is an operator on
the list, and the lookups that never count are nothing else. `careful`, chosen in `Init`,
says whether clients keep to rules under which the counts can be trusted; no document
states them, they are what the code needs: one lookup of a module at a time, no count up
to the pin value, nothing after a pin, no reference by address. `ModuleReferences` is the
promise without counts: a module somebody refers to or has pinned stays loaded.

`EnvironmentVariables` (with `MCEnvironmentVariables`). State: the value of each name on
the list and under two registry keys, the number of heap blocks the code has taken and
not freed, and one reader in the middle of `GetEnvironmentVariableW`,
`ExpandEnvironmentStringsW` or `GetEnvironmentStringsW`. Readers hold no lock that another
reader wants, so one is followed step by step, beside any number of threads that set
variables and whoever writes the registry. Each look at the list, each query of a key,
each value of a pass is an action. Values are lengths in characters; a datum of another
type is `Other`. `failing` chooses whether allocations and registry calls may fail. For a
call of `GetEnvironmentVariableW`, history variables keep the values that were in force for
its name (`inForce`), those each of its three places had (`past`), and whether a query or an
allocation failed and with it the look at a key (`missed`); `steady` and `listSteady` say
that registry and list have not changed since a call began.

`PathNames` (with `MCPathNames`). State: the buffer of the current directory, the thread
that sets it character by character, and one call of `RtlGetFullPathName_UEx`,
`RtlGetCurrentDirectory_U`, `RtlDosPathNameToNtPathName_U` or a wildcard match. Where the
code reads a length and later the contents, these are two actions. Names are sequences of
symbols: separators, colon, dot, the wildcards, two ordinary characters, and the words
`UNC` and `GLOBALROOT`, which the code compares as wholes. The conversion keeps the two
16-bit counts (`CountModulus`).

`CallSteps`, `FileCalls`, `SystemCalls`, `LibraryCalls` and `KernelCalls` (with
`MCKernelCalls`) treat the functions that keep no state: they check arguments, borrow (a
pool block, a heap block, a handle, a reference, a view), ask services, give back and
answer. `CallSteps` is the vocabulary; each function is a record of its steps, and each
step the set of its outcomes: what it takes, what it gives back and to whom, whether the
last error is set before or after giving back, where it leads. `KernelCalls` is the thread
that calls them, any outcome at any step; a block handed to an owner that does not know
it stays behind and overwrites the last error, as `RtlFreeHeap` does, and `BaseSetLastNTError`
overwrites what the same call has told before (`Tell`; what an allocator says of want of
memory and what its caller says of it at once count as one). What functions
borrow is theirs alone, so one call at a time loses nothing. Where a function departs
from a property, a constant of `KernelCalls` names it (`MisplacesPath`, `Forgets`,
`Astray`, `Mute`, `Hasty`, `Spoils`, `Blurs`), and the facts below say why; every other function
is checked without exception. The specification is `CallsSpec`.

`CallRules` says when a function can be seen to borrow well without following its paths.
A plan gives, for each step, what the function certainly holds when it gets there, what it
may hold, and what may have become of the last error by then; the rules look at one outcome of one
step at a time. `MCKernelCalls` computes the plan of each function as a fixpoint
(`MCPlan`). The rules are sufficient, not necessary; all 151 functions keep them.

`FiberLocalStorageProofs`, `ThreadEnvironmentBlockProofs`, `EnvironmentBlockProofs`,
`ConditionVariableProofs`, `HeapProofs`, `LoadedModulesProofs`,
`EnvironmentVariablesProofs` and `PathNamesProofs` hold the theorems about the module each is
named for; `HeapProofs` also those about the calls, which borrow blocks of the heap.

Operators named `Bad...` stand before the definition they would replace: the same
definition with one slip (a missing reset, an off-by-one, a wrong order). Each
property of a passing run is violated when the matching one is put in its place.

## Runs

| run | bounds | shows |
|---|---|---|
| `fls_quiet` | 2 threads, 2 indices, 2 values, 2 blocks, no restart | `CallbackOwed`, `FreedIndexSettled`, `ReadsOwnValue`, and with fairness `FreeCompletes`, `ExitCompletes`, for clients that never free an index beside another call and give every index a callback |
| `fls_open` | 2 threads, 2 indices, 1 value, 2 blocks, 1 restart | `ListWellFormed`, `ListHoldsOwnedBlocks`, `LostOnlyAtHighIndex`, and the action property `WalkLeavesOnlyByExit`, for any client |
| `teb` | 2 ids, 2 processes, 3 blocks, 4 threads in all, all 8 configurations, both IRQLs | `FlsDataAccounted` always; `OwnTebWhenQuiet` with exit notifications and callbacks that leave the library alone; `SameProcessTeb` there and without notifications |
| `eb` | any failure, 2 notifications, 3 starts | `DependenciesAlive`, `NotificationSafe`, `OnlyPoolLeft`, and with fairness `Settles` |
| `cv` | 3 threads, exclusive mode, 2 tokens, 2 timeouts, two ways to wake | `CounterBounded`, `Accounting`, `WakeAllEmpties`, and `Implements`, the refinement of `Sleepers`; with fairness and without timeouts `NoLostWakeup`, `WakeCompletes` |
| `heap` | 2 threads, 3 heaps, 3 blocks, 3 kinds of lock, arrays of length 1 and 4, both block sizes | until a fault `HeapListSound` (the length of the array included), `PoolAccounting`, and `Implements`, the refinement of `SharedHeaps` |
| `loader` | 2 threads, 2 modules, 2 names, 1 path, counts up to 4, 2 references a module | `CountCovers`, and `Implements`, the refinement of `ModuleReferences` |
| `environment` | 2 names, values of 0 and 1 characters, 2 contents of the registry at the start, 2 places in it that others write, 2 texts, sizes 1 and 3, 2 changes during a call | `ReadWasInForce`, `ExpansionWhole`, `StringsFit`, `HeapBalanced` |
| `calls` | all 151 functions, every path | `GivesBack`, `UsesWhatItHolds`, `AnswerTellsEffect`, `FailureTold`, and `RunsByRules`, the hypothesis of the theorems about calls |
| `paths` | `MAX_PATH` 6, limit 14, counts modulo 32, all names of up to 3 symbols and those behind each root, 2 directories, 3 buffer sizes, patterns and file names of up to 3 characters | `ConvertsAbsoluteNames`, `WritesInBuffer`, `ResolvesFromOneDirectory`, `WildcardsMatch` |

Two threads are enough for FLS because every interference is between one walker or
storer and one thread that exits or stores; two indices make the lowest and the
highest differ; two blocks let an address be used again; one restart shows
what an unload leaves. Two ids and four threads let every id be recycled, inside
a process and between processes. Three threads on the condition variable are the least
in which two wakers can claim one sleeper, or one waker two sleepers; the theorems
cover more threads, and the shared mode, which the run leaves out because it only
multiplies the interleavings of the lock. Counts up to 4 in the loader leave room for the
system's reference, two of a client's, and the pin value. Two names and two keys let one
name hide another and a key stand in for the other; a value of no character and one of
one are the shortest that fit and do not fit a buffer of one. Others write the first name
under both keys, the second name has a value under the first key or none; two changes during
a call are the least by which a value can move from one place to another, or come and go at
one, between two looks. In the paths a directory of six characters is one
that fills its buffer, and names reach the limit of 14 from both sides, with a prefix
and without. Three heaps are the two of startup and one of a client, or a
client's heap behind another when `MusaCoreHeap` could not be made; an array of one
entry grows at the second and at the third heap, so it moves from the PEB page to the
default heap and from there to another block, one of four never grows. Every bound is a constant named `Max...` and a conjunct of a guard.
The clients of a condition variable wake one sleeper at a time without the lock, or use
both wakes with it (`Uses`): with both and no lock the wake of all can run the
counter down its whole range, a use no document of the repository speaks about.

The runs below end in a violation: the property says what the repository says,
and the code does something else.

| run | the repository says | the code |
|---|---|---|
| `fls_walk_race` | the walk enumerates the FLS blocks (`Ntdll.FiberLocalStorage.cpp:125`) | goes on from a block that a thread exit has unlinked and freed during the callback (`CursorOnList`; that nothing else takes a walk off the list is `WalkLeavesOnlyByExit`) |
| `calls_path_leak` | "Allocate pool memory so the caller can safely RtlFreeUnicodeString" (`Ntdll.Path.cpp:165`) | `GetDiskFreeSpaceExW`, `CreateHardLinkW` and `CreateDirectoryExW` hand it to `RtlFreeHeap`, which does not find it: the path stays behind and the last error is overwritten |

Facts the modules show that have no run, each the reason for a condition in a
property, a constant, or a name in one of the sets of `KernelCalls`.

Fiber local storage, thread blocks, heaps:

- `FlsDataCleanup` stops below the highest allocated index (`Idx < HighIndex`,
  `...Fls.cpp:84`), so the callback of that slot is never run;
  `docs/system-architecture.md:142` says the unload walks the slots and runs them. Hence
  `LostOnlyAtHighIndex`.
- With `AllowTls`, an index can change hands without a callback array: neither free nor
  allocation clears its slots, and the next owner reads the old value
  (`ReadsOwnValue` fails); and an index allocated without a callback keeps that of
  its former owner, which then runs on its values (`CallbackOwed` fails).
- An unload leaves the bitmap and the high index as they were, so indices allocated
  before it stay taken after the next start (`docs/system-architecture.md:143` says the
  bitmap is released).
- With exit notifications and a callback that uses the library, the callback runs
  after the block was deleted, re-creates it, and the next thread with that id
  inherits it: hence `Quiet`.
- With notifications off, an id recycled inside one process inherits the block of the
  finished thread (`...Thread.cpp:214`); `docs/api-reference.md:63` says
  `RtlGetCurrentTeb` returns the block of the current thread.
- A failed `ExRegisterCallback` leaves the lookaside list behind (`...Thread.cpp:158`), which
  `docs/changelog.md:58` ("full rollback") does not expect: hence `OnlyPoolLeft`.
- With notifications asked for and no driver object there is neither a notification nor
  an expiry test, and a thread can get a block of another process: hence the
  premise of `SameProcessTeb`.
- `RtlGetCurrentTeb` at `DISPATCH_LEVEL`, which its annotation allows, can reach the wait
  for a work item (`pc[t] = "Wait"`).
- Removing a heap that is not the last of the list writes the index of the one that moved
  down through an encoded pointer (`Ntdll.Heap.Lock.cpp:129`), and the unload, which
  destroys `MusaCoreHeap` before the heaps clients left, can stop there.
- When the heap list has grown, its second half is uninitialised memory, and the
  teardown destroys whatever is not null there (`fault` = `"tail"`); and the array is a
  block of the default heap, which the teardown destroys while it still reads the array
  and `RtlRemoveHeap` still clears its last entry (`"list"`). After a removal that went
  through an encoded pointer the indices behind it are one too high, so a later removal
  takes out the wrong heap and the teardown meets a freed one (`"stale"`). Hence
  the premise `fault = {}`.
- A paged heap with `HEAP_NO_SERIALIZE` initialises a resource behind the end of its
  allocation, which has no room for one (`Ntdll.Heap.Core.cpp:84-89` and `120-123`), and
  never deletes it (`:191`): hence `Kinds` of the instance.
- The heaps are destroyed before the thread blocks are torn down;
  `docs/system-architecture.md:146` draws it the other way round.
- A failed `ExInitializeResourceLite` leaves the pointer of the freed resource in the
  critical section (`Ntdll.Synchronize.CriticalSection.cpp:62`).

Loader:

- `GetModuleHandleW` counts a reference, which Win32 callers never give back; a pin by name
  only counts, because the flag for pinning has the other value one level down (and the
  branch `Flags == LDR_ADDREF_DLL_PIN`, `Ntdll.LibraryLoader.cpp:129`, is never reached); a
  lookup by address gives no count. Hence `careful`. Two
  lookups of one module at a time can write the same count and lose a reference
  (`Ntdll.LibraryLoader.cpp:132`); `careful` rules that out too.
- `LdrAddRefDll` of a pinned module answers that there is none; an unload decrements the pin
  value, and a lookup at the pin value wraps to 0.
- A path that does not match is a success without a handle (`:112-118`).
  `LdrGetDllFullName` clears the caller's string before it copies (`:222`), so
  `GetModuleFileNameW` always returns 0.

Environment and paths:

- A variable that is deleted reappears from the registry; one set variable hides all of the
  registry from `GetEnvironmentStringsW`; an undefined reference vanishes in an expansion;
  a value that changes between its two readings leaves a gap or is cut, which the count of
  the expansion does not show (hence `steady` and `listSteady` for `whole` in
  `ExpansionWhole`; count, position and terminator are right all the same). A value that grows
  beyond its buffer between two queries of a key reads as missing (hence `missed` in
  `ReadWasInForce`). A variable that moves from the second key to the list, or to the first key,
  behind the back of a reader that has looked there, can be told as missing although one place always had it,
  and a value seen at a key may by then be hidden by another: what was in force at one
  moment is told only if no more than one place changed.
- A registry call or an allocation that fails in the first pass of `GetEnvironmentStringsW`
  and not in the second makes the second write beyond the block (`KernelBase.System.cpp:447`
  and `496`): hence `steady` in `StringsFit`. A datum of length zero is answered with
  `(DWORD)-1` (`:261`).
- The current directory is guarded by no lock. A full name can be resolved against half of
  the old and half of the new one (hence `quiet`), and `"C:."` beside a directory that grows
  is copied without a terminator (`Ntdll.Path.cpp:282-287`). A directory that fills its
  buffer loses its last character in a full name (`:311`); a longer one is cut and
  reported as set (`:241`). `"C:"` alone counts as relative. A name behind
  `\\.\GLOBALROOT\` gets two leading separators (`:97-103`). `/` separates, and is left in
  NT names. A star before another star wants a character.

Calls:

- `Hasty`: `FormatMessageA/W` and `GetDateFormatEx`/`GetTimeFormatEx` answer a failure with a
  size; `SleepConditionVariable*` answer TRUE after a timeout;
  `GetFileInformationByHandleEx` takes a query under way for one that is done
  (`KernelBase.File.cpp:1789`). `Spoils`: `GetProcessInformation` writes the caller's buffer
  and then fails; `CopyFile2` leaves a destination behind when it has no buffer, and is also
  one of `Hasty`: a write that is cut short answers with whatever last error there was, which
  may be none. `Mute`:
  `MultiByteToWideChar`, `WideCharToMultiByte` and `GetDriveTypeW` fail without a last error,
  and so does `FormatMessageA` into the caller's buffer, where the conversion of no
  characters answers 0. `Blurs`: `FindFirstFileExW` (and `FindFirstFileW`, which calls it)
  tells of "no such file" whatever its first query told (`KernelBase.File.cpp:1148`, `1152`
  and then `1269`); `GetTempPathW` tells that the buffer is too small after it told of a
  variable that is not there (`:826`).
  `Astray`: `GetThreadDescription` ends the name through
  `ThreadDescription[Length >> 1]`, beyond the caller's one pointer
  (`KernelBase.Thread.cpp:712`). `Forgets`: `RtlMapResourceId` leaves its copy after an
  exception, `FormatMessageA` the converted source without a buffer; the others are the
  paths of `calls_path_leak`.
- `FormatMessageA` hands the wide text on with length 0 (`KernelBase.Debug.cpp:151-154`).
  `CreateSymbolicLinkW` lets a target that cannot be converted
  through. `FindFirstFileExW` appends a star that the conversion of paths refuses.
- A timeout of 2^31 milliseconds or more becomes negative (`KernelBase.Synchronize.cpp:63`,
  `106`, `151`, `479`, `508`): a point in absolute time long past. `SetFilePointer` extends a
  negative distance without its sign. `GetTimeZoneInformation` never reads the bias.
- `SetFilePointerEx`, `SetEndOfFile` and `SetHandleInformation` read and then set, in two
  calls; what they touch is the system's, and Win32 promises no atomicity there.

## Fairness

FLS: strong fairness of each thread's steps inside a call. A thread that spins for
the lock finds it free again and again (`EX_SPIN_LOCK` is fair enough to let a
spinner through), callbacks return, threads are scheduled. Starting a call is never
required. Start and stop: weak fairness of the one thread and of each
notification in flight, none of their arrival. Condition variable: weak fairness
inside calls, strong fairness of taking the lock and of the keyed event, which
queues releasers and waiters; none of the clients' entering. Thread blocks, heaps, loader,
environment, paths and calls are checked for safety only and their specifications state no
fairness: but for locks, and the wait of `RunTaskOnLowIrql` for its work item, nothing in
them waits for another thread.

## Proofs

All theorems hold for every choice of the constants their modules assume something
about: any number of threads, indices, blocks, ids, starts, timeouts.

`FiberLocalStorageProofs`:

- `TypeCorrect`: `Spec => []TypeOK`. Inductive invariant `TypeInv`: `TypeOK`, what the
  locals mean at each point of a call (`LocalsOK`: a walker past its test stands on a
  block, an inserter has a block), and which points exist in which phase (`PhaseOK`).
- `ListIsARing`: `Spec => []ListWellFormed`, and `OwnershipHolds`:
  `Spec => []ListHoldsOwnedBlocks`. `ListWellFormed` alone is not inductive:
  `RemoveEntryListUnsafe(d)` keeps the ring only if `d` is linked, which is so only if
  nobody else owns `d`. `ListInv` therefore joins the ring with one owner for each
  block (`Distinct`), what is linked in terms of owners (`Owned`), and, for the
  unload, that the links of a block that was just removed still name its two
  neighbours, so that removing it again changes nothing (`Removed`; lemma
  `SecondRemoval`). `InsertKeepsRing` and `RemoveKeepsRing` are the facts about the
  doubly linked list: inverse links and no closed-off group (`RingParts`).
- `WalkLeaves`: `Spec => WalkLeavesOnlyByExit`, for any client. That a walk stays on the list
  is false (`fls_walk_race`), so the theorem says how it can be left: in the one step in
  which the thread that owns the block the walk stands on exits and unlinks it, while the
  walk has dropped the lock for a callback. `LeaveStep` goes through the steps: a step of the
  walk itself follows a link of a listed block, with the lock held (`LockOK`), an exit takes
  out its own block only (`ListInv`), and an insertion takes out none.
- `LossesAreHigh`: `Spec => []LostOnlyAtHighIndex`, for any client. `LostInv` says that an
  exit leaves nothing owed in the slots below the one it stands at (`LeftOK`), which another
  thread's store could break only with a value already in use (`PendingOK`) or through a
  block it does not own; and that without a callback array nothing in a slot is owed
  (`NoArrayOK`), because an exit then skips all slots. `LiveInv` accounts for the blocks that
  are allocated and not linked.
- `CallbacksAreOwed` (`CallbackOwed`), `FreeingSettles` (`FreedIndexSettled`) and
  `ThreadsReadTheirOwn` (`ReadsOwnValue`), under `Quiet`: `FreeAlone`, and every index has a
  callback (`AllowTls = FALSE`). `AccountInv` matches the slots of the live blocks and the
  accounts one to one (`SlotsOK`, `AccountsOK`, `OncePlaced`): what a store replaces, a
  callback consumes or a freed block still holds closes exactly one account. A slot in use
  belongs to an index that is held or being freed, whose callback is in the array
  (`RegisteredOK`). That a free leaves nothing behind is an argument about the ring: the
  blocks passed so far have an empty slot and lie between head and cursor (`WalkedOK`), so at
  the head the rest would be a closed-off group (lemma `WalkDone`). `AllowTls` is needed
  because of the second of the facts above.

`ThreadEnvironmentBlockProofs`, all from one inductive invariant, `TebInv`:

- `TebTypeCorrect` (`TypeOK`), `OwnTebHolds` (`OwnTebWhenQuiet`), `NoOrphanHolds`
  (`NoOrphanTeb`), `SameProcessHolds` (`SameProcessTeb`), `FlsDataHasOneHolder`
  (`FlsDataAccounted`). What a thread was given says little once its lookup, its expiry
  test and its insertion are separate sections: `TebInv` adds what the locals of each
  call mean at each point, that a block a call returned is still the one in the table
  while its thread runs, and that each FLS datum has one holder (a block in the table,
  a deletion that took it, or an expiry under way).

`EnvironmentBlockProofs`, from `EnvInv`:

- `EnvTypeCorrect` (`TypeOK`), `DependenciesHold` (`DependenciesAlive`),
  `NotificationsAreSafe` (`NotificationSafe`), `OnlyPoolIsLeft` (`OnlyPoolLeft`).
  `DependenciesAlive` is kept by a release only if what stands on the resource is gone by
  then, so `EnvInv` gives each resource the span of steps in which it may be held
  (`SpansOK`), what is held when the next acquisition starts (`HeldOK`), that a
  notification is in flight only while everything it meets is there (`NotifyOK`), who
  still holds a reference to the callback object (`ObjectOK`), and when the pool may be
  left (`PoolOK`).

`ConditionVariableProofs`, from `CvInv`, under `AllUnderLock` (a wake of all is called
with the lock held; the bounds and the refinement fail without it, see `Uses`):

- `CvTypeCorrect` (`TypeOK`), `CounterIsBounded` (`CounterBounded`), `NoSleeperIsInvisible`
  (`NeverUndercounts`, which no run checks by name), `CounterIsExact` (`Accounting`), `PredicateTestedUnderLock`
  (`TestsUnderLock`), and the action property `WakeAllLeavesNobody` (`WakeAllEmpties`).
  `CvInv` joins the exclusion of the lock (`LockOK`), what a waker knows between its test
  and its decrement (`RoundOK`), and the counter between the sleepers nobody has claimed
  and those plus the timeouts (`CountOK`); the lower end of its range is the number of
  wakers that can still decrement it.
- `CounterImplementsSleepers`: `Spec => Implements`. No further invariant is needed, but what
  the counter says has to be turned into sleepers: a waker that reads zero or less proves
  that each sleeper has a waker coming (`NobodyUnclaimed`), one whose decrement claims
  proves that, timeouts apart, somebody was left to claim (`SomeoneUnclaimed`). A wake of
  all under the lock is the only wake there is (`AllIsAlone`), so what it reads is still so
  when it ends; lemma `Rouses` is the meeting of waker and sleeper, which decides whether
  the wake goes round.

`LoadedModulesProofs`, from `LoaderInv`:

- `LoaderTypeCorrect` (`TypeOK`), `CountCoversReferences` (`CountCovers`), and
  `CountsImplementReferences`: `Spec => Implements`, a refinement of `ModuleReferences` step
  by step. `CountCovers` alone is not kept by the second step of a lookup, which writes
  back a count that may be old: `LookupOK` says that the count a careful client's lookup
  read is still the count, `CoverOK` counts a pin as one reference more, so that no unload
  reaches the last one.

`HeapProofs`, for any number of heaps, blocks and growths and any length of the first array:

- `HeapTypeCorrect` (`TypeOK`, which no run checks by name), `ListIsSound`
  (`HeapListSound`), `EnumerationIsAlive` (`EnumeratedAlive`, like `TypeOK`), `PoolIsAccounted`
  (`PoolAccounting`). `TypeOK` holds after a fault too; the others speak of the time
  before one. `ListInv` ties entries and indices to each other in both directions
  (`ListOK`), gives a heap that is being created or destroyed to one call alone
  (`ThreadsOK`), says which heaps startup and clients can still name (`NamesOK`), and
  that the teardown meets the last entry first (`TearOK`): without the last two the
  removal of another entry could not be excluded. `PoolInv` gives each block, data part,
  resource and outgrown array one owner. `PoolIsAccounted` assumes `SerialisedIfPaged`:
  a paged heap is not `HEAP_NO_SERIALIZE`, the combination in which the code initialises
  a resource it never deletes.
- `ListImplementsHeaps`: `Spec => Implements`, under the same assumption and from `ListInv`
  and `PoolInv` together (`Sure`). Every entry of the list names another heap, so that a
  removal, which until a fault only ever takes out the last entry, takes out one heap
  (`RemoveSeen`) and an enumeration never shows one twice (`NextIsNew`, `EnumSeen`); who
  holds a block can be told from the list alone, because a heap that is not on it is in the
  hands of one call; and the block of the list belongs to no client, so that growing the
  list (`GrowSeen`) and freeing the outgrown one (`FreeOldSeen`) are seen by nobody.

The calls, in the same module, for any table of functions and plans that keeps the rules
(`AllKeepRules`):

- `CallsTypeCorrect` (`CallTypeOK`), `CallsGiveBack` (`GivesBack`), `CallsUseWhatTheyHold`
  (`UsesWhatItHolds`), `AnswersTellEffects` (`AnswerTellsEffect`), `FailuresAreTold`
  (`FailureTold`). The four properties speak of a call as it uses, gives back or answers
  and are far from inductive; `CallInv` says that a running call holds what the plan of
  its step is sure of and no more than the plan allows, and that the plan counts with what
  has become of its last error (as it was, told once, told again, spoiled by a misplaced
  free). One outcome then leads from plan to plan (`WithinPlan`). The
  hypothesis is not assumed of the code: `RunsByRules`, an invariant of the run `calls`, is
  `AllKeepRules` for each function of the real table in turn.

`EnvironmentVariablesProofs`, for any number of names, keys, values and changes by others:

- `EnvTypesCorrect` (`EnvTypes`), `VariablesTypeCorrect` (all of the type invariant, with
  room and position of a copy), `HeapIsBalanced` (`HeapBalanced`), `AnswerWasInForce`
  (`ReadWasInForce`), `ExpansionIsWhole` (`ExpansionWhole`). A reading looks at the list, then
  at two keys, and each look may be out of date at the next, however often others write.
  `PastOK` says that what each place has now is among what it had, that every place already
  passed had nothing at some moment, and that if all places but one have stayed as they are,
  whatever that one had made a value that was in force (`Mixed`): so the value of the last
  look was in force if one place at most changed (`QueryInForce`). `ExpandOK` relates room,
  filled part and total of the buffer whatever changes, and says that what a reading found
  is still so while nobody has written (`LookOK`, `FoundOK`).
- `StringsAlwaysFit` (`StringsFit`): the second pass of `GetEnvironmentStringsW` writes no
  more than the first has measured. `PassOK` gives both passes one sum (`Sum`: what the
  values of a key cost up to an index), which the first has counted so far and the
  second has written so far, as long as nobody changes the registry. That such sums exist,
  grow with the index, and reach every value once is shown without induction over an
  operator: a set of numbers with a counterexample has a least one (`LeastOf`), which is
  refuted (`CountsExist`, `TotalsExist`, `SumGrows`).

`PathNamesProofs`, for any names, directories, patterns, buffer sizes and `MAX_PATH`:

- `DirectoryIsTerminated` (`Terminated`): some character of the directory's buffer is the
  terminator at every moment, also between two characters of a write. The writer cuts the
  name so that the last character it writes, of index at most `MAX_PATH - 1`, is one
  (`SettingOK`).
- `CopiesFit` (`WritesInBuffer`): a copy is as long as the length read before it, not the
  directory it meets (`CopyOK`, `CountOK`).
- `AbsoluteNamesConvert` (`ConvertsAbsoluteNames`), from `NtOK`: an answer is one of
  `NtNames` of the name that was asked for. The rest is about names. `Parts` is a fold;
  `PartsGathered` turns it into a function of the position, `PartsConcat` says that parts
  behind a separator are gathered as if nothing were before them, `TheRoot` and `TypeSays`
  that the type the code finds by comparing characters is that of the longest root the
  name starts at, and `NtNamesConvert` goes through the types.
- `OneDirectoryResolves` (`ResolvesFromOneDirectory`). `ResolveInv` adds to the buffer's
  invariant that the directory always names one (`NamesADirectory`) and, while nobody has
  written since the call began (`quiet`), that what the call has read so far is what the
  buffer holds (`Reads`). `FullNamesResolve` and `DirectoryResolves` are the two ways to put
  the answer together, `FilePartIsLast` the file part.
- `WildcardsAreMatched` (`WildcardsMatch`). The match is a table of which the code computes the
  first entry; `OneMatch` says that its equations have one solution, and
  `LayTableMatches` that the ways the rest of a name can be laid along the rest of a
  pattern solve them, with one lemma for each kind of pattern character (`LaysAtEnd`,
  `LaysOne`, `LaysStar`, `LaysUnderStar`). A star needs that the next character is no star:
  the premise of the property.

The assumptions are those of the modules, which TLC evaluates in the runs:
`FlsAssumption` (the list head is no block, `NULL` is none of the values), `TebAssumption`,
`EnvironmentAssumption` and `CvAssumption` (finitely many threads; the range of the
counter holds one per thread below and one per thread and timeout above zero, as a LONG
does), `HeapAssumption`, `LoaderAssumption`, `SizesFit` (names, directories and patterns are
strings that end at their terminator; the first directory is not empty; what fits where).

Outside the prover's reach, and model-checked only, is liveness (`FreeCompletes`,
`ExitCompletes`, `Settles`, `NoLostWakeup`, `WakeCompletes`). The three refinements are of
specifications without fairness and say nothing about what must happen. Every safety and action property
of a passing run is a theorem, but `RunsByRules`, which is about the one table of functions
the code has. Induction over data was avoided, not done: where a fold, a
sum or a table needs it, a least counterexample is refuted (`SmallestOf`, `Climbs`,
`LeastOf`).

## Plan

1. Composition: FLS on thread blocks on the start and stop.
2. Pure algorithms against reference definitions: timeout conversion, the wide
   multiplications of the clocks, string comparison, the walk over a mapped image.

## Not modelled

The kernel's own objects (spin locks, push locks, keyed events, the AVL table, the
callback object) are taken at their documented behaviour. Left out: the text copied into the PEB,
logging, the values that queries convert (sizes, times, attributes), the tables and the
string comparison of `KernelBase.NLS.cpp`, the arithmetic of clocks, the walk over a mapped
image, and the unit tests: none keeps state or waits. The last error is followed within
each call, not across calls. What file system, registry and object manager do with a
request is theirs; a request succeeds or fails. Clients are
assumed to be out of the library when it is unloaded.
