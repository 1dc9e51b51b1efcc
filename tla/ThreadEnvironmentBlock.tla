----------------------- MODULE ThreadEnvironmentBlock -----------------------
(***************************************************************************)
(* The table of thread environment blocks: RtlGetCurrentTeb, which finds   *)
(* or lazily creates the block of the calling thread, and the thread        *)
(* notification that deletes it.  The table is keyed by thread id alone,    *)
(* and the operating system hands the id of a finished thread to a new one, *)
(* so the question is always whose block a thread gets.                     *)
(*                                                                         *)
(* A block is deleted by the exit notification when that was registered     *)
(* (MusaCoreUseThreadNotifyCallback and a DRIVER_OBJECT), otherwise only    *)
(* when RtlGetCurrentTeb finds a block whose ProcessId is another one.      *)
(* Every access to the table is one critical section of MusaCoreTebLock.    *)
(***************************************************************************)
EXTENDS Naturals

CONSTANTS Tids,        \* thread ids the operating system recycles
          Pids,        \* process ids
          Blocks,      \* RTL_FLS_DATA blocks the heap can hand out
          NULL,
          Configs,     \* the ways the library is loaded and used:
                       \* notify    MusaCoreUseThreadNotifyCallback
                       \* driver    MusaCoreDriverObject is not null
                       \* callbacks FLS callbacks call into the library
          MaxThreads   \* bound: threads created during a behaviour

Threads == [id : 1 .. MaxThreads, pid : Pids]

(* KTEB: owner is the thread that inserted the block (history).             *)
Tebs == [owner : Threads, ProcessId : Pids, FlsData : Blocks \cup {NULL}]

ASSUME TebAssumption ==
    /\ NULL \notin Blocks /\ NULL \notin Threads /\ NULL \notin Tebs
    /\ Configs \subseteq [notify : BOOLEAN, driver : BOOLEAN, callbacks : BOOLEAN]
    /\ MaxThreads \in Nat

(* Levels RtlGetCurrentTeb is called at.                                    *)
Irqls == {"PASSIVE_LEVEL", "DISPATCH_LEVEL"}

VARIABLES
    config,   \* the way of this behaviour: it never changes
    thread,   \* the running thread that has each id: [id, pid], or NULL
    table,    \* MusaCoreTebTable: the block under each id, or NULL
    pc,
    irql,     \* level of the call in progress
    flush,    \* FlsData taken from a deleted block, still to be processed
    teb,      \* history: owner of the block RtlGetCurrentTeb last returned
    live,     \* allocated FLS blocks
    lost,     \* history: blocks dropped because a work item failed
    created   \* threads created so far: the source of their identities

vars == <<config, thread, table, pc, irql, flush, teb, live, lost, created>>

TypeOK ==
    /\ config \in Configs
    /\ thread \in [Tids -> Threads \cup {NULL}]
    /\ table \in [Tids -> Tebs \cup {NULL}]
    /\ pc \in [Tids -> {"Run", "Insert", "Notify", "Flush", "Wait", "ExitFlush"}]
    /\ irql \in [Tids -> Irqls]
    /\ flush \in [Tids -> Blocks \cup {NULL}]
    /\ teb \in [Tids -> Threads \cup {NULL}]
    /\ live \subseteq Blocks
    /\ lost \subseteq live
    /\ created \in 0 .. MaxThreads

Init ==
    /\ config \in Configs
    /\ thread = [t \in Tids |-> NULL]
    /\ table = [t \in Tids |-> NULL]
    /\ pc = [t \in Tids |-> "Run"]
    /\ irql = [t \in Tids |-> "PASSIVE_LEVEL"]
    /\ flush = [t \in Tids |-> NULL]
    /\ teb = [t \in Tids |-> NULL]
    /\ live = {}
    /\ lost = {}
    /\ created = 0

Registered == config.notify /\ config.driver

Goto(t, l) == pc' = [pc EXCEPT ![t] = l]

(* A definition named Bad... is a seeded fault: the definition below it with *)
(* one slip, used to see that a property notices.                           *)

(* A block for the thread that has id t, with FLS data d.                   *)
BadNewTeb(t, d) == [owner |-> thread[t], ProcessId |-> NULL, FlsData |-> d]
NewTeb(t, d) == [owner |-> thread[t], ProcessId |-> thread[t].pid, FlsData |-> d]

-----------------------------------------------------------------------------
(* The operating system creates a thread under a free id.                   *)
CreateThread(t, p) ==
    /\ thread[t] = NULL
    /\ created < MaxThreads
    /\ created' = created + 1
    /\ thread' = [thread EXCEPT ![t] = [id |-> created + 1, pid |-> p]]
    /\ UNCHANGED <<config, table, pc, irql, flush, teb, live, lost>>

(* A block of another process under this id has outlived its thread; the    *)
(* code looks for that only when thread notifications are off.              *)
BadExpired(t) == FALSE
Expired(t) == ~config.notify /\ table[t].ProcessId # thread[t].pid

(* RtlGetCurrentTeb: the lookup under the shared lock.                      *)
RtlGetCurrentTeb(t, q) ==
    /\ thread[t] # NULL
    /\ pc[t] = "Run"
    /\ irql' = [irql EXCEPT ![t] = q]
    /\ IF table[t] = NULL THEN Goto(t, "Insert") /\ UNCHANGED teb
       ELSE IF Expired(t) THEN Goto(t, "Notify") /\ UNCHANGED teb
       ELSE teb' = [teb EXCEPT ![t] = table[t].owner] /\ UNCHANGED pc
    /\ UNCHANGED <<config, thread, table, flush, live, lost, created>>

(* ThreadNotifyCallbackForTeb: delete the block under the exclusive lock    *)
(* and take its FLS data along.                                             *)
BadDeleteTeb(t) ==
    /\ table' = [table EXCEPT ![t] = NULL]
    /\ UNCHANGED flush

DeleteTeb(t) ==
    /\ table' = [table EXCEPT ![t] = NULL]
    /\ flush' = [flush EXCEPT
                   ![t] = IF table[t] = NULL THEN NULL ELSE table[t].FlsData]

(* The expired path raises the same notification itself; above APC_LEVEL    *)
(* the FLS data goes to a work item and the caller waits for it.            *)
NotifyExpired(t) ==
    /\ pc[t] = "Notify"
    /\ DeleteTeb(t)
    /\ Goto(t, IF flush'[t] = NULL THEN "Insert"
               ELSE IF irql[t] = "PASSIVE_LEVEL" THEN "Flush" ELSE "Wait")
    /\ UNCHANGED <<config, thread, irql, teb, live, lost, created>>

(* RtlProcessFlsData on the data that was taken: the client's callbacks run *)
(* in this thread, which has no block now; one that uses the library gets a *)
(* new one, and FLS data when it stores a value.  Then the data is freed.   *)
ProcessFlsData(t) ==
    /\ flush' = [flush EXCEPT ![t] = NULL]
    /\ \/ /\ live' = live \ {flush[t]}
          /\ UNCHANGED table
       \/ /\ config.callbacks
          /\ \E d \in (Blocks \ live) \cup {NULL} :
               /\ table' = [table EXCEPT ![t] = NewTeb(t, d)]
               /\ live' = (live \cup ({d} \ {NULL})) \ {flush[t]}

FlushExpired(t) ==
    /\ pc[t] = "Flush"
    /\ ProcessFlsData(t)
    /\ Goto(t, "Insert")
    /\ UNCHANGED <<config, thread, irql, teb, lost, created>>

(* RunTaskOnLowIrql: the work item frees the data on another thread, or it  *)
(* could not be allocated and the data stays behind.                        *)
WaitForTask(t) ==
    /\ pc[t] = "Wait"
    /\ flush' = [flush EXCEPT ![t] = NULL]
    /\ \/ live' = live \ {flush[t]} /\ UNCHANGED lost
       \/ lost' = lost \cup {flush[t]} /\ UNCHANGED live
    /\ Goto(t, "Insert")
    /\ UNCHANGED <<config, thread, table, irql, teb, created>>

(* The lazy insertion: RtlInsertElementGenericTableAvl returns an existing  *)
(* element, a new one, or null when the pool is exhausted.                  *)
InsertTeb(t) ==
    /\ pc[t] = "Insert"
    /\ \/ /\ table[t] = NULL
          /\ table' = [table EXCEPT ![t] = NewTeb(t, NULL)]
          /\ teb' = [teb EXCEPT ![t] = thread[t]]
       \/ /\ table[t] = NULL
          /\ UNCHANGED <<table, teb>>
       \/ /\ table[t] # NULL
          /\ teb' = [teb EXCEPT ![t] = table[t].owner]
          /\ UNCHANGED table
    /\ Goto(t, "Run")
    /\ irql' = [irql EXCEPT ![t] = "PASSIVE_LEVEL"]
    /\ UNCHANGED <<config, thread, flush, live, lost, created>>

(* The thread stores its first FLS value through the block it got.          *)
AttachFlsData(t) ==
    /\ thread[t] # NULL
    /\ pc[t] = "Run"
    /\ teb[t] # NULL
    /\ table[t].FlsData = NULL
    /\ \E d \in Blocks \ live :
         /\ live' = live \cup {d}
         /\ table' = [table EXCEPT ![t].FlsData = d]
    /\ UNCHANGED <<config, thread, pc, irql, flush, teb, lost, created>>

(* The thread ends.  Registered, the exit notification runs in its context  *)
(* first; otherwise its block stays in the table.                           *)
BadExitThread(t) ==
    /\ thread[t] # NULL
    /\ pc[t] = "Run"
    /\ thread' = [thread EXCEPT ![t] = NULL]
    /\ teb' = [teb EXCEPT ![t] = NULL]
    /\ UNCHANGED <<config, table, flush, pc, irql, live, lost, created>>

ExitThread(t) ==
    /\ thread[t] # NULL
    /\ pc[t] = "Run"
    /\ teb' = [teb EXCEPT ![t] = NULL]
    /\ IF Registered THEN DeleteTeb(t) ELSE UNCHANGED <<table, flush>>
    /\ IF flush'[t] = NULL
       THEN thread' = [thread EXCEPT ![t] = NULL] /\ UNCHANGED pc
       ELSE Goto(t, "ExitFlush") /\ UNCHANGED thread
    /\ UNCHANGED <<config, irql, live, lost, created>>

FlushExited(t) ==
    /\ pc[t] = "ExitFlush"
    /\ ProcessFlsData(t)
    /\ thread' = [thread EXCEPT ![t] = NULL]
    /\ Goto(t, "Run")
    /\ UNCHANGED <<config, irql, teb, lost, created>>

Next == \E t \in Tids :
    \/ \E p \in Pids : CreateThread(t, p)
    \/ \E q \in Irqls : RtlGetCurrentTeb(t, q)
    \/ NotifyExpired(t) \/ FlushExpired(t) \/ WaitForTask(t) \/ InsertTeb(t)
    \/ AttachFlsData(t) \/ ExitThread(t) \/ FlushExited(t)

Spec == Init /\ [][Next]_vars

-----------------------------------------------------------------------------
(* PROPERTIES                                                               *)

(* RtlGetCurrentTeb returns the block of the calling thread, never one that *)
(* an earlier thread with the same id has left behind.                      *)
OwnTeb == \A t \in Tids : teb[t] # NULL => teb[t] = thread[t]

(* That holds when exit notifications are registered and the callbacks of   *)
(* FLS data, which run after the block is gone, leave the library alone.    *)
Quiet == Registered /\ ~config.callbacks

OwnTebWhenQuiet == Quiet => OwnTeb

(* Then the table does not grow either: it holds blocks of running threads  *)
(* only.                                                                    *)
NoOrphanTeb ==
    Quiet => \A t \in Tids : table[t] # NULL => table[t].owner = thread[t]

(* A thread never gets a block of another process: with notifications off,  *)
(* when blocks of finished threads stay in the table and callbacks may make *)
(* new ones, as well as with notifications.                                 *)
SameProcessTeb ==
    ~config.notify \/ Quiet =>
      \A t \in Tids : teb[t] # NULL => teb[t].pid = thread[t].pid

(* Every allocated FLS block is reachable in exactly one way, through one   *)
(* TEB or from the one thread that is processing it, unless a work item for *)
(* it failed; and nothing refers to a block that was freed.                 *)
FlsDataAccounted ==
    LET Refs(d) == {t \in Tids : table[t] # NULL /\ table[t].FlsData = d}
        Hands(d) == {t \in Tids : flush[t] = d}
    IN  \A d \in Blocks :
          IF d \in live \ lost
          THEN \/ Hands(d) = {} /\ \E t \in Tids : Refs(d) = {t}
               \/ Refs(d) = {} /\ \E t \in Tids : Hands(d) = {t}
          ELSE Refs(d) = {} /\ Hands(d) = {}
=============================================================================
