-------------------- MODULE ThreadEnvironmentBlockProofs --------------------
(* Theorems about ThreadEnvironmentBlock, for every number of ids, threads, *)
(* processes and FLS blocks and every configuration: types, whose block a   *)
(* thread gets, and that FLS data is never lost, shared or used when freed. *)
EXTENDS ThreadEnvironmentBlock, TLAPS

(* The FLS data of the block under id t.                                    *)
Fls(t) == IF table[t] = NULL THEN NULL ELSE table[t].FlsData

(* What the locals of a call mean: only a running thread is inside one, it  *)
(* has no block yet, and data is in its hands exactly while it is to be     *)
(* processed, when the block it came from is gone.                          *)
CallsOK == \A t \in Tids :
    /\ pc[t] # "Run" => thread[t] # NULL /\ teb[t] = NULL
    /\ flush[t] # NULL <=> pc[t] \in {"Flush", "Wait", "ExitFlush"}
    /\ flush[t] # NULL => table[t] = NULL
    /\ pc[t] = "Insert" /\ table[t] # NULL => table[t].owner = thread[t]

(* A block that was returned is still in the table; blocks know the process *)
(* of the thread that inserted them.                                        *)
BlocksOK == \A t \in Tids :
    /\ teb[t] # NULL =>
         thread[t] # NULL /\ table[t] # NULL /\ table[t].owner = teb[t]
    /\ table[t] # NULL => table[t].ProcessId = table[t].owner.pid
    /\ Quiet /\ table[t] # NULL => table[t].owner = thread[t]
    /\ ~config.notify /\ teb[t] # NULL => teb[t].pid = thread[t].pid

(* FLS data has one holder, a block or a pair of hands.                     *)
Accounts ==
    /\ \A t \in Tids : Fls(t) # NULL => Fls(t) \in live \ lost
    /\ \A t \in Tids : flush[t] # NULL => flush[t] \in live \ lost
    /\ \A t, u \in Tids : t # u /\ Fls(t) # NULL => Fls(t) # Fls(u)
    /\ \A t, u \in Tids : t # u /\ flush[t] # NULL => flush[t] # flush[u]
    /\ \A t, u \in Tids : flush[t] # NULL => flush[t] # Fls(u)
    /\ \A d \in live \ lost : \E t \in Tids : Fls(t) = d \/ flush[t] = d

TebInv == TypeOK /\ CallsOK /\ BlocksOK /\ Accounts

-----------------------------------------------------------------------------
(* A new block is a block of the calling thread.                            *)
LEMMA NewTebFacts ==
    ASSUME NEW t \in Tids, thread[t] \in Threads, NEW d \in Blocks \cup {NULL}
    PROVE  /\ NewTeb(t, d) \in Tebs
           /\ NewTeb(t, d) # NULL
           /\ NewTeb(t, d).owner = thread[t]
           /\ NewTeb(t, d).ProcessId = thread[t].pid
           /\ NewTeb(t, d).FlsData = d
<1>1. NewTeb(t, d) \in Tebs
  BY DEF NewTeb, Tebs, Threads
<1> QED BY <1>1, TebAssumption DEF NewTeb

(* Nothing is running, and nothing is allocated, at the beginning.          *)
LEMMA TebInit == Init => TebInv
<1> SUFFICES ASSUME Init PROVE TebInv
  OBVIOUS
<1>1. TypeOK
  BY TebAssumption DEF Init, TypeOK, Irqls
<1>2. CallsOK /\ BlocksOK /\ Accounts
  BY DEF Init, CallsOK, BlocksOK, Accounts, Fls
<1> QED BY <1>1, <1>2 DEF TebInv

-----------------------------------------------------------------------------
(* Accounts when no holder changes.                                         *)
LEMMA SameHolders ==
    ASSUME Accounts, \A u \in Tids : Fls(u)' = Fls(u), UNCHANGED <<flush, live, lost>>
    PROVE  Accounts'
BY DEF Accounts

(* Deleting a block hands its FLS data to the thread.                       *)
LEMMA Handover ==
    ASSUME TypeOK, Accounts, NEW t \in Tids, flush[t] = NULL, DeleteTeb(t),
           UNCHANGED <<live, lost>>
    PROVE  Accounts'
<1>1. \A u \in Tids : /\ Fls(u)' = IF u = t THEN NULL ELSE Fls(u)
                      /\ flush'[u] = IF u = t THEN Fls(t) ELSE flush[u]
  BY DEF TypeOK, DeleteTeb, Fls
<1> QED BY <1>1 DEF Accounts

(* Processed data is freed, and a callback may have stored into a new block *)
(* under the same id.                                                       *)
LEMMA Processed ==
    ASSUME TypeOK, Accounts, NEW t \in Tids, flush[t] # NULL, table[t] = NULL,
           thread[t] \in Threads, ProcessFlsData(t), UNCHANGED lost
    PROVE  Accounts'
<1>1. PICK d \in (Blocks \ live) \cup {NULL} :
        /\ live' = (live \cup ({d} \ {NULL})) \ {flush[t]}
        /\ \A u \in Tids : /\ Fls(u)' = IF u = t THEN d ELSE Fls(u)
                           /\ flush'[u] = IF u = t THEN NULL ELSE flush[u]
  <2>1. CASE live' = live \ {flush[t]} /\ UNCHANGED table
    BY <2>1 DEF TypeOK, ProcessFlsData, Fls
  <2>2. CASE \E d \in (Blocks \ live) \cup {NULL} :
               /\ table' = [table EXCEPT ![t] = NewTeb(t, d)]
               /\ live' = (live \cup ({d} \ {NULL})) \ {flush[t]}
    <3>1. PICK d \in (Blocks \ live) \cup {NULL} :
               /\ table' = [table EXCEPT ![t] = NewTeb(t, d)]
               /\ live' = (live \cup ({d} \ {NULL})) \ {flush[t]}
      BY <2>2
    <3>2. NewTeb(t, d) # NULL /\ NewTeb(t, d).FlsData = d
      BY NewTebFacts
    <3>3. \A u \in Tids : Fls(u)' = IF u = t THEN d ELSE Fls(u)
      BY <3>1, <3>2 DEF TypeOK, Fls
    <3> QED BY <3>1, <3>3 DEF TypeOK, ProcessFlsData
  <2> QED BY <2>1, <2>2 DEF ProcessFlsData
<1>2. Fls(t) = NULL
  BY DEF Fls
<1>3. lost \subseteq live /\ live \subseteq Blocks /\ flush[t] \in live \ lost
  BY DEF TypeOK, Accounts
<1> QED BY <1>1, <1>2, <1>3, TebAssumption DEF Accounts

-----------------------------------------------------------------------------
(* Every step keeps the invariant.                                          *)
LEMMA TebStep == TebInv /\ [Next]_vars => TebInv'
<1> SUFFICES ASSUME TebInv, [Next]_vars PROVE TebInv'
  OBVIOUS
<1>0. TypeOK /\ CallsOK /\ BlocksOK /\ Accounts
  BY DEF TebInv
<1>a. \A t \in Tids : thread[t] # NULL => thread[t] \in Threads /\ thread[t].pid \in Pids
  BY <1>0 DEF TypeOK, Threads
<1> USE TebAssumption
<1>1. ASSUME NEW t \in Tids, NEW p \in Pids, CreateThread(t, p) PROVE TebInv'
  <2>1. TypeOK'
    BY <1>0, <1>1 DEF TypeOK, CreateThread, Threads
  <2>2. CallsOK'
    BY <1>0, <1>1 DEF TypeOK, CallsOK, CreateThread
  <2>3. table[t] # NULL => table[t].owner \in Threads
    BY <1>0 DEF TypeOK, Tebs
  <2>4. BlocksOK'
    BY <1>0, <1>1, <2>3 DEF TypeOK, BlocksOK, CreateThread, Quiet, Registered
  <2>5. Accounts'
    BY <1>0, <1>1, SameHolders DEF CreateThread, Fls
  <2> QED BY <2>1, <2>2, <2>4, <2>5 DEF TebInv
<1>2. ASSUME NEW t \in Tids, NEW q \in Irqls, RtlGetCurrentTeb(t, q) PROVE TebInv'
  <2>1. TypeOK'
    <3>1. table[t] # NULL => table[t].owner \in Threads
      BY <1>0 DEF TypeOK, Tebs
    <3> QED BY <1>0, <1>2, <3>1 DEF TypeOK, RtlGetCurrentTeb, Goto
  <2>2. teb[t] # NULL => table[t] # NULL /\ ~Expired(t)
    BY <1>0 DEF BlocksOK, Expired
  <2>3. CallsOK'
    BY <1>0, <1>2, <2>2 DEF TypeOK, CallsOK, RtlGetCurrentTeb, Goto
  <2>4. BlocksOK'
    BY <1>0, <1>2 DEF TypeOK, BlocksOK, RtlGetCurrentTeb, Expired, Goto, Quiet, Registered
  <2>5. Accounts'
    BY <1>0, <1>2, SameHolders DEF RtlGetCurrentTeb, Fls
  <2> QED BY <2>1, <2>3, <2>4, <2>5 DEF TebInv
<1>3. ASSUME NEW t \in Tids, NotifyExpired(t) PROVE TebInv'
  <2>1. flush[t] = NULL /\ teb[t] = NULL /\ thread[t] # NULL /\ table'[t] = NULL
    BY <1>0, <1>3 DEF TypeOK, CallsOK, NotifyExpired, DeleteTeb
  <2>2. table[t] # NULL => table[t].FlsData \in Blocks \cup {NULL}
    BY <1>0 DEF TypeOK, Tebs
  <2>3. TypeOK'
    BY <1>0, <1>3, <2>2 DEF TypeOK, NotifyExpired, DeleteTeb, Goto
  <2>4. CallsOK'
    BY <1>0, <1>3, <2>1 DEF TypeOK, CallsOK, NotifyExpired, DeleteTeb, Goto
  <2>5. BlocksOK'
    BY <1>0, <1>3, <2>1 DEF TypeOK, BlocksOK, NotifyExpired, DeleteTeb, Quiet, Registered
  <2>6. Accounts'
    BY <1>0, <1>3, <2>1, Handover DEF NotifyExpired
  <2> QED BY <2>3, <2>4, <2>5, <2>6 DEF TebInv
<1>4. ASSUME NEW t \in Tids, FlushExpired(t) PROVE TebInv'
  <2>1. flush[t] # NULL /\ teb[t] = NULL /\ thread[t] \in Threads /\ table[t] = NULL
    BY <1>0, <1>4, <1>a DEF CallsOK, FlushExpired
  <2>2. \/ UNCHANGED table
        \/ \E d \in Blocks \cup {NULL} : table' = [table EXCEPT ![t] = NewTeb(t, d)]
    BY <1>4 DEF FlushExpired, ProcessFlsData
  <2>3. table' \in [Tids -> Tebs \cup {NULL}]
    BY <1>0, <2>1, <2>2, NewTebFacts DEF TypeOK
  <2>4. flush[t] \notin lost /\ live' \subseteq Blocks /\ lost \subseteq live'
    BY <1>0, <1>4, <2>1 DEF TypeOK, Accounts, FlushExpired, ProcessFlsData
  <2>5. TypeOK'
    BY <1>0, <1>4, <2>3, <2>4 DEF TypeOK, FlushExpired, ProcessFlsData, Goto
  <2>6. table'[t] # NULL => /\ table'[t].owner = thread[t]
                            /\ table'[t].ProcessId = thread[t].pid
    BY <1>0, <2>1, <2>2, NewTebFacts DEF TypeOK
  <2>7. CallsOK'
    BY <1>0, <1>4, <2>1, <2>2, <2>6 DEF TypeOK, CallsOK, FlushExpired, ProcessFlsData, Goto
  <2>8. BlocksOK'
    BY <1>0, <1>4, <2>1, <2>2, <2>6 DEF TypeOK, BlocksOK, FlushExpired, Quiet, Registered
  <2>9. Accounts'
    BY <1>0, <1>4, <2>1, Processed DEF FlushExpired
  <2> QED BY <2>5, <2>7, <2>8, <2>9 DEF TebInv
<1>5. ASSUME NEW t \in Tids, WaitForTask(t) PROVE TebInv'
  <2>1. flush[t] # NULL /\ table[t] = NULL /\ flush[t] \in live \ lost
    BY <1>0, <1>5 DEF CallsOK, WaitForTask, Accounts
  <2>2. TypeOK'
    BY <1>0, <1>5, <2>1 DEF TypeOK, WaitForTask, Goto
  <2>3. CallsOK'
    BY <1>0, <1>5, <2>1 DEF TypeOK, CallsOK, WaitForTask, Goto
  <2>4. BlocksOK'
    BY <1>0, <1>5 DEF BlocksOK, WaitForTask, Quiet, Registered
  <2>5. /\ \A u \in Tids : /\ Fls(u)' = Fls(u)
                           /\ flush'[u] = IF u = t THEN NULL ELSE flush[u]
        /\ live' \ lost' = (live \ lost) \ {flush[t]}
    BY <1>0, <1>5 DEF TypeOK, WaitForTask, Fls
  <2>6. Accounts'
    BY <1>0, <2>1, <2>5 DEF Accounts
  <2> QED BY <2>2, <2>3, <2>4, <2>6 DEF TebInv
<1>6. ASSUME NEW t \in Tids, InsertTeb(t) PROVE TebInv'
  <2>1. teb[t] = NULL /\ thread[t] \in Threads /\ flush[t] = NULL
    BY <1>0, <1>6, <1>a DEF CallsOK, InsertTeb
  <2>2. CASE table[t] = NULL /\ table' = [table EXCEPT ![t] = NewTeb(t, NULL)]
                            /\ teb' = [teb EXCEPT ![t] = thread[t]]
    <3>1. /\ NewTeb(t, NULL) \in Tebs /\ NewTeb(t, NULL) # NULL
          /\ NewTeb(t, NULL).owner = thread[t]
          /\ NewTeb(t, NULL).ProcessId = thread[t].pid
          /\ NewTeb(t, NULL).FlsData = NULL
      BY <2>1, NewTebFacts
    <3>2. TypeOK'
      BY <1>0, <1>6, <2>1, <2>2, <3>1 DEF TypeOK, InsertTeb, Goto, Irqls
    <3>3. CallsOK'
      BY <1>0, <1>6, <2>1, <2>2, <3>1 DEF TypeOK, CallsOK, InsertTeb, Goto
    <3>4. BlocksOK'
      BY <1>0, <1>6, <2>1, <2>2, <3>1 DEF TypeOK, BlocksOK, InsertTeb, Quiet, Registered
    <3>5. Accounts'
      BY <1>0, <1>6, <2>2, <3>1, SameHolders DEF TypeOK, InsertTeb, Fls
    <3> QED BY <3>2, <3>3, <3>4, <3>5 DEF TebInv
  <2>3. CASE UNCHANGED <<table, teb>>
    <3>1. TypeOK'
      BY <1>0, <1>6, <2>3 DEF TypeOK, InsertTeb, Goto, Irqls
    <3>2. CallsOK'
      BY <1>0, <1>6, <2>1, <2>3 DEF TypeOK, CallsOK, InsertTeb, Goto
    <3>3. BlocksOK'
      BY <1>0, <1>6, <2>3 DEF BlocksOK, InsertTeb, Quiet, Registered
    <3>4. Accounts'
      BY <1>0, <1>6, <2>3, SameHolders DEF InsertTeb, Fls
    <3> QED BY <3>1, <3>2, <3>3, <3>4 DEF TebInv
  <2>4. CASE table[t] # NULL /\ teb' = [teb EXCEPT ![t] = table[t].owner]
                            /\ UNCHANGED table
    <3>1. table[t].owner = thread[t]
      BY <1>0, <1>6, <2>4 DEF CallsOK, InsertTeb
    <3>2. TypeOK'
      BY <1>0, <1>6, <2>1, <2>4, <3>1 DEF TypeOK, InsertTeb, Goto, Irqls
    <3>3. CallsOK'
      BY <1>0, <1>6, <2>1, <2>4 DEF TypeOK, CallsOK, InsertTeb, Goto
    <3>4. BlocksOK'
      BY <1>0, <1>6, <2>1, <2>4, <3>1 DEF TypeOK, BlocksOK, InsertTeb, Quiet, Registered
    <3>5. Accounts'
      BY <1>0, <1>6, <2>4, SameHolders DEF InsertTeb, Fls
    <3> QED BY <3>2, <3>3, <3>4, <3>5 DEF TebInv
  <2> QED BY <1>6, <2>2, <2>3, <2>4 DEF InsertTeb
<1>7. ASSUME NEW t \in Tids, AttachFlsData(t) PROVE TebInv'
  <2>1. table[t] \in Tebs /\ table[t] # NULL
    BY <1>0, <1>7 DEF TypeOK, BlocksOK, AttachFlsData
  <2>2. PICK d \in Blocks \ live : /\ live' = live \cup {d}
                                   /\ table' = [table EXCEPT ![t].FlsData = d]
    BY <1>7 DEF AttachFlsData
  <2>3. /\ table'[t] \in Tebs /\ table'[t] # NULL
        /\ table'[t].owner = table[t].owner
        /\ table'[t].ProcessId = table[t].ProcessId
        /\ table'[t].FlsData = d
    BY <1>0, <2>1, <2>2 DEF TypeOK, Tebs
  <2>4. TypeOK'
    BY <1>0, <1>7, <2>2, <2>3 DEF TypeOK, AttachFlsData
  <2>5. flush[t] = NULL
    BY <1>0, <1>7 DEF CallsOK, AttachFlsData
  <2>6. CallsOK'
    BY <1>0, <1>7, <2>2, <2>3, <2>5 DEF TypeOK, CallsOK, AttachFlsData
  <2>7. BlocksOK'
    BY <1>0, <1>7, <2>1, <2>2, <2>3 DEF TypeOK, BlocksOK, AttachFlsData, Quiet, Registered
  <2>8. /\ \A u \in Tids : Fls(u)' = IF u = t THEN d ELSE Fls(u)
        /\ Fls(t) = NULL
    BY <1>0, <1>7, <2>1, <2>2, <2>3 DEF TypeOK, AttachFlsData, Fls
  <2>9. Accounts'
    BY <1>0, <1>7, <2>2, <2>8 DEF TypeOK, Accounts, AttachFlsData
  <2> QED BY <2>4, <2>6, <2>7, <2>9 DEF TebInv
<1>8. ASSUME NEW t \in Tids, ExitThread(t) PROVE TebInv'
  <2>1. flush[t] = NULL
    BY <1>0, <1>8 DEF CallsOK, ExitThread
  <2>2. table[t] # NULL => table[t].FlsData \in Blocks \cup {NULL}
    BY <1>0 DEF TypeOK, Tebs
  <2>3. TypeOK'
    BY <1>0, <1>8, <2>2 DEF TypeOK, ExitThread, DeleteTeb, Goto
  <2>4. CallsOK'
    BY <1>0, <1>8, <2>1 DEF TypeOK, CallsOK, ExitThread, DeleteTeb, Goto
  <2>5. BlocksOK'
    BY <1>0, <1>8 DEF TypeOK, BlocksOK, ExitThread, DeleteTeb, Quiet, Registered
  <2>6. Accounts'
    <3>1. CASE Registered
      BY <1>0, <1>8, <2>1, <3>1, Handover DEF ExitThread
    <3>2. CASE ~Registered
      BY <1>0, <1>8, <3>2, SameHolders DEF ExitThread, Fls
    <3> QED BY <3>1, <3>2
  <2> QED BY <2>3, <2>4, <2>5, <2>6 DEF TebInv
<1>9. ASSUME NEW t \in Tids, FlushExited(t) PROVE TebInv'
  <2>1. flush[t] # NULL /\ teb[t] = NULL /\ thread[t] \in Threads /\ table[t] = NULL
    BY <1>0, <1>9, <1>a DEF CallsOK, FlushExited
  <2>2. \/ UNCHANGED table
        \/ /\ config.callbacks
           /\ \E d \in Blocks \cup {NULL} : table' = [table EXCEPT ![t] = NewTeb(t, d)]
    BY <1>9 DEF FlushExited, ProcessFlsData
  <2>3. table' \in [Tids -> Tebs \cup {NULL}]
    BY <1>0, <2>1, <2>2, NewTebFacts DEF TypeOK
  <2>4. flush[t] \notin lost /\ live' \subseteq Blocks /\ lost \subseteq live'
    BY <1>0, <1>9, <2>1 DEF TypeOK, Accounts, FlushExited, ProcessFlsData
  <2>5. TypeOK'
    BY <1>0, <1>9, <2>3, <2>4 DEF TypeOK, FlushExited, ProcessFlsData, Goto
  <2>6. table'[t] # NULL => /\ table'[t].ProcessId = table'[t].owner.pid
                            /\ config.callbacks
    BY <1>0, <2>1, <2>2, NewTebFacts DEF TypeOK
  <2>7. CallsOK'
    BY <1>0, <1>9, <2>1, <2>2 DEF TypeOK, CallsOK, FlushExited, ProcessFlsData, Goto
  <2>8. BlocksOK'
    BY <1>0, <1>9, <2>1, <2>2, <2>6 DEF TypeOK, BlocksOK, FlushExited, Quiet, Registered
  <2>9. Accounts'
    BY <1>0, <1>9, <2>1, Processed DEF FlushExited
  <2> QED BY <2>5, <2>7, <2>8, <2>9 DEF TebInv
<1>10. CASE UNCHANGED vars
  <2>1. TypeOK' /\ CallsOK' /\ BlocksOK'
    BY <1>0, <1>10 DEF vars, TypeOK, CallsOK, BlocksOK, Quiet, Registered
  <2>2. Accounts'
    BY <1>0, <1>10, SameHolders DEF vars, Fls
  <2> QED BY <2>1, <2>2 DEF TebInv
<1> QED BY <1>1, <1>2, <1>3, <1>4, <1>5, <1>6, <1>7, <1>8, <1>9, <1>10 DEF Next

(* The invariant in every reachable state.                                  *)
LEMMA TebInvariant == Spec => []TebInv
BY TebInit, TebStep, PTL DEF Spec

-----------------------------------------------------------------------------
(* Types; among them, that data a failed work item drops is still allocated. *)
THEOREM TebTypeCorrect == Spec => []TypeOK
<1>1. TebInv => TypeOK
  BY DEF TebInv
<1> QED BY <1>1, TebInvariant, PTL

(* With exit notifications registered and FLS callbacks that leave the      *)
(* library alone, RtlGetCurrentTeb returns the caller's own block, however  *)
(* ids are recycled ...                                                     *)
THEOREM OwnTebHolds == Spec => []OwnTebWhenQuiet
<1>1. TebInv => OwnTebWhenQuiet
  BY DEF TebInv, BlocksOK, OwnTebWhenQuiet, OwnTeb
<1> QED BY <1>1, TebInvariant, PTL

(* ... and no block outlives its thread.                                    *)
THEOREM NoOrphanHolds == Spec => []NoOrphanTeb
<1>1. TebInv => NoOrphanTeb
  BY DEF TebInv, BlocksOK, NoOrphanTeb
<1> QED BY <1>1, TebInvariant, PTL

(* Without notifications, when blocks of finished threads stay, the expiry  *)
(* test of RtlGetCurrentTeb keeps blocks of other processes from a thread.  *)
THEOREM SameProcessHolds == Spec => []SameProcessTeb
<1>1. TebInv => SameProcessTeb
  BY DEF TebInv, BlocksOK, SameProcessTeb
<1> QED BY <1>1, TebInvariant, PTL

(* In every configuration FLS data has exactly one holder while allocated,  *)
(* unless a work item failed, and none after it was freed.                  *)
THEOREM FlsDataHasOneHolder == Spec => []FlsDataAccounted
<1>1. TebInv => FlsDataAccounted
  <2> SUFFICES ASSUME TebInv PROVE FlsDataAccounted
    OBVIOUS
  <2>1. Accounts /\ \A d \in Blocks : d # NULL
    BY TebAssumption DEF TebInv
  <2>2. ASSUME NEW d \in live \ lost, d \in Blocks
        PROVE  \/ /\ \A t \in Tids : flush[t] # d
                  /\ \E t \in Tids : \A u \in Tids : Fls(u) = d <=> u = t
               \/ /\ \A t \in Tids : Fls(t) # d
                  /\ \E t \in Tids : \A u \in Tids : flush[u] = d <=> u = t
    BY <2>1, <2>2 DEF Accounts
  <2>3. ASSUME NEW d \in Blocks, d \notin live \ lost
        PROVE  \A t \in Tids : Fls(t) # d /\ flush[t] # d
    BY <2>1, <2>3 DEF Accounts
  <2>4. \A d \in Blocks, t \in Tids :
          Fls(t) = d <=> table[t] # NULL /\ table[t].FlsData = d
    BY <2>1 DEF Fls
  <2>5. ASSUME NEW d \in Blocks
        PROVE  LET Refs == {t \in Tids : table[t] # NULL /\ table[t].FlsData = d}
                   Hands == {t \in Tids : flush[t] = d}
               IN  IF d \in live \ lost
                   THEN \/ Hands = {} /\ \E t \in Tids : Refs = {t}
                        \/ Refs = {} /\ \E t \in Tids : Hands = {t}
                   ELSE Refs = {} /\ Hands = {}
    <3> DEFINE Refs  == {t \in Tids : Fls(t) = d}
               Hands == {t \in Tids : flush[t] = d}
    <3>1. Refs = {t \in Tids : table[t] # NULL /\ table[t].FlsData = d}
      BY <2>4
    <3>2. CASE d \in live \ lost
      <4>1. CASE /\ \A t \in Tids : flush[t] # d
                 /\ \E t \in Tids : \A u \in Tids : Fls(u) = d <=> u = t
        BY <3>1, <3>2, <4>1
      <4>2. CASE /\ \A t \in Tids : Fls(t) # d
                 /\ \E t \in Tids : \A u \in Tids : flush[u] = d <=> u = t
        BY <3>1, <3>2, <4>2
      <4> QED BY <2>2, <3>2, <4>1, <4>2
    <3>3. CASE d \notin live \ lost
      BY <2>3, <3>1, <3>3
    <3> QED BY <3>2, <3>3
  <2> QED BY <2>5 DEF FlsDataAccounted
<1> QED BY <1>1, TebInvariant, PTL
=============================================================================
