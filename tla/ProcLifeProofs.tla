--------------------------- MODULE ProcLifeProofs ---------------------------
(*****************************************************************************)
(* Proofs about ProcLife: its inductive invariant, that every step keeps     *)
(* each part of it, and the theorems: the process table, the wait/exit       *)
(* hand-over and the owed pids are correct for any number of structures, any *)
(* MAX_PROC above 1 and any exit codes.                                      *)
(*****************************************************************************)
EXTENDS ProcLife, TLAPS

\* Zenon proves the leaves that need no arithmetic; the others name their prover.
USE ZenonT(30)

-----------------------------------------------------------------------------
(* The invariant; the table and the holders of structures *)

Holding == Waiting \cup Making
Reaping == {"reap_unregister", "reap_free"}

\* The table and the structures agree.
TableInv ==
    /\ \A i \in Pids : table[i] # NULL => table[i] \in live /\ p_pid[table[i]] = i
    /\ \A a \in live : p_pid[a] \in Pids
    /\ \A a \in live : \/ table[p_pid[a]] = a
                       \/ \E t \in Addr : pc[t] \in Freeing /\ arg[t] = a
    /\ \A t \in Addr : pc[t] \in Freeing => table[p_pid[arg[t]]] # arg[t]

\* A thread that makes, awaits or destroys a structure is the only one to do so.
HoldInv ==
    /\ KProc \in live
    /\ \A t \in Addr : pc[t] \in Holding => arg[t] \in live \ {t, KProc}
    /\ \A t, u \in Addr :
        (pc[t] \in Holding /\ pc[u] \in Holding /\ arg[t] = arg[u]) => t = u

\* p_parent decides who may hold a structure.
ParentInv ==
    /\ p_parent[KProc] = NULL
    /\ \A a \in Addr \ live : p_parent[a] = Garbage
    /\ \A t \in Addr : pc[t] \in Waiting =>
        /\ p_parent[arg[t]] = IF t = KProc THEN NULL ELSE t
        /\ p_pid[arg[t]] = want[t]
    /\ \A t \in Addr : pc[t] \in Making => p_parent[arg[t]] \in {Garbage, NULL, t}
    /\ \A t \in Addr : pc[t] = "made" => p_parent[arg[t]] = NULL
    /\ \A t \in Addr : pc[t] = "linked" => p_parent[arg[t]] = t
    /\ \A t \in Addr : pc[t] = "wait_check" =>
        /\ arg[t] \in Addr
        /\ p_parent[arg[t]] = t => p_pid[arg[t]] = want[t]
    /\ pc[KProc] \notin {"wait_check", "linked"}

\* What is known of a process from where its thread is.
ThreadInv ==
    /\ \A a \in Addr : pc[a] # "none" => a \in live
    /\ \A a \in Addr : pc[a] # "none" =>
        p_numthreads[a] = IF pc[a] \in {"exit_flag", "exit_V"} THEN 0 ELSE 1
    /\ \A a \in Addr : p_exited[a] => pc[a] \in {"exit_V",
       "none"} /\ p_numthreads[a] = 0
    /\ \A a \in Addr : pc[a] = "exit_V" => p_exited[a]
    /\ \A a \in Addr : p_sem[a] > 0 => p_exited[a] /\ pc[a] = "none"
    /\ \A a \in Addr \ live : p_numthreads[a] = 0 /\ ~p_exited[a] /\ p_sem[a] = 0
    /\ \A t \in Addr : pc[t] \in Making =>
        /\ pc[arg[t]] = "none"
        /\ p_numthreads[arg[t]] = 0 /\ ~p_exited[arg[t]] /\ p_sem[arg[t]] = 0
    /\ \A t \in Addr : pc[t] \in Reaping => p_exited[arg[t]] /\ pc[arg[t]] = "none"

StatusInv ==
    /\ \A a \in Addr : p_status[a] = exit_arg[a] % 256
    /\ \A a \in Addr \ live : exit_arg[a] = 0
    /\ \A t \in Addr : pc[t] \in Making => exit_arg[arg[t]] = 0

OwedInv ==
    /\ \A t \in Addr \ live : owed[t] = {}
    /\ \A t \in Addr : \A pid \in owed[t] :
        /\ table[pid] # NULL
        /\ p_parent[table[pid]] = IF t = KProc THEN NULL ELSE t
    /\ \A t,
       u \in Addr : pc[t] \in Making \ {"undo_free"} => p_pid[arg[t]] \notin owed[u]

IInv == TypeOK /\ TableInv /\ HoldInv /\ ParentInv /\ ThreadInv /\ StatusInv /\ OwedInv

-----------------------------------------------------------------------------
(***************************************************************************)
(* Types.                                                                  *)
(***************************************************************************)

\* The results of system calls are well typed.
LEMMA ResultTypes ==
    /\ NoResult \in Results
    /\ Failed \in Results
    /\ \A call \in Calls, val \in Int, status \in Int : Result(call, val,
       status) \in Results
BY SMT DEF NoResult, Failed, Result, Results, Calls

\* The structure that a thread makes, awaits or destroys is another process.
LEMMA HeldStructure ==
    ASSUME TypeOK, HoldInv, NEW t \in Addr,
           pc[t] \in {"init", "made", "linked", "undo_unregister", "undo_free",
                      "wait_P", "reap_unregister", "reap_free"}
    PROVE  /\ arg[t] \in live
           /\ arg[t] \in Addr
           /\ arg[t] # t
           /\ arg[t] # KProc
BY DEF TypeOK, HoldInv, Holding, Waiting, Making

\* Every step leaves a result for every process.
LEMMA RetTypeStep == IInv /\ [Next]_vars => (ret \in [Addr -> Results])'
<1> SUFFICES ASSUME IInv, [Next]_vars PROVE (ret \in [Addr -> Results])'
    OBVIOUS
<1> USE KProcAssumption, NullAssumption, ResultTypes DEF IInv, At, Goto, Return,
   table_vars, field_vars, local_vars, history_vars, TypeOK, Slots
<1>1. ASSUME NEW t \in Addr, KernelStep(t) \/ Request(t)
      PROVE  (ret \in [Addr -> Results])'
  <2>1. CASE Resume(t)
    BY <2>1 DEF Resume
  <2>2. CASE CreateInit(t)
    BY <2>2 DEF CreateInit
  <2>3. CASE ForkFail(t)
    BY <2>3 DEF ForkFail
  <2>4. CASE ForkLink(t)
    BY <2>4 DEF ForkLink
  <2>5. CASE ForkThread(t)
    <3>1. p_pid[arg[t]] \in Int
      BY <2>5, HeldStructure, SMT DEF ForkThread
    <3> QED
      BY <2>5, <3>1, SMT DEF ForkThread, Calls
  <2>6. CASE ForkThreadFail(t)
    BY <2>6 DEF ForkThreadFail
  <2>7. CASE MenuThread
    BY <2>7 DEF MenuThread
  <2>8. CASE MenuThreadFail
    BY <2>8 DEF MenuThreadFail
  <2>9. CASE StartProgram(t)
    BY <2>9 DEF StartProgram
  <2>10. CASE StartFail(t)
    BY <2>10 DEF StartFail
  <2>11. CASE ExitRemthread(t)
    BY <2>11 DEF ExitRemthread
  <2>12. CASE ExitFlag(t)
    BY <2>12 DEF ExitFlag
  <2>13. CASE ExitV(t)
    BY <2>13 DEF ExitV
  <2>14. CASE WaitRefused(t)
    BY <2>14 DEF WaitRefused
  <2>15. CASE WaitNohang(t)
    BY <2>15, SMT DEF WaitNohang, Calls
  <2>16. CASE WaitAllowed(t)
    BY <2>16 DEF WaitAllowed
  <2>17. CASE WaitP(t)
    <3>1. arg[t] \in Addr
      BY <2>17, HeldStructure DEF WaitP
    <3>2. p_status[arg[t]] \in 0..255
      BY <3>1
    <3>3. MKWAIT_EXIT(p_status[arg[t]]) \in Int
      BY <3>2, SMT DEF MKWAIT_EXIT
    <3> QED
      BY <2>17, <3>1, <3>3, SMT DEF WaitP, Calls
  <2>18. CASE ReapUnregister(t)
    BY <2>18 DEF ReapUnregister, Unregister
  <2>19. CASE ReapFree(t)
    BY <2>19 DEF ReapFree, Free
  <2>20. CASE WaitReturn(t)
    BY <2>20, SMT DEF WaitReturn
  <2>21. CASE UndoUnregister(t)
    BY <2>21 DEF UndoUnregister, Unregister
  <2>22. CASE UndoFree(t)
    BY <2>22 DEF UndoFree, Free
  <2>23. CASE ForkTooManyProcesses(t)
    BY <2>23 DEF ForkTooManyProcesses
  <2>24. CASE CreateNoMemory(t)
    BY <2>24 DEF CreateNoMemory
  <2>25. ASSUME NEW c \in Addr, CreateRegister(t, c)
         PROVE (ret \in [Addr -> Results])'
    BY <2>25 DEF CreateRegister
  <2>26. ASSUME NEW c \in Addr, CreatePanic(t, c)
         PROVE (ret \in [Addr -> Results])'
    BY <2>26 DEF CreatePanic
  <2>27. ASSUME NEW code \in Code, Exit(t, code)
         PROVE (ret \in [Addr -> Results])'
    BY <2>27 DEF Exit
  <2>28. CASE WaitBadArgument(t)
    BY <2>28 DEF WaitBadArgument
  <2>29. ASSUME NEW pid \in 0..(MaxProc + 1), WaitNoSuchProcess(t, pid)
         PROVE (ret \in [Addr -> Results])'
    BY <2>29 DEF WaitNoSuchProcess
  <2>30. ASSUME NEW pid \in 0..(MaxProc + 1), WaitSearch(t, pid)
         PROVE (ret \in [Addr -> Results])'
    BY <2>30 DEF WaitSearch
  <2> QED
    BY <1>1, <2>1, <2>2, <2>3, <2>4, <2>5, <2>6, <2>7, <2>8, <2>9, <2>10, <2>11,
       <2>12, <2>13, <2>14, <2>15, <2>16, <2>17, <2>18, <2>19, <2>20, <2>21, <2>22,
       <2>23, <2>24, <2>25, <2>26, <2>27, <2>28, <2>29, <2>30 DEF KernelStep, Request
<1>2. CASE UNCHANGED vars
  BY <1>2 DEF vars
<1> QED
  BY <1>1, <1>2 DEF Next

\* TypeOK in two more parts: the table and the control state ...
ControlTypes ==
    /\ table \in [Pids -> Slots]
    /\ last_i \in Pids
    /\ live \subseteq Addr
    /\ p_pid \in [Addr -> 0..MaxProc]
    /\ pc \in [Addr -> Labels]
    /\ arg \in [Addr -> Slots]
    /\ want \in [Addr -> Int]
    /\ panicked \in BOOLEAN
    /\ owed \in [Addr -> SUBSET Pids]

\* ... and the fields of the structures.
FieldTypes ==
    /\ p_parent \in [Addr -> Addr \cup {NULL, Garbage}]
    /\ p_children \in [Addr -> SUBSET Addr]
    /\ p_status \in [Addr -> 0..255]
    /\ p_exited \in [Addr -> BOOLEAN]
    /\ p_sem \in [Addr -> Nat]
    /\ p_numthreads \in [Addr -> Int]
    /\ exit_arg \in [Addr -> Int]

\* Every step keeps the types of the control state.
LEMMA ControlTypeStep == IInv /\ [Next]_vars => ControlTypes'
<1> SUFFICES ASSUME IInv, [Next]_vars PROVE ControlTypes'
    OBVIOUS
<1> USE KProcAssumption, NullAssumption, MaxProcAssumption DEF IInv, At, Goto,
   Return, table_vars, field_vars, local_vars, history_vars, TypeOK, ControlTypes,
   Labels, Slots, Pids
<1>1. ASSUME NEW t \in Addr, KernelStep(t) \/ Request(t)
      PROVE  ControlTypes'
  <2>1. CASE Resume(t)
    BY <2>1, SMT DEF Resume
  <2>2. CASE CreateInit(t)
    <3>1. arg[t] \in Addr
      BY <2>2, HeldStructure DEF CreateInit
    <3> QED
      BY <2>2, <3>1 DEF CreateInit
  <2>3. CASE ForkFail(t)
    BY <2>3 DEF ForkFail
  <2>4. CASE ForkLink(t)
    <3>1. arg[t] \in Addr
      BY <2>4, HeldStructure DEF ForkLink
    <3> QED
      BY <2>4, <3>1 DEF ForkLink
  <2>5. CASE ForkThread(t)
    <3>1. arg[t] \in Addr /\ arg[t] # t /\ p_pid[arg[t]] \in Pids
      BY <2>5, HeldStructure DEF ForkThread, TableInv
    <3>2. pc' \in [Addr -> Labels] /\ owed' \in [Addr -> SUBSET Pids]
      BY <2>5, <3>1 DEF ForkThread
    <3> QED
      BY <2>5, <3>2 DEF ForkThread
  <2>6. CASE ForkThreadFail(t)
    BY <2>6 DEF ForkThreadFail
  <2>7. CASE MenuThread
    <3>1. arg[KProc] \in Addr /\ arg[KProc] # KProc /\ p_pid[arg[KProc]] \in Pids
      BY <2>7, HeldStructure DEF MenuThread, TableInv
    <3>2. pc' \in [Addr -> Labels] /\ owed' \in [Addr -> SUBSET Pids]
      BY <2>7, <3>1 DEF MenuThread
    <3>3. p_pid[arg[KProc]] \in Int
      BY <3>1, MaxProcAssumption, SMT
    <3>4. want' \in [Addr -> Int]
      BY <2>7, <3>3 DEF MenuThread
    <3> QED
      BY <2>7, <3>2, <3>4 DEF MenuThread
  <2>8. CASE MenuThreadFail
    BY <2>8 DEF MenuThreadFail
  <2>9. CASE StartProgram(t)
    BY <2>9 DEF StartProgram
  <2>10. CASE StartFail(t)
    BY <2>10 DEF StartFail
  <2>11. CASE ExitRemthread(t)
    BY <2>11 DEF ExitRemthread
  <2>12. CASE ExitFlag(t)
    BY <2>12 DEF ExitFlag
  <2>13. CASE ExitV(t)
    BY <2>13 DEF ExitV
  <2>14. CASE WaitRefused(t)
    BY <2>14 DEF WaitRefused
  <2>15. CASE WaitNohang(t)
    BY <2>15 DEF WaitNohang
  <2>16. CASE WaitAllowed(t)
    BY <2>16 DEF WaitAllowed
  <2>17. CASE WaitP(t)
    BY <2>17 DEF WaitP
  <2>18. CASE ReapUnregister(t)
    <3>1. arg[t] \in Addr
      BY <2>18, HeldStructure DEF ReapUnregister
    <3> QED
      BY <2>18, <3>1 DEF ReapUnregister, Unregister
  <2>19. CASE ReapFree(t)
    <3>1. arg[t] \in Addr
      BY <2>19, HeldStructure DEF ReapFree
    <3>2. p_pid' \in [Addr -> 0..MaxProc]
      BY <2>19, <3>1, MaxProcAssumption, SMT DEF ReapFree, Free
    <3>3. owed' \in [Addr -> SUBSET Pids] /\ pc' \in [Addr -> Labels]
      BY <2>19, <3>1 DEF ReapFree, Free
    <3> QED
      BY <2>19, <3>2, <3>3 DEF ReapFree, Free
  <2>20. CASE WaitReturn(t)
    <3>1. pc' = [pc EXCEPT ![t] = "sysret"] /\ UNCHANGED <<table, last_i, live,
       p_pid, arg, want, panicked, owed>>
      BY <2>20 DEF WaitReturn
    <3> QED
      BY <3>1
  <2>21. CASE UndoUnregister(t)
    <3>1. arg[t] \in Addr
      BY <2>21, HeldStructure DEF UndoUnregister
    <3> QED
      BY <2>21, <3>1 DEF UndoUnregister, Unregister
  <2>22. CASE UndoFree(t)
    <3>1. arg[t] \in Addr
      BY <2>22, HeldStructure DEF UndoFree
    <3>2. p_pid' \in [Addr -> 0..MaxProc]
      BY <2>22, <3>1, MaxProcAssumption, SMT DEF UndoFree, Free
    <3>3. owed' \in [Addr -> SUBSET Pids] /\ pc' \in [Addr -> Labels]
      BY <2>22, <3>1 DEF UndoFree, Free
    <3> QED
      BY <2>22, <3>2, <3>3 DEF UndoFree, Free
  <2>23. CASE ForkTooManyProcesses(t)
    BY <2>23 DEF ForkTooManyProcesses
  <2>24. CASE CreateNoMemory(t)
    BY <2>24 DEF CreateNoMemory
  <2>25. ASSUME NEW c \in Addr, CreateRegister(t, c) PROVE ControlTypes'
    <3>1. PICK i \in Pids : /\ table' = [table EXCEPT ![i] = c]
                             /\ last_i' = i
                             /\ p_pid' = [p_pid EXCEPT ![c] = i]
      BY <2>25 DEF CreateRegister
    <3>2. i \in 0..MaxProc
      BY MaxProcAssumption, SMT
    <3>3. table' \in [Pids -> Slots] /\ last_i' \in Pids
      BY <3>1
    <3>4. p_pid' \in [Addr -> 0..MaxProc]
      BY <3>1, <3>2
    <3> QED
      BY <2>25, <3>3, <3>4, SMTT(30) DEF CreateRegister
  <2>26. ASSUME NEW c \in Addr, CreatePanic(t, c) PROVE ControlTypes'
    BY <2>26 DEF CreatePanic
  <2>27. ASSUME NEW code \in Code, Exit(t, code) PROVE ControlTypes'
    BY <2>27 DEF Exit
  <2>28. CASE WaitBadArgument(t)
    BY <2>28 DEF WaitBadArgument
  <2>29. ASSUME NEW pid \in 0..(MaxProc + 1), WaitNoSuchProcess(t, pid)
         PROVE ControlTypes'
    BY <2>29 DEF WaitNoSuchProcess
  <2>30. ASSUME NEW pid \in 0..(MaxProc + 1), WaitSearch(t, pid)
         PROVE ControlTypes'
    <3>1. pid \in Int
      BY MaxProcAssumption, SMT
    <3>2. table[pid] \in Slots
      BY <2>30 DEF WaitSearch
    <3> QED
      BY <2>30, <3>1, <3>2 DEF WaitSearch
  <2> QED
    BY <1>1, <2>1, <2>2, <2>3, <2>4, <2>5, <2>6, <2>7, <2>8, <2>9, <2>10, <2>11,
       <2>12, <2>13, <2>14, <2>15, <2>16, <2>17, <2>18, <2>19, <2>20, <2>21, <2>22,
       <2>23, <2>24, <2>25, <2>26, <2>27, <2>28, <2>29, <2>30 DEF KernelStep, Request
<1>2. CASE UNCHANGED vars
  BY <1>2 DEF vars
<1> QED
  BY <1>1, <1>2 DEF Next

\* Every step keeps the types of the fields.
LEMMA FieldTypeStep == IInv /\ [Next]_vars => FieldTypes'
<1> SUFFICES ASSUME IInv, [Next]_vars PROVE FieldTypes'
    OBVIOUS
<1> USE KProcAssumption, NullAssumption DEF IInv, At, Goto, Return, table_vars,
   field_vars, local_vars, history_vars, TypeOK, FieldTypes
<1>1. ASSUME NEW t \in Addr, KernelStep(t) \/ Request(t)
      PROVE  FieldTypes'
  <2>1. CASE Resume(t)
    BY <2>1 DEF Resume
  <2>2. CASE CreateInit(t)
    <3>1. arg[t] \in Addr
      BY <2>2, HeldStructure DEF CreateInit
    <3> QED
      BY <2>2, <3>1, SMT DEF CreateInit
  <2>3. CASE ForkFail(t)
    BY <2>3 DEF ForkFail
  <2>4. CASE ForkLink(t)
    <3>1. arg[t] \in Addr
      BY <2>4, HeldStructure DEF ForkLink
    <3> QED
      BY <2>4, <3>1, SMT DEF ForkLink
  <2>5. CASE ForkThread(t)
    <3>1. arg[t] \in Addr
      BY <2>5, HeldStructure DEF ForkThread
    <3>2. p_numthreads[arg[t]] + 1 \in Int
      BY <3>1, SMT
    <3> QED
      BY <2>5, <3>1, <3>2 DEF ForkThread
  <2>6. CASE ForkThreadFail(t)
    BY <2>6 DEF ForkThreadFail
  <2>7. CASE MenuThread
    <3>1. arg[KProc] \in Addr
      BY <2>7, HeldStructure DEF MenuThread
    <3>2. p_numthreads[arg[KProc]] + 1 \in Int
      BY <3>1, SMT
    <3> QED
      BY <2>7, <3>1, <3>2 DEF MenuThread
  <2>8. CASE MenuThreadFail
    BY <2>8 DEF MenuThreadFail
  <2>9. CASE StartProgram(t)
    BY <2>9 DEF StartProgram
  <2>10. CASE StartFail(t)
    <3>1. p_numthreads[t] - 1 \in Int
      BY SMT
    <3> QED
      BY <2>10, <3>1 DEF StartFail
  <2>11. CASE ExitRemthread(t)
    <3>1. p_numthreads[t] - 1 \in Int
      BY SMT
    <3> QED
      BY <2>11, <3>1 DEF ExitRemthread
  <2>12. CASE ExitFlag(t)
    BY <2>12 DEF ExitFlag
  <2>13. CASE ExitV(t)
    <3>1. p_sem[t] + 1 \in Nat
      BY SMT
    <3> QED
      BY <2>13, <3>1 DEF ExitV
  <2>14. CASE WaitRefused(t)
    BY <2>14 DEF WaitRefused
  <2>15. CASE WaitNohang(t)
    BY <2>15 DEF WaitNohang
  <2>16. CASE WaitAllowed(t)
    BY <2>16 DEF WaitAllowed
  <2>17. CASE WaitP(t)
    <3>1. arg[t] \in Addr
      BY <2>17, HeldStructure DEF WaitP
    <3>2. p_sem[arg[t]] \in Nat /\ p_sem[arg[t]] > 0
      BY <2>17, <3>1 DEF WaitP
    <3>3. p_sem[arg[t]] - 1 \in Nat
      BY <3>2, SMT
    <3> QED
      BY <2>17, <3>1, <3>3 DEF WaitP
  <2>18. CASE ReapUnregister(t)
    <3>1. arg[t] \in Addr
      BY <2>18, HeldStructure DEF ReapUnregister
    <3> QED
      BY <2>18, <3>1 DEF ReapUnregister, Unregister
  <2>19. CASE ReapFree(t)
    <3>1. arg[t] \in Addr
      BY <2>19, HeldStructure DEF ReapFree
    <3>2. 0 \in 0..255 /\ 0 \in Nat /\ 0 \in Int
      BY SMT
    <3> QED
      BY <2>19, <3>1, <3>2 DEF ReapFree, Free
  <2>20. CASE WaitReturn(t)
    BY <2>20 DEF WaitReturn
  <2>21. CASE UndoUnregister(t)
    <3>1. arg[t] \in Addr
      BY <2>21, HeldStructure DEF UndoUnregister
    <3> QED
      BY <2>21, <3>1 DEF UndoUnregister, Unregister
  <2>22. CASE UndoFree(t)
    <3>1. arg[t] \in Addr
      BY <2>22, HeldStructure DEF UndoFree
    <3>2. 0 \in 0..255 /\ 0 \in Nat /\ 0 \in Int
      BY SMT
    <3> QED
      BY <2>22, <3>1, <3>2 DEF UndoFree, Free
  <2>23. CASE ForkTooManyProcesses(t)
    BY <2>23 DEF ForkTooManyProcesses
  <2>24. CASE CreateNoMemory(t)
    BY <2>24 DEF CreateNoMemory
  <2>25. ASSUME NEW c \in Addr, CreateRegister(t, c) PROVE FieldTypes'
    BY <2>25 DEF CreateRegister
  <2>26. ASSUME NEW c \in Addr, CreatePanic(t, c) PROVE FieldTypes'
    BY <2>26 DEF CreatePanic
  <2>27. ASSUME NEW code \in Code, Exit(t, code) PROVE FieldTypes'
    <3>1. code \in Int /\ code % 256 \in 0..255
      BY CodeAssumption, SMT
    <3> QED
      BY <2>27, <3>1 DEF Exit
  <2>28. CASE WaitBadArgument(t)
    BY <2>28 DEF WaitBadArgument
  <2>29. ASSUME NEW pid \in 0..(MaxProc + 1), WaitNoSuchProcess(t, pid)
         PROVE FieldTypes'
    BY <2>29 DEF WaitNoSuchProcess
  <2>30. ASSUME NEW pid \in 0..(MaxProc + 1), WaitSearch(t, pid)
         PROVE FieldTypes'
    BY <2>30 DEF WaitSearch
  <2> QED
    BY <1>1, <2>1, <2>2, <2>3, <2>4, <2>5, <2>6, <2>7, <2>8, <2>9, <2>10, <2>11,
       <2>12, <2>13, <2>14, <2>15, <2>16, <2>17, <2>18, <2>19, <2>20, <2>21, <2>22,
       <2>23, <2>24, <2>25, <2>26, <2>27, <2>28, <2>29, <2>30 DEF KernelStep, Request
<1>2. CASE UNCHANGED vars
  BY <1>2 DEF vars
<1> QED
  BY <1>1, <1>2 DEF Next

\* TypeOK is inductive together with the rest of IInv.
LEMMA TypeStep == IInv /\ [Next]_vars => TypeOK'
BY RetTypeStep, ControlTypeStep, FieldTypeStep DEF ControlTypes, FieldTypes, TypeOK

-----------------------------------------------------------------------------
(***************************************************************************)
(* The table.                                                              *)
(***************************************************************************)

\* Steps that leave the table, the pids and the destroyers alone.
TableQuiet ==
    /\ UNCHANGED <<table, p_pid, live>>
    /\ \A u \in Addr : pc'[u] \in Freeing <=> pc[u] \in Freeing
    /\ \A u \in Addr : pc[u] \in Freeing => arg'[u] = arg[u]

\* Such steps keep the table and the structures in agreement.
LEMMA TableFrame == TableInv /\ TableQuiet => TableInv'
BY DEF TableInv, TableQuiet

\* All but registration, removal and freeing are such steps.
LEMMA TableQuietSteps ==
    ASSUME TypeOK, HoldInv, ThreadInv, NEW t \in Addr, KernelStep(t) \/ Request(t),
           ~ReapUnregister(t), ~ReapFree(t), ~UndoUnregister(t), ~UndoFree(t),
           \A c \in Addr : ~CreateRegister(t, c)
    PROVE  TableQuiet
<1> USE KProcAssumption DEF TypeOK, TableQuiet, Freeing, At, Goto, Return,
   table_vars, field_vars, local_vars, history_vars
<1>1. CASE Resume(t)
  BY <1>1 DEF Resume
<1>2. CASE CreateInit(t)
  BY <1>2 DEF CreateInit
<1>3. CASE ForkFail(t)
  BY <1>3 DEF ForkFail
<1>4. CASE ForkLink(t)
  BY <1>4 DEF ForkLink
<1>5. CASE ForkThread(t)
  <2>1. arg[t] \in Addr /\ arg[t] # t /\ pc[arg[t]] = "none"
    BY <1>5, HeldStructure DEF ForkThread, ThreadInv, Making
  <2> QED BY <1>5, <2>1 DEF ForkThread
<1>6. CASE ForkThreadFail(t)
  BY <1>6 DEF ForkThreadFail
<1>7. CASE MenuThread
  <2>1. arg[KProc] \in Addr /\ arg[KProc] # KProc /\ pc[arg[KProc]] = "none"
    BY <1>7, HeldStructure DEF MenuThread, ThreadInv, Making
  <2> QED BY <1>7, <2>1 DEF MenuThread
<1>8. CASE MenuThreadFail
  BY <1>8 DEF MenuThreadFail
<1>9. CASE StartProgram(t)
  BY <1>9 DEF StartProgram
<1>10. CASE StartFail(t)
  BY <1>10 DEF StartFail
<1>11. CASE ExitRemthread(t)
  BY <1>11 DEF ExitRemthread
<1>12. CASE ExitFlag(t)
  BY <1>12 DEF ExitFlag
<1>13. CASE ExitV(t)
  BY <1>13 DEF ExitV
<1>14. CASE WaitRefused(t)
  BY <1>14 DEF WaitRefused
<1>15. CASE WaitNohang(t)
  BY <1>15 DEF WaitNohang
<1>16. CASE WaitAllowed(t)
  BY <1>16 DEF WaitAllowed
<1>17. CASE WaitP(t)
  BY <1>17 DEF WaitP
<1>18. CASE WaitReturn(t)
  BY <1>18 DEF WaitReturn
<1>19. CASE ForkTooManyProcesses(t)
  BY <1>19 DEF ForkTooManyProcesses
<1>20. CASE CreateNoMemory(t)
  BY <1>20 DEF CreateNoMemory
<1>21. ASSUME NEW c \in Addr, CreatePanic(t, c) PROVE TableQuiet
  BY <1>21 DEF CreatePanic
<1>22. ASSUME NEW code \in Code, Exit(t, code) PROVE TableQuiet
  BY <1>22 DEF Exit
<1>23. CASE WaitBadArgument(t)
  BY <1>23 DEF WaitBadArgument
<1>24. ASSUME NEW pid \in 0..(MaxProc + 1), WaitNoSuchProcess(t, pid)
       PROVE TableQuiet
  BY <1>24 DEF WaitNoSuchProcess
<1>25. ASSUME NEW pid \in 0..(MaxProc + 1), WaitSearch(t, pid) PROVE TableQuiet
  BY <1>25 DEF WaitSearch
<1> QED
  BY <1>1, <1>2, <1>3, <1>4, <1>5, <1>6, <1>7, <1>8, <1>9, <1>10, <1>11, <1>12,
     <1>13, <1>14, <1>15, <1>16, <1>17, <1>18, <1>19, <1>20, <1>21, <1>22, <1>23,
     <1>24, <1>25 DEF KernelStep, Request

\* Registration fills a slot that was empty.
LEMMA FreeSlot == ASSUME TypeOK, NEW i \in Pids, FirstFree(i) PROVE table[i] = NULL
BY DEF FirstFree

\* Registration keeps the agreement: the slot was empty and the structure new.
LEMMA RegisterTable ==
    ASSUME IInv, NEW t \in Addr, NEW c \in Addr, CreateRegister(t, c)
    PROVE  TableInv'
<1> USE NullAssumption DEF TypeOK, IInv, Pids, Slots
<1>1. PICK i \in Pids : /\ table[i] = NULL
                        /\ table' = [table EXCEPT ![i] = c]
                        /\ p_pid' = [p_pid EXCEPT ![c] = i]
  BY FreeSlot DEF CreateRegister
<1>2. c \notin live /\ live' = live \cup {c}
  BY DEF CreateRegister
<1>3. \A u \in Addr : pc'[u] \in Freeing <=> pc[u] \in Freeing
  BY DEF CreateRegister, At, Goto, Freeing
<1>4. ASSUME NEW u \in Addr, pc[u] \in Freeing
      PROVE  arg'[u] = arg[u] /\ arg[u] \in live /\ arg[u] # c
  <2>1. u # t
    BY <1>4 DEF CreateRegister, At, Freeing
  <2>2. arg'[u] = arg[u]
    BY <2>1 DEF CreateRegister
  <2>3. arg[u] \in live
    BY <1>4 DEF HoldInv, Holding, Making, Waiting, Freeing
  <2> QED
    BY <1>2, <2>2, <2>3
<1>5. \A j \in Pids : table'[j] # NULL => table'[j] \in live' /\ p_pid'[table'[j]] = j
  BY <1>1, <1>2, SMTT(30) DEF TableInv
<1>6. \A a \in live' : p_pid'[a] \in Pids
  BY <1>1, <1>2, SMT DEF TableInv
<1>7. \A a \in live' : \/ table'[p_pid'[a]] = a
                       \/ \E u \in Addr : pc'[u] \in Freeing /\ arg'[u] = a
  <2> SUFFICES ASSUME NEW a \in live'
               PROVE  \/ table'[p_pid'[a]] = a
                      \/ \E u \in Addr : pc'[u] \in Freeing /\ arg'[u] = a
    OBVIOUS
  <2>0. CASE a = c
    BY <1>1, <2>0
  <2>1. ASSUME a # c
        PROVE  a \in live /\ a \in Addr /\ p_pid'[a] = p_pid[a] /\ p_pid[a] \in Pids
    BY <1>1, <1>2, <2>1 DEF TableInv
  <2>2. CASE a # c /\ table[p_pid[a]] = a
    BY <1>1, <2>1, <2>2, SMT
  <2>3. CASE \E u \in Addr : pc[u] \in Freeing /\ arg[u] = a
    BY <1>3, <1>4, <2>3
  <2> QED
    BY <2>0, <2>1, <2>2, <2>3 DEF TableInv
<1>8. ASSUME NEW u \in Addr, pc'[u] \in Freeing
      PROVE  table'[p_pid'[arg'[u]]] # arg'[u]
  <2>1. /\ arg'[u] = arg[u] /\ arg[u] \in live /\ arg[u] \in Addr /\ arg[u] # c
        /\ p_pid'[arg[u]] = p_pid[arg[u]]
    BY <1>1, <1>3, <1>4, <1>8
  <2>2. p_pid[arg[u]] \in Pids /\ table[p_pid[arg[u]]] # arg[u]
    BY <1>3, <1>8, <2>1 DEF TableInv
  <2> QED
    BY <1>1, <2>1, <2>2
<1> QED
  BY <1>5, <1>6, <1>7, <1>8 DEF TableInv

\* A structure is in the table until its only holder takes it out.
LEMMA HeldRegistered ==
    ASSUME IInv, NEW t \in Addr, pc[t] \in Holding \ Freeing
    PROVE  /\ p_pid[arg[t]] \in Pids
           /\ table[p_pid[arg[t]]] = arg[t]
<1>1. arg[t] \in live /\ ~ \E u \in Addr : pc[u] \in Freeing /\ arg[u] = arg[t]
  BY DEF IInv, HoldInv, Holding, Freeing, Waiting, Making
<1> QED
  BY <1>1 DEF IInv, TableInv

\* proc_end_waitpid keeps it: the slot it empties is that of the structure it
\* is about to free.
LEMMA UnregisterTable ==
    ASSUME IInv, NEW t \in Addr, Unregister(t),
           \/ At(t, "reap_unregister") /\ Goto(t, "reap_free")
           \/ At(t, "undo_unregister") /\ Goto(t, "undo_free")
    PROVE  TableInv'
<1> USE NullAssumption DEF TypeOK, IInv, Pids, Slots
<1> DEFINE p == arg[t]
<1>1. p_pid[p] \in Pids /\ table[p_pid[p]] = p /\ p \in live /\ p \in Addr
  BY HeldRegistered, HeldStructure DEF At, Holding, Waiting, Making, Freeing
<1>2. UNCHANGED <<live, p_pid, arg>> /\ table' = [table EXCEPT ![p_pid[p]] = NULL]
  BY DEF Unregister, field_vars, local_vars
<1>3. \A u \in Addr : pc'[u] \in Freeing <=> (u = t \/ pc[u] \in Freeing)
  BY SMT DEF At, Goto, Freeing
<1> HIDE DEF p
<1>4. \A j \in Pids : table'[j] # NULL => table'[j] \in live' /\ p_pid'[table'[j]] = j
  BY <1>1, <1>2 DEF TableInv
<1>5. \A a \in live' : p_pid'[a] \in Pids
  BY <1>1, <1>2 DEF TableInv
<1>6. \A a \in live' : \/ table'[p_pid'[a]] = a
                       \/ \E u \in Addr : pc'[u] \in Freeing /\ arg'[u] = a
  BY <1>1, <1>2, <1>3, SMTT(30) DEF TableInv, p
<1>7. \A u \in Addr : pc'[u] \in Freeing => table'[p_pid'[arg'[u]]] # arg'[u]
  <2> SUFFICES ASSUME NEW u \in Addr, pc'[u] \in Freeing
               PROVE  table'[p_pid[arg[u]]] # arg[u]
    BY <1>2
  <2>1. CASE u = t
    BY <1>1, <1>2, <2>1 DEF p
  <2>2. CASE u # t
    <3>1. arg[u] \in live /\ p_pid[arg[u]] \in Pids /\ table[p_pid[arg[u]]] # arg[u]
      BY <1>3, <2>2 DEF TableInv, HoldInv, Holding, Waiting, Making, Freeing
    <3> QED
      BY <1>1, <1>2, <3>1
  <2> QED
    BY <2>1, <2>2
<1> QED
  BY <1>4, <1>5, <1>6, <1>7 DEF TableInv

\* Freeing keeps it: no slot leads to the structure any more.
LEMMA FreeTable ==
    ASSUME IInv, NEW t \in Addr, Free(t), UNCHANGED arg,
           \/ At(t, "reap_free") /\ Goto(t, "wait_return")
           \/ At(t, "undo_free") /\ Goto(t, "sysret")
    PROVE  TableInv'
<1> USE NullAssumption DEF TypeOK, IInv, Pids, Slots
<1> DEFINE p == arg[t]
<1>1. p \in live /\ p \in Addr
  BY HeldStructure DEF At
<1>2. /\ live' = live \ {p}
      /\ p_pid' = [p_pid EXCEPT ![p] = 0]
      /\ UNCHANGED <<table, arg>>
  BY DEF Free, table_vars
<1>3. ASSUME NEW j \in Pids
      PROVE  table[j] # p
  <2>1. table[p_pid[p]] # p
    BY DEF TableInv, At, Freeing
  <2> QED
    BY <1>1, <2>1 DEF TableInv
<1>4. \A u \in Addr : pc'[u] \in Freeing <=> (u # t /\ pc[u] \in Freeing)
  BY SMT DEF At, Goto, Freeing
<1>5. \A u \in Addr : (u # t /\ pc[u] \in Freeing) => arg[u] # p /\ arg[u] \in live
  BY DEF At, Freeing, HoldInv, Holding, Waiting, Making
<1>51. \A u \in Addr : (pc[u] \in Freeing /\ arg[u] # p) => u # t
  OBVIOUS
<1> HIDE DEF p
<1>6. \A j \in Pids : table'[j] # NULL => table'[j] \in live' /\ p_pid'[table'[j]] = j
  BY <1>1, <1>2, <1>3 DEF TableInv
<1>7. \A a \in live' : p_pid'[a] \in Pids
  BY <1>1, <1>2 DEF TableInv
<1>8. \A a \in live' : \/ table'[p_pid'[a]] = a
                       \/ \E u \in Addr : pc'[u] \in Freeing /\ arg'[u] = a
  BY <1>1, <1>2, <1>4, <1>51, SMTT(30) DEF TableInv
<1>9. \A u \in Addr : pc'[u] \in Freeing => table'[p_pid'[arg'[u]]] # arg'[u]
  BY <1>1, <1>2, <1>4, <1>5, SMTT(30) DEF TableInv
<1> QED
  BY <1>6, <1>7, <1>8, <1>9 DEF TableInv

\* Every step keeps the table and the structures in agreement.
LEMMA TableStep == IInv /\ [Next]_vars => TableInv'
<1> SUFFICES ASSUME IInv, [Next]_vars PROVE TableInv'
    OBVIOUS
<1>1. ASSUME NEW t \in Addr, KernelStep(t) \/ Request(t)
      PROVE  TableInv'
  <2>1. CASE \E c \in Addr : CreateRegister(t, c)
    BY <2>1, RegisterTable
  <2>2. CASE ReapUnregister(t) \/ UndoUnregister(t)
    BY <2>2, UnregisterTable DEF ReapUnregister, UndoUnregister
  <2>3. CASE ReapFree(t) \/ UndoFree(t)
    BY <2>3, FreeTable DEF ReapFree, UndoFree
  <2>4. CASE /\ \A c \in Addr : ~CreateRegister(t, c)
             /\ ~ReapUnregister(t) /\ ~UndoUnregister(t) /\ ~ReapFree(t) /\ ~UndoFree(t)
    BY <1>1, <2>4, TableQuietSteps, TableFrame DEF IInv
  <2> QED
    BY <2>1, <2>2, <2>3, <2>4
<1>2. CASE UNCHANGED vars
  BY <1>2 DEF vars, IInv, TableInv
<1> QED
  BY <1>1, <1>2 DEF Next

-----------------------------------------------------------------------------
(***************************************************************************)
(* Who holds which structure, and what is known of it.                     *)
(***************************************************************************)

\* A structure gets a second holder in no step: waitpid takes only a child of
\* the caller, and the maker of a structure is the only one it has as parent.
LEMMA HoldStep == IInv /\ [Next]_vars => HoldInv'
<1> SUFFICES ASSUME IInv, [Next]_vars PROVE HoldInv'
    OBVIOUS
<1> USE KProcAssumption, NullAssumption DEF IInv, At, Goto, Return, table_vars,
   field_vars, local_vars, history_vars, TypeOK, HoldInv, ParentInv, ThreadInv,
   Labels, Slots, Holding, Waiting, Making
<1>1. ASSUME NEW t \in Addr, KernelStep(t) \/ Request(t)
      PROVE  HoldInv'
  <2>1. CASE Resume(t)
    BY <2>1, SMT DEF Resume
  <2>2. CASE CreateInit(t)
    BY <2>2, SMT DEF CreateInit
  <2>3. CASE ForkFail(t)
    BY <2>3, SMT DEF ForkFail
  <2>4. CASE ForkLink(t)
    BY <2>4, SMT DEF ForkLink
  <2>5. CASE ForkThread(t)
    BY <2>5, SMTT(30) DEF ForkThread
  <2>6. CASE ForkThreadFail(t)
    BY <2>6, SMT DEF ForkThreadFail
  <2>7. CASE MenuThread
    BY <2>7, SMT DEF MenuThread
  <2>8. CASE MenuThreadFail
    BY <2>8, SMT DEF MenuThreadFail
  <2>9. CASE StartProgram(t)
    BY <2>9, SMT DEF StartProgram
  <2>10. CASE StartFail(t)
    BY <2>10, SMT DEF StartFail
  <2>11. CASE ExitRemthread(t)
    BY <2>11, SMT DEF ExitRemthread
  <2>12. CASE ExitFlag(t)
    BY <2>12, SMT DEF ExitFlag
  <2>13. CASE ExitV(t)
    BY <2>13, SMT DEF ExitV
  <2>14. CASE WaitRefused(t)
    BY <2>14, SMT DEF WaitRefused
  <2>15. CASE WaitNohang(t)
    BY <2>15, SMT DEF WaitNohang
  <2>16. CASE WaitAllowed(t)
    <3>1. arg[t] \in Addr /\ p_parent[arg[t]] = t /\ arg[t] # t /\ t # KProc
      BY <2>16 DEF WaitAllowed, WaitPermitted
    <3>2. arg[t] \in live \ {t, KProc}
      BY <3>1, SMT
    <3>3. \A u \in Addr : (pc[u] \in Holding /\ arg[u] = arg[t]) => u = t
      <4> SUFFICES ASSUME NEW u \in Addr, pc[u] \in Holding, arg[u] = arg[t]
                   PROVE  u = t
        OBVIOUS
      <4>1. CASE pc[u] \in Waiting
        BY <3>1, <4>1, SMT
      <4>2. CASE pc[u] \in Making
        BY <3>1, <4>2, SMTT(30)
      <4> QED
        BY <4>1, <4>2
    <3> QED
      BY <2>16, <3>2, <3>3, SMT DEF WaitAllowed
  <2>17. CASE WaitP(t)
    BY <2>17, SMT DEF WaitP
  <2>18. CASE ReapUnregister(t)
    BY <2>18, SMTT(30) DEF ReapUnregister, Unregister
  <2>19. CASE ReapFree(t)
    BY <2>19, SMT DEF ReapFree, Free
  <2>20. CASE WaitReturn(t)
    BY <2>20, SMTT(30) DEF WaitReturn
  <2>21. CASE UndoUnregister(t)
    BY <2>21, SMTT(30) DEF UndoUnregister, Unregister
  <2>22. CASE UndoFree(t)
    BY <2>22, SMT DEF UndoFree, Free
  <2>23. CASE ForkTooManyProcesses(t)
    BY <2>23, SMT DEF ForkTooManyProcesses
  <2>24. CASE CreateNoMemory(t)
    BY <2>24, SMT DEF CreateNoMemory
  <2>25. ASSUME NEW c \in Addr, CreateRegister(t, c) PROVE HoldInv'
    BY <2>25, SMT DEF CreateRegister
  <2>26. ASSUME NEW c \in Addr, CreatePanic(t, c) PROVE HoldInv'
    BY <2>26, SMTT(30) DEF CreatePanic
  <2>27. ASSUME NEW code \in Code, Exit(t, code) PROVE HoldInv'
    BY <2>27, SMTT(30) DEF Exit
  <2>28. CASE WaitBadArgument(t)
    BY <2>28, SMTT(30) DEF WaitBadArgument
  <2>29. ASSUME NEW pid \in 0..(MaxProc + 1), WaitNoSuchProcess(t, pid)
         PROVE HoldInv'
    BY <2>29, SMTT(30) DEF WaitNoSuchProcess
  <2>30. ASSUME NEW pid \in 0..(MaxProc + 1), WaitSearch(t, pid) PROVE HoldInv'
    BY <2>30, SMT DEF WaitSearch
  <2> QED
    BY <1>1, <2>1, <2>2, <2>3, <2>4, <2>5, <2>6, <2>7, <2>8, <2>9, <2>10, <2>11,
       <2>12, <2>13, <2>14, <2>15, <2>16, <2>17, <2>18, <2>19, <2>20, <2>21, <2>22,
       <2>23, <2>24, <2>25, <2>26, <2>27, <2>28, <2>29, <2>30 DEF KernelStep, Request
<1>2. CASE UNCHANGED vars
  BY <1>2, SMT DEF vars
<1> QED
  BY <1>1, <1>2 DEF Next

-----------------------------------------------------------------------------
(* Parents, owed pids, threads, statuses, and the theorems *)

\* The parent fields keep saying who may hold a structure.
LEMMA ParentStep == IInv /\ [Next]_vars => ParentInv'
<1> SUFFICES ASSUME IInv, [Next]_vars PROVE ParentInv'
    OBVIOUS
<1> USE KProcAssumption, NullAssumption DEF IInv, At, Goto, Return, table_vars,
   field_vars, local_vars, history_vars, TypeOK, TableInv, HoldInv, ParentInv,
   ThreadInv, Labels, Slots, Holding, Waiting, Making
<1>1. ASSUME NEW t \in Addr, KernelStep(t) \/ Request(t)
      PROVE  ParentInv'
  <2>1. CASE Resume(t)
    BY <2>1, SMTT(30) DEF Resume
  <2>2. CASE CreateInit(t)
    BY <2>2, SMTT(30) DEF CreateInit
  <2>3. CASE ForkFail(t)
    BY <2>3, SMTT(30) DEF ForkFail
  <2>4. CASE ForkLink(t)
    BY <2>4, SMTT(30) DEF ForkLink
  <2>5. CASE ForkThread(t)
    BY <2>5, SMTT(30) DEF ForkThread
  <2>6. CASE ForkThreadFail(t)
    BY <2>6, SMTT(30) DEF ForkThreadFail
  <2>7. CASE MenuThread
    BY <2>7, SMTT(30) DEF MenuThread
  <2>8. CASE MenuThreadFail
    BY <2>8, SMTT(30) DEF MenuThreadFail
  <2>9. CASE StartProgram(t)
    BY <2>9, SMTT(30) DEF StartProgram
  <2>10. CASE StartFail(t)
    BY <2>10, SMTT(30) DEF StartFail
  <2>11. CASE ExitRemthread(t)
    BY <2>11, SMTT(30) DEF ExitRemthread
  <2>12. CASE ExitFlag(t)
    BY <2>12, SMTT(30) DEF ExitFlag
  <2>13. CASE ExitV(t)
    BY <2>13, SMTT(30) DEF ExitV
  <2>14. CASE WaitRefused(t)
    BY <2>14, SMTT(30) DEF WaitRefused
  <2>15. CASE WaitNohang(t)
    BY <2>15, SMTT(30) DEF WaitNohang
  <2>16. CASE WaitAllowed(t)
    <3>1. p_parent[arg[t]] = t /\ t # KProc /\ p_pid[arg[t]] = want[t]
      BY <2>16 DEF WaitAllowed, WaitPermitted
    <3> QED
      BY <2>16, <3>1, SMTT(30) DEF WaitAllowed
  <2>17. CASE WaitP(t)
    BY <2>17, SMTT(30) DEF WaitP
  <2>18. CASE ReapUnregister(t)
    BY <2>18, SMTT(30) DEF ReapUnregister, Unregister
  <2>19. CASE ReapFree(t)
    BY <2>19, SMTT(30) DEF ReapFree, Free
  <2>20. CASE WaitReturn(t)
    BY <2>20, SMTT(30) DEF WaitReturn
  <2>21. CASE UndoUnregister(t)
    BY <2>21, SMTT(30) DEF UndoUnregister, Unregister
  <2>22. CASE UndoFree(t)
    BY <2>22, SMTT(30) DEF UndoFree, Free
  <2>23. CASE ForkTooManyProcesses(t)
    BY <2>23, SMTT(30) DEF ForkTooManyProcesses
  <2>24. CASE CreateNoMemory(t)
    BY <2>24, SMTT(30) DEF CreateNoMemory
  <2>25. ASSUME NEW c \in Addr, CreateRegister(t, c) PROVE ParentInv'
    BY <2>25, SMTT(30) DEF CreateRegister
  <2>26. ASSUME NEW c \in Addr, CreatePanic(t, c) PROVE ParentInv'
    BY <2>26, SMTT(30) DEF CreatePanic
  <2>27. ASSUME NEW code \in Code, Exit(t, code) PROVE ParentInv'
    BY <2>27, SMTT(30) DEF Exit
  <2>28. CASE WaitBadArgument(t)
    BY <2>28, SMTT(30) DEF WaitBadArgument
  <2>29. ASSUME NEW pid \in 0..(MaxProc + 1), WaitNoSuchProcess(t, pid)
         PROVE ParentInv'
    BY <2>29, SMTT(30) DEF WaitNoSuchProcess
  <2>30. ASSUME NEW pid \in 0..(MaxProc + 1), WaitSearch(t, pid)
         PROVE ParentInv'
    BY <2>30, SMTT(30) DEF WaitSearch
  <2> QED
    BY <1>1, <2>1, <2>2, <2>3, <2>4, <2>5, <2>6, <2>7, <2>8, <2>9, <2>10, <2>11,
       <2>12, <2>13, <2>14, <2>15, <2>16, <2>17, <2>18, <2>19, <2>20, <2>21, <2>22,
       <2>23, <2>24, <2>25, <2>26, <2>27, <2>28, <2>29, <2>30 DEF KernelStep, Request
<1>2. CASE UNCHANGED vars
  BY <1>2, SMT DEF vars
<1> QED
  BY <1>1, <1>2 DEF Next

-----------------------------------------------------------------------------
(***************************************************************************)
(* The pids owed to parents.                                               *)
(***************************************************************************)
\* What leaves the owed pids alone.
OwedQuiet ==
    /\ UNCHANGED <<table, owed, live, p_pid, p_parent>>
    /\ \A u \in Addr : pc'[u] \in Making \ {"undo_free"} =>
            pc[u] \in Making \ {"undo_free"} /\ arg'[u] = arg[u]

\* A pid owed to somebody is in the table and is no pid of a structure in the making.
LEMMA OwedFrame == ASSUME OwedInv, OwedQuiet PROVE OwedInv'
BY DEF OwedInv, OwedQuiet

\* A structure in the making is owed to nobody, so its parent field is free to
\* change.
LEMMA OwedParent ==
    ASSUME IInv, NEW t \in Addr, pc[t] \in {"init", "made"}, NEW q,
           p_parent' = [p_parent EXCEPT ![arg[t]] = q],
           pc'[t] \in {"made", "linked"},
           \A u \in Addr \ {t} : pc'[u] = pc[u],
           UNCHANGED <<table, owed, live, p_pid, arg>>
    PROVE  OwedInv'
<1> USE DEF IInv, TypeOK, Slots, Pids
<1>1. arg[t] \in Addr
  BY HeldStructure
<1>2. ASSUME NEW u \in Addr, NEW pid \in owed[u]
      PROVE  table[pid] \in Addr /\ table[pid] # arg[t]
  <2>1. table[pid] # NULL /\ pid \in Pids
    BY <1>2 DEF OwedInv
  <2>2. p_pid[table[pid]] = pid
    BY <2>1 DEF TableInv
  <2>3. p_pid[arg[t]] \notin owed[u]
    BY <1>2 DEF OwedInv, Making
  <2> QED
    BY <1>2, <2>1, <2>2, <2>3, SMT
<1>3. \A u \in Addr : \A pid \in owed[u] : p_parent'[table[pid]] = p_parent[table[pid]]
  BY <1>1, <1>2
<1>4. \A u \in Addr : pc'[u] \in Making \ {"undo_free"} => pc[u] \in Making \ {"undo_free"}
  BY DEF Making
<1> QED
  BY <1>3, <1>4, SMTT(30) DEF OwedInv

\* A child that gets its thread becomes owed to its parent.
LEMMA OwedChild ==
    ASSUME IInv, NEW t \in Addr, pc[t] \in {"made", "linked"},
           p_parent[arg[t]] = IF t = KProc THEN NULL ELSE t,
           owed' = [owed EXCEPT ![t] = @ \cup {p_pid[arg[t]]}],
           \A u \in Addr : pc'[u] \in Making => u # t /\ pc'[u] = pc[u],
           UNCHANGED <<table, live, p_pid, p_parent, arg>>
    PROVE  OwedInv'
<1> USE DEF IInv, TypeOK, Slots
<1>1. /\ arg[t] \in live /\ arg[t] \in Addr
      /\ p_pid[arg[t]] \in Pids /\ table[p_pid[arg[t]]] = arg[t]
  BY HeldStructure, HeldRegistered DEF Holding, Waiting, Making, Freeing
<1>2. \A u \in Addr \ live' : owed'[u] = {}
  <2>1. t \in live
    BY DEF ThreadInv
  <2> QED
    BY <2>1, SMT DEF OwedInv
<1>3. ASSUME NEW u \in Addr, NEW pid \in owed'[u]
      PROVE  table[pid] # NULL /\ p_parent[table[pid]] = IF u = KProc THEN NULL ELSE u
  <2>1. CASE pid \in owed[u]
    BY <2>1 DEF OwedInv
  <2>2. CASE u = t /\ pid = p_pid[arg[t]]
    BY <1>1, <2>2, NullAssumption, SMT
  <2> QED
    BY <1>3, <2>1, <2>2
<1>4. ASSUME NEW v \in Addr, NEW u \in Addr, pc'[v] \in Making \ {"undo_free"}
      PROVE  p_pid[arg[v]] \notin owed'[u]
  <2>1. v # t /\ pc[v] \in Making \ {"undo_free"}
    BY <1>4
  <2>2. arg[v] # arg[t] /\ table[p_pid[arg[v]]] = arg[v]
    BY <2>1, HeldRegistered DEF HoldInv, Holding, Waiting, Making, Freeing
  <2>3. p_pid[arg[v]] # p_pid[arg[t]]
    BY <1>1, <2>2
  <2>4. p_pid[arg[v]] \notin owed[u]
    BY <2>1 DEF OwedInv
  <2> QED
    BY <2>3, <2>4
<1> QED
  BY <1>2, <1>3, <1>4, SMT DEF OwedInv

\* A structure that leaves the table was owed at most to the thread that removes it.
LEMMA OwedUnregister ==
    ASSUME IInv, NEW t \in Addr, Unregister(t), ReapUnregister(t) \/ UndoUnregister(t)
    PROVE  OwedInv'
<1> USE DEF IInv, TypeOK, Slots
<1> DEFINE i == p_pid[arg[t]]
<1>1. arg[t] \in live /\ arg[t] \in Addr /\ i \in Pids /\ table[i] = arg[t]
  BY HeldStructure, HeldRegistered
  DEF ReapUnregister, UndoUnregister, At, Holding, Waiting, Making, Freeing
<1>2. table' = [table EXCEPT ![i] = NULL] /\ UNCHANGED <<live, p_pid, p_parent, arg>>
  BY DEF Unregister, field_vars, local_vars
<1>3. \A u \in Addr : i \notin owed'[u] /\ owed'[u] \subseteq owed[u]
  <2>1. CASE ReapUnregister(t)
    <3>1. owed' = [owed EXCEPT ![t] = @ \ {i}]
      BY <2>1 DEF ReapUnregister
    <3>2. p_parent[arg[t]] = IF t = KProc THEN NULL ELSE t
      BY <2>1 DEF ReapUnregister, At, ParentInv, Waiting
    <3>3. \A u \in Addr : i \in owed[u] => u = t
      BY <1>1, <3>2, NullAssumption, SMT DEF OwedInv
    <3> QED
      BY <3>1, <3>3
  <2>2. CASE UndoUnregister(t)
    BY <2>2 DEF UndoUnregister, At, OwedInv, Making, history_vars
  <2> QED
    BY <2>1, <2>2
<1>4. \A u \in Addr : pc'[u] \in Making \ {"undo_free"} => pc[u] \in Making \ {"undo_free"}
  BY SMT DEF ReapUnregister, UndoUnregister, Goto, Making
<1> HIDE DEF i
<1>5. \A u \in Addr \ live' : owed'[u] = {}
  BY <1>2, <1>3, SMT DEF OwedInv
<1>6. ASSUME NEW u \in Addr, NEW pid \in owed'[u]
      PROVE  table'[pid] # NULL /\ p_parent'[table'[pid]] = IF u = KProc THEN NULL ELSE u
  <2>1. pid \in owed[u] /\ pid # i /\ pid \in Pids
    BY <1>3, <1>6
  <2>2. table'[pid] = table[pid]
    BY <1>2, <2>1
  <2> QED
    BY <1>2, <2>1, <2>2 DEF OwedInv
<1>7. \A v,
   u \in Addr : pc'[v] \in Making \ {"undo_free"} => p_pid'[arg'[v]] \notin owed'[u]
  BY <1>2, <1>3, <1>4, SMT DEF OwedInv
<1> QED
  BY <1>5, <1>6, <1>7 DEF OwedInv

\* A structure that is freed is in no slot.
LEMMA OwedFree ==
    ASSUME IInv, NEW t \in Addr, ReapFree(t) \/ UndoFree(t)
    PROVE  OwedInv'
<1> USE DEF IInv, TypeOK, Slots
<1> DEFINE p == arg[t]
<1>1. p \in live /\ p \in Addr
  BY HeldStructure DEF ReapFree, UndoFree, At
<1>2. /\ live' = live \ {p}
      /\ p_pid' = [p_pid EXCEPT ![p] = 0]
      /\ p_parent' = [p_parent EXCEPT ![p] = Garbage]
      /\ owed' = [owed EXCEPT ![p] = {}]
      /\ UNCHANGED <<table, arg>>
  BY DEF ReapFree, UndoFree, Free, table_vars
<1>3. ASSUME NEW j \in Pids
      PROVE  table[j] # p
  <2>1. table[p_pid[p]] # p
    BY DEF TableInv, ReapFree, UndoFree, At, Freeing
  <2> QED
    BY <1>1, <2>1, NullAssumption, SMT DEF TableInv
<1>4. \A v \in Addr : pc'[v] \in Making \ {"undo_free"} =>
        pc[v] \in Making \ {"undo_free"} /\ arg[v] # p
  BY SMT DEF ReapFree, UndoFree, At, Goto, Making, HoldInv, Holding, Waiting
<1> HIDE DEF p
<1>5. \A u \in Addr \ live' : owed'[u] = {}
  BY <1>1, <1>2 DEF OwedInv
<1>6. ASSUME NEW u \in Addr, NEW pid \in owed'[u]
      PROVE  table'[pid] # NULL /\ p_parent'[table'[pid]] = IF u = KProc THEN NULL ELSE u
  <2>1. pid \in owed[u] /\ pid \in Pids
    BY <1>1, <1>2, <1>6
  <2>2. table[pid] # NULL /\ table[pid] \in Addr /\ table[pid] # p
    BY <1>3, <2>1, SMT DEF OwedInv
  <2> QED
    BY <1>1, <1>2, <2>1, <2>2 DEF OwedInv
<1>7. ASSUME NEW v \in Addr, NEW u \in Addr, pc'[v] \in Making \ {"undo_free"}
      PROVE  p_pid'[arg'[v]] \notin owed'[u]
  <2>1. arg[v] \in Addr /\ arg[v] # p /\ p_pid[arg[v]] \notin owed[u]
    BY <1>4, <1>7, HeldStructure DEF OwedInv, Making
  <2> QED
    BY <1>1, <1>2, <2>1
<1> QED
  BY <1>5, <1>6, <1>7 DEF OwedInv

\* A slot taken by a new structure is owed to nobody.
LEMMA OwedRegister ==
    ASSUME IInv, NEW t \in Addr, NEW c \in Addr, CreateRegister(t, c)
    PROVE  OwedInv'
<1> USE DEF IInv, TypeOK, Slots
<1>1. PICK i \in Pids : /\ table[i] = NULL
                        /\ table' = [table EXCEPT ![i] = c]
                        /\ p_pid' = [p_pid EXCEPT ![c] = i]
  BY FreeSlot DEF CreateRegister
<1>2. c \notin live /\ live' = live \cup {c} /\ UNCHANGED <<p_parent, owed>>
  BY DEF CreateRegister, history_vars
<1>3. \A u \in Addr : i \notin owed[u]
  BY <1>1 DEF OwedInv
<1>4. \A u \in Addr \ live' : owed'[u] = {}
  BY <1>2 DEF OwedInv
<1>5. ASSUME NEW u \in Addr, NEW pid \in owed'[u]
      PROVE  table'[pid] # NULL /\ p_parent'[table'[pid]] = IF u = KProc THEN NULL ELSE u
  <2>1. pid \in owed[u] /\ pid \in Pids /\ pid # i
    BY <1>2, <1>3, <1>5
  <2>2. table'[pid] = table[pid]
    BY <1>1, <2>1
  <2> QED
    BY <1>2, <2>1, <2>2, SMT DEF OwedInv
<1>6. ASSUME NEW v \in Addr, NEW u \in Addr, pc'[v] \in Making \ {"undo_free"}
      PROVE  p_pid'[arg'[v]] \notin owed'[u]
  <2>1. CASE v = t
    <3>1. arg'[t] = c
      BY DEF CreateRegister
    <3> QED
      BY <1>1, <1>2, <1>3, <2>1, <3>1
  <2>2. CASE v # t
    <3>1. pc[v] = pc'[v] /\ arg'[v] = arg[v]
      BY <2>2 DEF CreateRegister, Goto
    <3>2. arg[v] \in live /\ arg[v] \in Addr /\ p_pid[arg[v]] \notin owed[u]
      BY <1>6, <3>1, HeldStructure DEF OwedInv, Making
    <3> QED
      BY <1>1, <1>2, <3>1, <3>2
  <2> QED
    BY <2>1, <2>2
<1> QED
  BY <1>4, <1>5, <1>6 DEF OwedInv

\* No step breaks a promise about an owed pid.
LEMMA OwedStep == IInv /\ [Next]_vars => OwedInv'
<1> SUFFICES ASSUME IInv, [Next]_vars PROVE OwedInv'
    OBVIOUS
<1> USE KProcAssumption, NullAssumption DEF IInv, At, Goto, Return, table_vars,
   field_vars, local_vars, history_vars, TypeOK, Labels, Slots
<1>1. ASSUME NEW t \in Addr, KernelStep(t) \/ Request(t)
      PROVE  OwedInv'
  <2>1. CASE Resume(t)
    BY <2>1, OwedFrame, SMT DEF Resume, OwedQuiet, Making
  <2>2. CASE CreateInit(t)
    BY <2>2, OwedParent DEF CreateInit
  <2>3. CASE ForkFail(t)
    BY <2>3, OwedFrame, SMT DEF ForkFail, OwedQuiet, Making
  <2>4. CASE ForkLink(t)
    BY <2>4, OwedParent DEF ForkLink
  <2>5. CASE ForkThread(t)
    <3>1. p_parent[arg[t]] = IF t = KProc THEN NULL ELSE t
      BY <2>5 DEF ForkThread, ParentInv
    <3>2. \A u \in Addr : pc'[u] \in Making => u # t /\ pc'[u] = pc[u]
      BY <2>5, SMT DEF ForkThread, Making
    <3> QED
      BY <2>5, <3>1, <3>2, OwedChild DEF ForkThread
  <2>6. CASE ForkThreadFail(t)
    BY <2>6, OwedFrame, SMT DEF ForkThreadFail, OwedQuiet, Making
  <2>7. CASE MenuThread
    <3>1. p_parent[arg[KProc]] = IF KProc = KProc THEN NULL ELSE KProc
      BY <2>7 DEF MenuThread, ParentInv
    <3>2. \A u \in Addr : pc'[u] \in Making => u # KProc /\ pc'[u] = pc[u]
      BY <2>7 DEF MenuThread, Making
    <3> QED
      BY <2>7, <3>1, <3>2, OwedChild DEF MenuThread
  <2>8. CASE MenuThreadFail
    BY <2>8, OwedFrame, SMT DEF MenuThreadFail, OwedQuiet, Making
  <2>9. CASE StartProgram(t)
    BY <2>9, OwedFrame, SMT DEF StartProgram, OwedQuiet, Making
  <2>10. CASE StartFail(t)
    BY <2>10, OwedFrame DEF StartFail, OwedQuiet, Making
  <2>11. CASE ExitRemthread(t)
    BY <2>11, OwedFrame, SMT DEF ExitRemthread, OwedQuiet, Making
  <2>12. CASE ExitFlag(t)
    BY <2>12, OwedFrame, SMT DEF ExitFlag, OwedQuiet, Making
  <2>13. CASE ExitV(t)
    BY <2>13, OwedFrame DEF ExitV, OwedQuiet, Making
  <2>14. CASE WaitRefused(t)
    BY <2>14, OwedFrame DEF WaitRefused, OwedQuiet, Making
  <2>15. CASE WaitNohang(t)
    BY <2>15, OwedFrame, SMT DEF WaitNohang, OwedQuiet, Making
  <2>16. CASE WaitAllowed(t)
    BY <2>16, OwedFrame, SMT DEF WaitAllowed, OwedQuiet, Making
  <2>17. CASE WaitP(t)
    BY <2>17, OwedFrame, SMT DEF WaitP, OwedQuiet, Making
  <2>18. CASE ReapUnregister(t)
    BY <2>18, OwedUnregister DEF ReapUnregister
  <2>19. CASE ReapFree(t)
    BY <2>19, OwedFree
  <2>20. CASE WaitReturn(t)
    BY <2>20, OwedFrame, SMT DEF WaitReturn, OwedQuiet, Making
  <2>21. CASE UndoUnregister(t)
    BY <2>21, OwedUnregister DEF UndoUnregister
  <2>22. CASE UndoFree(t)
    BY <2>22, OwedFree
  <2>23. CASE ForkTooManyProcesses(t)
    BY <2>23, OwedFrame, SMT DEF ForkTooManyProcesses, OwedQuiet, Making
  <2>24. CASE CreateNoMemory(t)
    BY <2>24, OwedFrame, SMT DEF CreateNoMemory, OwedQuiet, Making
  <2>25. ASSUME NEW c \in Addr, CreateRegister(t, c) PROVE OwedInv'
    BY <2>25, OwedRegister
  <2>26. ASSUME NEW c \in Addr, CreatePanic(t, c) PROVE OwedInv'
    BY <2>26, OwedFrame DEF CreatePanic, OwedQuiet, Making
  <2>27. ASSUME NEW code \in Code, Exit(t, code) PROVE OwedInv'
    BY <2>27, OwedFrame, SMT DEF Exit, OwedQuiet, Making
  <2>28. CASE WaitBadArgument(t)
    BY <2>28, OwedFrame, SMT DEF WaitBadArgument, OwedQuiet, Making
  <2>29. ASSUME NEW pid \in 0..(MaxProc + 1), WaitNoSuchProcess(t, pid)
         PROVE OwedInv'
    BY <2>29, OwedFrame DEF WaitNoSuchProcess, OwedQuiet, Making
  <2>30. ASSUME NEW pid \in 0..(MaxProc + 1), WaitSearch(t, pid) PROVE OwedInv'
    BY <2>30, OwedFrame DEF WaitSearch, OwedQuiet, Making
  <2> QED
    BY <1>1, <2>1, <2>2, <2>3, <2>4, <2>5, <2>6, <2>7, <2>8, <2>9, <2>10, <2>11,
       <2>12, <2>13, <2>14, <2>15, <2>16, <2>17, <2>18, <2>19, <2>20, <2>21, <2>22,
       <2>23, <2>24, <2>25, <2>26, <2>27, <2>28, <2>29, <2>30 DEF KernelStep, Request
<1>2. CASE UNCHANGED vars
  BY <1>2 DEF vars, OwedInv
<1> QED
  BY <1>1, <1>2 DEF Next

-----------------------------------------------------------------------------
(* Threads and statuses *)

\* What is known of a process from where its thread is.
LEMMA ThreadStep == IInv /\ [Next]_vars => ThreadInv'
<1> SUFFICES ASSUME IInv, [Next]_vars PROVE ThreadInv'
    OBVIOUS
<1> USE KProcAssumption, NullAssumption DEF IInv, At, Goto, Return, table_vars,
   field_vars, local_vars, history_vars, TypeOK, HoldInv, ThreadInv, Labels, Slots,
   Holding, Waiting, Making, Reaping
<1>1. ASSUME NEW t \in Addr, KernelStep(t) \/ Request(t)
      PROVE  ThreadInv'
  <2>1. CASE Resume(t)
    BY <2>1, SMTT(30) DEF Resume
  <2>2. CASE CreateInit(t)
    BY <2>2, SMT DEF CreateInit
  <2>3. CASE ForkFail(t)
    BY <2>3, SMTT(30) DEF ForkFail
  <2>4. CASE ForkLink(t)
    BY <2>4, SMT DEF ForkLink
  <2>5. CASE ForkThread(t)
    <3>1. arg[t] \in Addr /\ arg[t] \in live /\ arg[t] # t
      BY <2>5, HeldStructure DEF ForkThread
    <3>2. /\ pc[arg[t]] = "none" /\ p_numthreads[arg[t]] = 0
          /\ ~p_exited[arg[t]] /\ p_sem[arg[t]] = 0
      BY <2>5 DEF ForkThread
    <3>3. \A u \in Addr : (pc[u] \in Holding /\ u # t) => arg[u] # arg[t]
      BY <2>5 DEF ForkThread
    <3>4. \A u \in Addr : pc[u] \in Reaping => arg[u] \in Addr /\ p_exited[arg[u]]
      BY HeldStructure
    <3>5. p_numthreads'[arg[t]] = 1
      BY <2>5, <3>1, <3>2, SMTT(30) DEF ForkThread
    <3>6. /\ pc'[t] \notin Making \cup Reaping \cup {"none", "exit_flag", "exit_V"}
          /\ pc'[arg[t]] \notin Making \cup Reaping \cup {"none", "exit_flag", "exit_V"}
          /\ \A a \in Addr \ {t,
             arg[t]} : pc'[a] = pc[a] /\ p_numthreads'[a] = p_numthreads[a]
          /\ p_numthreads'[t] = p_numthreads[t]
          /\ UNCHANGED <<live, arg, p_exited, p_sem>>
      BY <2>5, <3>1, SMT DEF ForkThread
    <3>7. pc[t] \notin {"none", "exit_flag", "exit_V"}
      BY <2>5 DEF ForkThread
    <3>8. \A a \in Addr : pc'[a] # "none" =>
            a \in live /\ p_numthreads'[a] = IF pc'[a] \in {"exit_flag",
               "exit_V"} THEN 0 ELSE 1
      BY <3>1, <3>5, <3>6, <3>7, SMTT(30)
    <3>9. ASSUME NEW a \in Addr, p_exited[a]
          PROVE  a # t /\ a # arg[t] /\ pc'[a] = pc[a] /\ p_numthreads'[a] = p_numthreads[a]
      BY <3>2, <3>6, <3>7, <3>9, SMT
    <3>10. ASSUME NEW u \in Addr, pc'[u] \in Making \cup Reaping
           PROVE  /\ pc'[u] = pc[u] /\ arg[u] \in Addr /\ pc'[arg[u]] = pc[arg[u]]
                  /\ p_numthreads'[arg[u]] = p_numthreads[arg[u]]
      <4>1. u # t /\ u # arg[t] /\ pc'[u] = pc[u]
        BY <3>6, <3>10
      <4>2. arg[u] \in Addr /\ pc[arg[u]] = "none"
        BY <3>10, <4>1, HeldStructure
      <4>3. arg[u] # arg[t] /\ arg[u] # t
        BY <3>3, <3>7, <3>10, <4>1, <4>2, SMTT(30)
      <4> QED
        BY <3>6, <4>1, <4>2, <4>3
    <3>11. \A a \in Addr \ live' : p_numthreads'[a] = 0 /\ ~p_exited'[a] /\ p_sem'[a] = 0
      BY <3>1, <3>6, <3>7, SMTT(30)
    <3>12. \A a \in Addr : p_exited'[a] => pc'[a] \in {"exit_V",
       "none"} /\ p_numthreads'[a] = 0
      BY <3>6, <3>9, SMTT(30)
    <3>13. \A a \in Addr :
             /\ p_sem'[a] > 0 => p_exited'[a] /\ pc'[a] = "none"
             /\ pc'[a] = "exit_V" => p_exited'[a]
      BY <3>6, <3>9, SMTT(30)
    <3>14. \A u \in Addr : pc'[u] \in Making =>
             /\ pc'[arg'[u]] = "none"
             /\ p_numthreads'[arg'[u]] = 0 /\ ~p_exited'[arg'[u]] /\ p_sem'[arg'[u]] = 0
      BY <3>6, <3>10, SMTT(30)
    <3>15. \A u \in Addr : pc'[u] \in Reaping => p_exited'[arg'[u]] /\ pc'[arg'[u]] = "none"
      BY <3>6, <3>10, SMTT(30)
    <3> QED
      BY <3>6, <3>8, <3>11, <3>12, <3>13, <3>14, <3>15, ZenonT(40)
  <2>6. CASE ForkThreadFail(t)
    BY <2>6, SMTT(30) DEF ForkThreadFail
  <2>7. CASE MenuThread
    <3>1. arg[KProc] \in Addr /\ arg[KProc] \in live /\ arg[KProc] # KProc
      BY <2>7, HeldStructure DEF MenuThread
    <3>2. /\ pc[arg[KProc]] = "none" /\ p_numthreads[arg[KProc]] = 0
          /\ ~p_exited[arg[KProc]] /\ p_sem[arg[KProc]] = 0
      BY <2>7 DEF MenuThread
    <3>3. \A u \in Addr : (pc[u] \in Holding /\ u # KProc) => arg[u] # arg[KProc]
      BY <2>7 DEF MenuThread
    <3>4. \A u \in Addr : pc[u] \in Reaping => arg[u] \in Addr /\ p_exited[arg[u]]
      BY HeldStructure
    <3>5. p_numthreads'[arg[KProc]] = 1
      BY <2>7, <3>1, <3>2, SMTT(30) DEF MenuThread
    <3>6. /\ pc'[KProc] \notin Making \cup Reaping \cup {"none", "exit_flag", "exit_V"}
          /\ pc'[arg[KProc]] \notin Making \cup Reaping \cup {"none", "exit_flag",
             "exit_V"}
          /\ \A a \in Addr \ {KProc,
             arg[KProc]} : pc'[a] = pc[a] /\ p_numthreads'[a] = p_numthreads[a]
          /\ p_numthreads'[KProc] = p_numthreads[KProc]
          /\ UNCHANGED <<live, arg, p_exited, p_sem>>
      BY <2>7, <3>1, SMT DEF MenuThread
    <3>7. pc[KProc] \notin {"none", "exit_flag", "exit_V"}
      BY <2>7 DEF MenuThread
    <3>8. \A a \in Addr : pc'[a] # "none" =>
            a \in live /\ p_numthreads'[a] = IF pc'[a] \in {"exit_flag",
               "exit_V"} THEN 0 ELSE 1
      BY <3>1, <3>5, <3>6, <3>7, SMTT(30)
    <3>9. ASSUME NEW a \in Addr, p_exited[a]
          PROVE  a # KProc /\ a # arg[KProc] /\ pc'[a] = pc[a] /\ p_numthreads'[a] = p_numthreads[a]
      BY <3>2, <3>6, <3>7, <3>9, SMT
    <3>10. ASSUME NEW u \in Addr, pc'[u] \in Making \cup Reaping
           PROVE  /\ pc'[u] = pc[u] /\ arg[u] \in Addr /\ pc'[arg[u]] = pc[arg[u]]
                  /\ p_numthreads'[arg[u]] = p_numthreads[arg[u]]
      <4>1. u # KProc /\ u # arg[KProc] /\ pc'[u] = pc[u]
        BY <3>6, <3>10
      <4>2. arg[u] \in Addr /\ pc[arg[u]] = "none"
        BY <3>10, <4>1, HeldStructure
      <4>3. arg[u] # arg[KProc] /\ arg[u] # KProc
        BY <3>3, <3>7, <3>10, <4>1, <4>2, SMTT(30)
      <4> QED
        BY <3>6, <4>1, <4>2, <4>3
    <3>11. \A a \in Addr \ live' : p_numthreads'[a] = 0 /\ ~p_exited'[a] /\ p_sem'[a] = 0
      BY <3>1, <3>6, <3>7, SMT
    <3>12. \A a \in Addr : p_exited'[a] => pc'[a] \in {"exit_V",
       "none"} /\ p_numthreads'[a] = 0
      BY <3>6, <3>9
    <3>13. \A a \in Addr :
             /\ p_sem'[a] > 0 => p_exited'[a] /\ pc'[a] = "none"
             /\ pc'[a] = "exit_V" => p_exited'[a]
      BY <3>6, <3>9, SMTT(30)
    <3>14. \A u \in Addr : pc'[u] \in Making =>
             /\ pc'[arg'[u]] = "none"
             /\ p_numthreads'[arg'[u]] = 0 /\ ~p_exited'[arg'[u]] /\ p_sem'[arg'[u]] = 0
      BY <3>6, <3>10, SMTT(30)
    <3>15. \A u \in Addr : pc'[u] \in Reaping => p_exited'[arg'[u]] /\ pc'[arg'[u]] = "none"
      BY <3>6, <3>10, SMTT(30)
    <3> QED
      BY <3>6, <3>8, <3>11, <3>12, <3>13, <3>14, <3>15, SMT
  <2>8. CASE MenuThreadFail
    BY <2>8, SMTT(30) DEF MenuThreadFail
  <2>9. CASE StartProgram(t)
    BY <2>9, SMTT(30) DEF StartProgram
  <2>10. CASE StartFail(t)
    BY <2>10, SMTT(30) DEF StartFail
  <2>11. CASE ExitRemthread(t)
    BY <2>11, SMTT(30) DEF ExitRemthread
  <2>12. CASE ExitFlag(t)
    BY <2>12, SMTT(30) DEF ExitFlag
  <2>13. CASE ExitV(t)
    <3>1. p_exited[t] /\ p_numthreads[t] = 0 /\ t \in live
      BY <2>13 DEF ExitV
    <3>2. /\ pc' = [pc EXCEPT ![t] = "none"]
          /\ \A a \in Addr \ {t} : p_sem'[a] = p_sem[a]
          /\ UNCHANGED <<live, p_numthreads, p_exited, arg>>
      BY <2>13, SMT DEF ExitV
    <3>3. \A u \in Addr : pc[u] \in Making => arg[u] # t
      BY <2>13 DEF ExitV
    <3> QED
      BY <2>13, <3>1, <3>2, <3>3, SMT
  <2>14. CASE WaitRefused(t)
    BY <2>14, SMTT(30) DEF WaitRefused
  <2>15. CASE WaitNohang(t)
    BY <2>15, SMTT(30) DEF WaitNohang
  <2>16. CASE WaitAllowed(t)
    BY <2>16, SMTT(30) DEF WaitAllowed
  <2>17. CASE WaitP(t)
    BY <2>17, SMTT(30) DEF WaitP
  <2>18. CASE ReapUnregister(t)
    BY <2>18, SMTT(30) DEF ReapUnregister, Unregister
  <2>19. CASE ReapFree(t)
    BY <2>19, SMTT(30) DEF ReapFree, Free
  <2>20. CASE WaitReturn(t)
    <3>1. pc' = [pc EXCEPT ![t] = "sysret"] /\ UNCHANGED <<live, field_vars, arg>>
      BY <2>20 DEF WaitReturn
    <3> QED
      BY <2>20, <3>1, SMT DEF WaitReturn
  <2>21. CASE UndoUnregister(t)
    BY <2>21, SMTT(30) DEF UndoUnregister, Unregister
  <2>22. CASE UndoFree(t)
    BY <2>22, SMTT(30) DEF UndoFree, Free
  <2>23. CASE ForkTooManyProcesses(t)
    BY <2>23, SMTT(30) DEF ForkTooManyProcesses
  <2>24. CASE CreateNoMemory(t)
    BY <2>24, SMTT(30) DEF CreateNoMemory
  <2>25. ASSUME NEW c \in Addr, CreateRegister(t, c) PROVE ThreadInv'
    BY <2>25, SMT DEF CreateRegister
  <2>26. ASSUME NEW c \in Addr, CreatePanic(t, c) PROVE ThreadInv'
    BY <2>26 DEF CreatePanic
  <2>27. ASSUME NEW code \in Code, Exit(t, code) PROVE ThreadInv'
    BY <2>27, SMTT(30) DEF Exit
  <2>28. CASE WaitBadArgument(t)
    BY <2>28, SMTT(30) DEF WaitBadArgument
  <2>29. ASSUME NEW pid \in 0..(MaxProc + 1), WaitNoSuchProcess(t, pid)
         PROVE ThreadInv'
    BY <2>29, SMTT(30) DEF WaitNoSuchProcess
  <2>30. ASSUME NEW pid \in 0..(MaxProc + 1), WaitSearch(t, pid)
         PROVE ThreadInv'
    BY <2>30, SMT DEF WaitSearch
  <2> QED
    BY <1>1, <2>1, <2>2, <2>3, <2>4, <2>5, <2>6, <2>7, <2>8, <2>9, <2>10, <2>11,
       <2>12, <2>13, <2>14, <2>15, <2>16, <2>17, <2>18, <2>19, <2>20, <2>21, <2>22,
       <2>23, <2>24, <2>25, <2>26, <2>27, <2>28, <2>29, <2>30 DEF KernelStep, Request
<1>2. CASE UNCHANGED vars
  BY <1>2 DEF vars
<1> QED
  BY <1>1, <1>2 DEF Next

\* What leaves statuses and structures in the making alone.
StatusQuiet ==
    /\ UNCHANGED <<p_status, exit_arg, live>>
    /\ \A u \in Addr : pc'[u] \in Making => pc[u] \in Making /\ arg'[u] = arg[u]

\* Such a step keeps what is known of statuses.
LEMMA StatusFrame == ASSUME StatusInv, StatusQuiet PROVE StatusInv'
BY SMT DEF StatusInv, StatusQuiet

\* p_status is the low byte of the argument of _exit.
LEMMA StatusStep == IInv /\ [Next]_vars => StatusInv'
<1> SUFFICES ASSUME IInv, [Next]_vars PROVE StatusInv'
    OBVIOUS
<1> USE KProcAssumption, NullAssumption DEF IInv, At, Goto, Return, table_vars,
   field_vars, local_vars, history_vars, TypeOK, Labels, Slots
<1>1. ASSUME NEW t \in Addr, KernelStep(t) \/ Request(t)
      PROVE  StatusInv'
  <2>1. CASE Resume(t)
    BY <2>1, StatusFrame DEF Resume, StatusQuiet, Making
  <2>2. CASE CreateInit(t)
    <3>1. arg[t] \in Addr /\ exit_arg[arg[t]] = 0
      BY <2>2, HeldStructure DEF CreateInit, StatusInv, Making
    <3>2. /\ p_status' = [p_status EXCEPT ![arg[t]] = 0]
          /\ \A u \in Addr : pc'[u] \in Making => pc[u] \in Making
          /\ UNCHANGED <<exit_arg, live, arg>>
      BY <2>2 DEF CreateInit, Making
    <3> QED
      BY <3>1, <3>2, SMT DEF StatusInv
  <2>3. CASE ForkFail(t)
    BY <2>3, StatusFrame DEF ForkFail, StatusQuiet, Making
  <2>4. CASE ForkLink(t)
    BY <2>4, StatusFrame DEF ForkLink, StatusQuiet, Making
  <2>5. CASE ForkThread(t)
    BY <2>5, StatusFrame, SMT DEF ForkThread, StatusQuiet, Making
  <2>6. CASE ForkThreadFail(t)
    BY <2>6, StatusFrame, SMT DEF ForkThreadFail, StatusQuiet, Making
  <2>7. CASE MenuThread
    BY <2>7, StatusFrame DEF MenuThread, StatusQuiet, Making
  <2>8. CASE MenuThreadFail
    BY <2>8, StatusFrame, SMT DEF MenuThreadFail, StatusQuiet, Making
  <2>9. CASE StartProgram(t)
    BY <2>9, StatusFrame DEF StartProgram, StatusQuiet, Making
  <2>10. CASE StartFail(t)
    BY <2>10, StatusFrame, SMT DEF StartFail, StatusQuiet, Making
  <2>11. CASE ExitRemthread(t)
    BY <2>11, StatusFrame DEF ExitRemthread, StatusQuiet, Making
  <2>12. CASE ExitFlag(t)
    BY <2>12, StatusFrame DEF ExitFlag, StatusQuiet, Making
  <2>13. CASE ExitV(t)
    BY <2>13, StatusFrame DEF ExitV, StatusQuiet, Making
  <2>14. CASE WaitRefused(t)
    BY <2>14, StatusFrame, SMT DEF WaitRefused, StatusQuiet, Making
  <2>15. CASE WaitNohang(t)
    BY <2>15, StatusFrame, SMT DEF WaitNohang, StatusQuiet, Making
  <2>16. CASE WaitAllowed(t)
    BY <2>16, StatusFrame, SMT DEF WaitAllowed, StatusQuiet, Making
  <2>17. CASE WaitP(t)
    BY <2>17, StatusFrame DEF WaitP, StatusQuiet, Making
  <2>18. CASE ReapUnregister(t)
    BY <2>18, StatusFrame DEF ReapUnregister, StatusQuiet, Making, Unregister
  <2>19. CASE ReapFree(t)
    <3>1. arg[t] \in Addr
      BY <2>19, HeldStructure DEF ReapFree
    <3>2. /\ p_status' = [p_status EXCEPT ![arg[t]] = 0]
          /\ exit_arg' = [exit_arg EXCEPT ![arg[t]] = 0]
          /\ \A u \in Addr : pc'[u] \in Making => pc[u] \in Making
          /\ live' = live \ {arg[t]} /\ UNCHANGED arg
      BY <2>19 DEF ReapFree, Free, Making
    <3>3. \A u \in Addr : pc[u] \in Making => arg[u] \in Addr
      BY HeldStructure DEF Making
    <3> QED
      BY <3>1, <3>2, <3>3, SMT DEF StatusInv
  <2>20. CASE WaitReturn(t)
    BY <2>20, StatusFrame, SMT DEF WaitReturn, StatusQuiet, Making
  <2>21. CASE UndoUnregister(t)
    BY <2>21, StatusFrame DEF UndoUnregister, StatusQuiet, Making, Unregister
  <2>22. CASE UndoFree(t)
    <3>1. arg[t] \in Addr
      BY <2>22, HeldStructure DEF UndoFree
    <3>2. /\ p_status' = [p_status EXCEPT ![arg[t]] = 0]
          /\ exit_arg' = [exit_arg EXCEPT ![arg[t]] = 0]
          /\ \A u \in Addr : pc'[u] \in Making => pc[u] \in Making
          /\ live' = live \ {arg[t]} /\ UNCHANGED arg
      BY <2>22, SMT DEF UndoFree, Free, Making
    <3>3. \A u \in Addr : pc[u] \in Making => arg[u] \in Addr
      BY HeldStructure DEF Making
    <3> QED
      BY <3>1, <3>2, <3>3, SMT DEF StatusInv
  <2>23. CASE ForkTooManyProcesses(t)
    BY <2>23, StatusFrame, SMTT(30) DEF ForkTooManyProcesses, StatusQuiet, Making
  <2>24. CASE CreateNoMemory(t)
    BY <2>24, StatusFrame, SMTT(30) DEF CreateNoMemory, StatusQuiet, Making
  <2>25. ASSUME NEW c \in Addr, CreateRegister(t, c) PROVE StatusInv'
    <3>1. /\ \A u \in Addr : pc'[u] \in Making => u = t \/ (pc[u] \in Making /\ arg'[u] = arg[u])
          /\ arg'[t] = c /\ c \notin live /\ live' = live \cup {c}
          /\ UNCHANGED <<p_status, exit_arg>>
      BY <2>25, SMT DEF CreateRegister, Making
    <3> QED
      BY <3>1, SMTT(30) DEF StatusInv
  <2>26. ASSUME NEW c \in Addr, CreatePanic(t, c) PROVE StatusInv'
    BY <2>26, StatusFrame DEF CreatePanic, StatusQuiet, Making
  <2>27. ASSUME NEW code \in Code, Exit(t, code) PROVE StatusInv'
    <3>1. /\ p_status' = [p_status EXCEPT ![t] = code % 256]
          /\ exit_arg' = [exit_arg EXCEPT ![t] = code]
          /\ \A u \in Addr : pc'[u] \in Making => pc[u] \in Making
          /\ UNCHANGED <<live, arg>>
      BY <2>27 DEF Exit, Making
    <3>2. t \in live /\ \A u \in Addr : pc[u] \in Making => arg[u] # t
      BY <2>27 DEF Exit, ThreadInv, Making
    <3>3. \A a \in Addr : p_status'[a] = exit_arg'[a] % 256
      BY <3>1, SMT DEF StatusInv
    <3>4. \A a \in Addr \ {t} : exit_arg'[a] = exit_arg[a]
      BY <3>1
    <3>5. \A u \in Addr : pc[u] \in Making => arg[u] \in Addr
      BY HeldStructure DEF Making
    <3> QED
      BY <3>1, <3>2, <3>3, <3>4, <3>5, SMT DEF StatusInv
  <2>28. CASE WaitBadArgument(t)
    BY <2>28, StatusFrame DEF WaitBadArgument, StatusQuiet, Making
  <2>29. ASSUME NEW pid \in 0..(MaxProc + 1), WaitNoSuchProcess(t, pid)
         PROVE StatusInv'
    BY <2>29, StatusFrame DEF WaitNoSuchProcess, StatusQuiet, Making
  <2>30. ASSUME NEW pid \in 0..(MaxProc + 1), WaitSearch(t, pid)
         PROVE StatusInv'
    BY <2>30, StatusFrame DEF WaitSearch, StatusQuiet, Making
  <2> QED
    BY <1>1, <2>1, <2>2, <2>3, <2>4, <2>5, <2>6, <2>7, <2>8, <2>9, <2>10, <2>11,
       <2>12, <2>13, <2>14, <2>15, <2>16, <2>17, <2>18, <2>19, <2>20, <2>21, <2>22,
       <2>23, <2>24, <2>25, <2>26, <2>27, <2>28, <2>29, <2>30 DEF KernelStep, Request
<1>2. CASE UNCHANGED vars
  BY <1>2 DEF vars, StatusInv
<1> QED
  BY <1>1, <1>2 DEF Next

-----------------------------------------------------------------------------
(***************************************************************************)
(* The theorems.                                                           *)
(***************************************************************************)
\* The kernel boots into the invariant.
LEMMA InitInv == Init => IInv
<1> SUFFICES ASSUME Init PROVE IInv
  OBVIOUS
<1> USE KProcAssumption, NullAssumption, MaxProcAssumption DEF Init
<1>1. 1 \in Pids /\ 1 \in 0..MaxProc /\ 0 \in 0..MaxProc
  BY SMT DEF Pids
<1>2. TypeOK
  <2>1. ret \in [Addr -> Results]
    BY ResultTypes
  <2>2. table \in [Pids -> Slots] /\ last_i \in Pids /\ p_pid \in [Addr -> 0..MaxProc]
    BY <1>1 DEF Slots
  <2>3. pc \in [Addr -> Labels] /\ arg \in [Addr -> Slots]
    BY DEF Labels, Slots
  <2>4. /\ live \subseteq Addr /\ panicked \in BOOLEAN
        /\ p_exited \in [Addr -> BOOLEAN]
        /\ p_parent \in [Addr -> Addr \cup {NULL, Garbage}]
        /\ p_children \in [Addr -> SUBSET Addr] /\ owed \in [Addr -> SUBSET Pids]
    OBVIOUS
  <2>5. /\ p_status \in [Addr -> 0..255] /\ p_sem \in [Addr -> Nat]
        /\ p_numthreads \in [Addr -> Int] /\ want \in [Addr -> Int]
        /\ exit_arg \in [Addr -> Int]
    BY SMT
  <2> QED
    BY <2>1, <2>2, <2>3, <2>4, <2>5 DEF TypeOK
<1>3. TableInv
  BY <1>1 DEF TableInv, Freeing
<1>4. HoldInv /\ ThreadInv /\ ParentInv
  BY SMT DEF HoldInv, ThreadInv, ParentInv, Holding, Waiting, Making, Reaping
<1>5. StatusInv /\ OwedInv
  BY SMT DEF StatusInv, OwedInv, Making
<1> QED
  BY <1>2, <1>3, <1>4, <1>5 DEF IInv

\* Every step keeps the whole invariant.
LEMMA StepInv == IInv /\ [Next]_vars => IInv'
BY TypeStep, TableStep, HoldStep, ParentStep, ThreadStep, StatusStep, OwedStep DEF IInv

\* The inductive invariant holds throughout every run of the kernel.
THEOREM Invariance == Spec => []IInv
BY InitInv, StepInv, PTL DEF Spec

\* The state of the process subsystem keeps its types; p_status stays a byte and
\* a semaphore never goes below zero.
THEOREM TypeCorrect == Spec => []TypeOK
<1>1. IInv => TypeOK
  BY DEF IInv
<1> QED
  BY <1>1, Invariance, PTL

\* proc_init_waitpid and proc_end_waitpid keep processTable and the structures
\* in agreement: no shared pids, no pid that leads to freed memory.
THEOREM TableCorrect == Spec => []TableConsistent
<1>1. IInv => TableConsistent
  BY DEF IInv, TableInv, TableConsistent
<1> QED
  BY <1>1, Invariance, PTL

\* The structure a thread in proc_wait uses without any lock stays the one it
\* asked for, and nobody else waits for it or destroys it.
THEOREM WaitersSafe == Spec => []WaitTargetStable
<1>1. IInv => WaitTargetStable
  BY DEF IInv, HoldInv, ParentInv, WaitTargetStable, Holding
<1> QED
  BY <1>1, Invariance, PTL

\* proc_destroy is applied only to processes that have no thread.
THEOREM DestroysOnlyTheDead == Spec => []OnlyDeadDestroyed
<1>1. IInv => OnlyDeadDestroyed
  <2> SUFFICES ASSUME IInv PROVE OnlyDeadDestroyed
    OBVIOUS
  <2>1. \A t \in Addr : pc[t] \in Reaping =>
          p_exited[arg[t]] /\ p_numthreads[arg[t]] = 0 /\ pc[arg[t]] = "none"
    BY HeldStructure DEF IInv, ThreadInv, Reaping
  <2>2. \A t \in Addr : pc[t] \in {"undo_unregister", "undo_free"} =>
          p_numthreads[arg[t]] = 0 /\ pc[arg[t]] = "none"
    BY DEF IInv, ThreadInv, Making
  <2> QED
    BY <2>1, <2>2 DEF IInv, ThreadInv, OnlyDeadDestroyed, Reaping
<1> QED
  BY <1>1, Invariance, PTL

\* The allocator recycles no pid that a parent may still wait for.
THEOREM PidsKept == Spec => []OwedPidsKept
<1>1. IInv => OwedPidsKept
  BY DEF IInv, TypeOK, OwedInv, OwedPidsKept
<1> QED
  BY <1>1, Invariance, PTL

\* Only P on p_sem takes a thread from proc_wait's semaphore on to proc_destroy.
LEMMA OnlyPReaps ==
    ASSUME IInv, NEW t \in Addr, NEW u \in Addr, KernelStep(u) \/ Request(u),
           pc[t] = "wait_P", pc'[t] = "reap_unregister"
    PROVE  WaitP(t)
<1> USE KProcAssumption DEF IInv, TypeOK, Labels, At, Goto, Return
<1>1. CASE Resume(u)
  BY <1>1 DEF Resume
<1>2. CASE CreateInit(u)
  BY <1>2 DEF CreateInit
<1>3. CASE ForkFail(u)
  BY <1>3 DEF ForkFail
<1>4. CASE ForkLink(u)
  BY <1>4 DEF ForkLink
<1>5. CASE ForkThread(u)
  BY <1>5 DEF ForkThread
<1>6. CASE ForkThreadFail(u)
  BY <1>6 DEF ForkThreadFail
<1>7. CASE MenuThread
  BY <1>7 DEF MenuThread
<1>8. CASE MenuThreadFail
  BY <1>8 DEF MenuThreadFail
<1>9. CASE StartProgram(u)
  BY <1>9 DEF StartProgram
<1>10. CASE StartFail(u)
  BY <1>10 DEF StartFail
<1>11. CASE ExitRemthread(u)
  BY <1>11 DEF ExitRemthread
<1>12. CASE ExitFlag(u)
  BY <1>12 DEF ExitFlag
<1>13. CASE ExitV(u)
  BY <1>13 DEF ExitV
<1>14. CASE WaitRefused(u)
  BY <1>14 DEF WaitRefused
<1>15. CASE WaitNohang(u)
  BY <1>15 DEF WaitNohang
<1>16. CASE WaitAllowed(u)
  BY <1>16 DEF WaitAllowed
<1>17. CASE WaitP(u)
  BY <1>17 DEF WaitP
<1>18. CASE ReapUnregister(u)
  BY <1>18 DEF ReapUnregister
<1>19. CASE ReapFree(u)
  BY <1>19 DEF ReapFree
<1>20. CASE WaitReturn(u)
  BY <1>20 DEF WaitReturn
<1>21. CASE UndoUnregister(u)
  BY <1>21 DEF UndoUnregister
<1>22. CASE UndoFree(u)
  BY <1>22 DEF UndoFree
<1>23. CASE ForkTooManyProcesses(u)
  BY <1>23 DEF ForkTooManyProcesses
<1>24. CASE CreateNoMemory(u)
  BY <1>24 DEF CreateNoMemory
<1>25. ASSUME NEW c \in Addr, CreateRegister(u, c) PROVE WaitP(t)
  BY <1>25 DEF CreateRegister
<1>26. ASSUME NEW c \in Addr, CreatePanic(u, c) PROVE WaitP(t)
  BY <1>26 DEF CreatePanic
<1>27. ASSUME NEW code \in Code, Exit(u, code) PROVE WaitP(t)
  BY <1>27 DEF Exit
<1>28. CASE WaitBadArgument(u)
  BY <1>28 DEF WaitBadArgument
<1>29. ASSUME NEW pid \in 0..(MaxProc + 1), WaitNoSuchProcess(u, pid)
       PROVE WaitP(t)
  BY <1>29 DEF WaitNoSuchProcess
<1>30. ASSUME NEW pid \in 0..(MaxProc + 1), WaitSearch(u, pid) PROVE WaitP(t)
  BY <1>30 DEF WaitSearch
<1> QED
  BY <1>1, <1>2, <1>3, <1>4, <1>5, <1>6, <1>7, <1>8, <1>9, <1>10, <1>11, <1>12,
     <1>13, <1>14, <1>15, <1>16, <1>17, <1>18, <1>19, <1>20, <1>21, <1>22, <1>23,
     <1>24, <1>25, <1>26, <1>27, <1>28, <1>29, <1>30 DEF KernelStep, Request

\* A waiter obtains the low byte of the exit code of the process it named.
THEOREM StatusHandedOver == Spec => StatusFaithful
<1> DEFINE Step ==
      \A t \in Addr : (pc[t] = "wait_P" /\ pc'[t] = "reap_unregister") =>
            LET s == ret'[t].status IN
            /\ WIFEXITED(s)
            /\ WEXITSTATUS(s) = exit_arg[table[want[t]]] % 256
<1>1. IInv /\ [Next]_vars => [Step]_vars
  <2> SUFFICES ASSUME IInv, Next, NEW t \in Addr, pc[t] = "wait_P",
     pc'[t] = "reap_unregister"
               PROVE  /\ WIFEXITED(ret'[t].status)
                      /\ WEXITSTATUS(ret'[t].status) = exit_arg[table[want[t]]] % 256
    BY DEF vars
  <2>1. WaitP(t)
    BY OnlyPReaps DEF Next
  <2>2. arg[t] \in Addr /\ table[want[t]] = arg[t]
    BY HeldStructure, HeldRegistered
    DEF IInv, ParentInv, Holding, Waiting, Making, Freeing
  <2>3. p_status[arg[t]] = exit_arg[arg[t]] % 256 /\ p_status[arg[t]] \in 0..255
    BY <2>2 DEF IInv, StatusInv, TypeOK
  <2>4. ret'[t].status = MKWAIT_EXIT(p_status[arg[t]])
    BY <2>1 DEF WaitP, Result, IInv, TypeOK
  <2>5. \A n \in 0..255 : WIFEXITED(MKWAIT_EXIT(n)) /\ WEXITSTATUS(MKWAIT_EXIT(n)) = n
    BY SMT DEF WIFEXITED, WEXITSTATUS, MKWAIT_EXIT
  <2> QED
    BY <2>2, <2>3, <2>4, <2>5
<1> QED
  BY <1>1, Invariance, PTL DEF Spec, StatusFaithful
=============================================================================
