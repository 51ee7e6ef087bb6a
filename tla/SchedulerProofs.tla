-------------------------- MODULE SchedulerProofs --------------------------
(***************************************************************************)
(* Theorems about Dispatcher and Scheduler, for any number of threads,     *)
(* closures and events.                                                    *)
(*                                                                         *)
(* Of the dispatcher: the types, the mutex and the wake-ups; Dispatcher    *)
(* implements TaskService (every step of the threads is a step of the      *)
(* service on the backlog, or leaves it alone); and the orderly shutdown   *)
(* loses nothing.  NothingLost is not inductive: it needs to know where    *)
(* every accepted closure is (PlaceInv) and in which order the thread      *)
(* state and the list change on the way down (ShutdownInv).                *)
(*                                                                         *)
(* The scheduler uses the dispatcher only through addTask, so SchedSpec    *)
(* implies Spec and every theorem about the dispatcher holds of both; and  *)
(* an event is, from addEvent to the dispatcher, in exactly one of the     *)
(* places it passes through (OnePlace), which makes it impossible to lose  *)
(* one or to deliver it twice.                                             *)
(***************************************************************************)
EXTENDS Scheduler, SequenceTheorems, TLAPS

-----------------------------------------------------------------------------
(* Types, the mutex and the condition variable.                            *)

BaseInv == TypeOK /\ CallInv /\ NoLostWakeup

LEMMA InitBase == Init => BaseInv
<1> SUFFICES ASSUME Init PROVE BaseInv
  OBVIOUS
<1>1. TypeOK
  <2>1. taskList \in Seq(Entry) /\ tmpTaskList \in Seq(Entry)
    BY DEF Init
  <2> QED
    BY <2>1 DEF Init, TypeOK, States, DispPcs, CallPcs, Fates
<1>2. CallInv
  BY DispatcherAssumption DEF Init, CallInv, Caller, Entry
<1>3. NoLostWakeup
  BY DEF Init, NoLostWakeup
<1> QED
  BY <1>1, <1>2, <1>3 DEF BaseInv

\* A closure handed to addTask: every caller, QuitPost included.
LEMMA PostedIsTask == Posted \subseteq Task /\ QuitHalt \in Task /\ Task \subseteq Entry
                      /\ Disp \in Caller /\ None \notin Caller /\ None \notin Entry
                      /\ Term \in Entry /\ Term \notin Task
BY DispatcherAssumption DEF Task, Entry, Caller

LEMMA NextType == BaseInv /\ [Next]_vars => TypeOK'
<1> SUFFICES ASSUME TypeOK, CallInv, [Next]_vars PROVE TypeOK'
  BY DEF BaseInv
<1> USE PostedIsTask DEF TypeOK, States, DispPcs, CallPcs, Fates
<1>1. ASSUME NEW t \in Caller, Post(t) PROVE TypeOK'
  <2>1. PICK k \in Task : AddTaskLock(t, k)
    BY <1>1 DEF Post
  <2> QED
    BY <2>1 DEF AddTaskLock, queueVars
<1>2. ASSUME NEW t \in Caller, AddTaskPush(t) PROVE TypeOK'
  <2>1. callArg[t] \in Entry
    BY <1>2 DEF AddTaskPush, CallInv
  <2>2. taskList' \in Seq(Entry)
    BY <1>2, <2>1 DEF AddTaskPush, PushedTask
  <2> QED
    BY <1>2, <2>2 DEF AddTaskPush
<1>3. ASSUME NEW t \in Caller, AddTaskNotify(t) PROVE TypeOK'
  BY <1>3 DEF AddTaskNotify, queueVars
<1>4. CASE LoopTest BY <1>4 DEF LoopTest, queueVars, callVars
<1>5. CASE LoopLock
  <2>1. CASE taskList = <<>>
    BY <1>5, <2>1 DEF LoopLock, queueVars, callVars
  <2>2. CASE taskList # <<>>
    BY <1>5, <2>2 DEF LoopLock, SwapLists, callVars
  <2> QED BY <2>1, <2>2
<1>6. CASE LoopRelock BY <1>6 DEF LoopRelock, SwapLists, callVars
<1>7. CASE BatchEnd BY <1>7 DEF BatchEnd, queueVars, callVars
<1>8. CASE BatchTake
  <2>1. Head(tmpTaskList) \in Entry /\ Tail(tmpTaskList) \in Seq(Entry)
    BY <1>8 DEF BatchTake
  <2> QED BY <1>8, <2>1 DEF BatchTake, callVars
<1>9. CASE BatchExpire
  <2>1. Tail(tmpTaskList) \in Seq(Entry)
    BY <1>9 DEF BatchExpire
  <2>2. status' \in [Task -> Fates]
    BY <1>9 DEF BatchExpire
  <2> QED BY <1>9, <2>1, <2>2 DEF BatchExpire, callVars
<1>10. CASE RunPlain BY <1>10 DEF RunPlain, Leave, Done, callVars
<1>11. CASE QuitBegin BY <1>11 DEF QuitBegin, queueVars, callVars
<1>12. CASE QuitPost
  <2>1. status' \in [Task -> Fates]
    BY <1>12 DEF QuitPost
  <2> QED BY <1>12, <2>1 DEF QuitPost, queueVars
<1>13. CASE QuitStop
  BY <1>13 DEF QuitStop, StopDispatcher, Done, queueVars, callVars
<1>14. CASE RunHalt
  <2>1. taskList' \in Seq(Entry)
    BY <1>14 DEF RunHalt, AppendTerm
  <2> QED
    BY <1>14, <2>1 DEF RunHalt, Leave, Done, callVars
<1>15. CASE RunTerm BY <1>15 DEF RunTerm, TermState, Leave, callVars
<1>16. CASE SpuriousWakeup BY <1>16 DEF SpuriousWakeup, queueVars, callVars
<1>17. CASE UNCHANGED vars BY <1>17 DEF vars
<1> QED
  BY <1>1, <1>2, <1>3, <1>4, <1>5, <1>6, <1>7, <1>8, <1>9, <1>10, <1>11,
     <1>12, <1>13, <1>14, <1>15, <1>16, <1>17 DEF Next, Worker

\* The mutex has one holder, and the dispatcher calls only from a closure.
LEMMA NextCall == BaseInv /\ [Next]_vars => CallInv'
<1> SUFFICES ASSUME TypeOK, CallInv, [Next]_vars PROVE CallInv'
  BY DEF BaseInv
<1> USE PostedIsTask DEF TypeOK, CallPcs, DispPcs, CallInv
<1>1. ASSUME NEW t \in Caller, Post(t) PROVE CallInv'
  <2>1. PICK k \in Task : AddTaskLock(t, k)
    BY <1>1 DEF Post
  <2> QED
    BY <2>1 DEF AddTaskLock, MayCall, queueVars
<1>2. ASSUME NEW t \in Caller, AddTaskPush(t) PROVE CallInv'
  BY <1>2 DEF AddTaskPush
<1>3. ASSUME NEW t \in Caller, AddTaskNotify(t) PROVE CallInv'
  BY <1>3 DEF AddTaskNotify, queueVars
<1>4. CASE LoopTest BY <1>4 DEF LoopTest, callVars, queueVars
<1>5. CASE LoopLock BY <1>5 DEF LoopLock, callVars, queueVars
<1>6. CASE LoopRelock BY <1>6 DEF LoopRelock, callVars
<1>7. CASE BatchEnd BY <1>7 DEF BatchEnd, callVars, queueVars
<1>8. CASE BatchTake
  <2>1. Head(tmpTaskList) \in Entry
    BY <1>8 DEF BatchTake
  <2> QED BY <1>8, <2>1 DEF BatchTake, callVars
<1>9. CASE BatchExpire BY <1>9 DEF BatchExpire, callVars
<1>10. CASE RunPlain BY <1>10 DEF RunPlain, Leave, callVars
<1>11. CASE QuitBegin BY <1>11 DEF QuitBegin, callVars, queueVars
<1>12. CASE QuitPost BY <1>12 DEF QuitPost, queueVars
<1>13. CASE QuitStop BY <1>13 DEF QuitStop, callVars, queueVars
<1>14. CASE RunHalt BY <1>14 DEF RunHalt, Leave, callVars
<1>15. CASE RunTerm BY <1>15 DEF RunTerm, Leave, callVars
<1>16. CASE SpuriousWakeup BY <1>16 DEF SpuriousWakeup, callVars, queueVars
<1>17. CASE UNCHANGED vars BY <1>17 DEF vars
<1> QED
  BY <1>1, <1>2, <1>3, <1>4, <1>5, <1>6, <1>7, <1>8, <1>9, <1>10, <1>11,
     <1>12, <1>13, <1>14, <1>15, <1>16, <1>17 DEF Next, Worker

\* A push to an empty list owes a signal, and the debt is paid by the wake-up.
LEMMA NextWakeup == BaseInv /\ [Next]_vars => NoLostWakeup'
<1> SUFFICES ASSUME TypeOK, CallInv, NoLostWakeup, [Next]_vars,
                    dispPc' = "waiting", taskList' # <<>>
             PROVE  \E t \in Caller : callPc'[t] = "notify"
  BY DEF BaseInv, NoLostWakeup
<1> USE PostedIsTask DEF TypeOK, CallPcs
<1>1. ASSUME NEW t \in Caller, Post(t)
      PROVE  \E u \in Caller : callPc'[u] = "notify"
  <2>1. PICK k \in Task : AddTaskLock(t, k)
    BY <1>1 DEF Post
  <2>2. PICK u \in Caller : callPc[u] = "notify"
    BY <2>1 DEF AddTaskLock, queueVars, NoLostWakeup
  <2>3. callPc'[u] = "notify"
    BY <2>1, <2>2 DEF AddTaskLock, MayCall
  <2> QED BY <2>3
<1>2. ASSUME NEW t \in Caller, AddTaskPush(t)
      PROVE  \E u \in Caller : callPc'[u] = "notify"
  <2>1. CASE taskList = <<>>
    BY <1>2, <2>1 DEF AddTaskPush, DoSignal
  <2>2. CASE taskList # <<>>
    <3>1. PICK u \in Caller : callPc[u] = "notify"
      BY <1>2, <2>2 DEF AddTaskPush, NoLostWakeup
    <3>2. callPc'[u] = "notify"
      BY <1>2, <3>1 DEF AddTaskPush
    <3> QED BY <3>2
  <2> QED BY <2>1, <2>2
<1>3. ASSUME NEW t \in Caller, AddTaskNotify(t) PROVE FALSE
  BY <1>3 DEF AddTaskNotify, DispPcs
<1>4. CASE Worker
  BY <1>4 DEF Worker, LoopTest, LoopLock, LoopRelock, BatchEnd, BatchTake,
     BatchExpire, RunPlain, QuitBegin, QuitPost, QuitStop, RunHalt, RunTerm,
     Leave, queueVars, callVars
<1>5. CASE SpuriousWakeup BY <1>5 DEF SpuriousWakeup
<1>6. CASE UNCHANGED vars BY <1>6 DEF vars, NoLostWakeup
<1> QED
  BY <1>1, <1>2, <1>3, <1>4, <1>5, <1>6 DEF Next

LEMMA BaseCorrect == Spec => []BaseInv
<1>1. BaseInv /\ [Next]_vars => BaseInv'
  BY NextType, NextCall, NextWakeup DEF BaseInv
<1> QED
  BY InitBase, <1>1, PTL DEF Spec

\* The dispatcher's fields keep their types, whatever the threads post.
THEOREM TypeCorrect == Spec => []TypeOK
BY BaseCorrect, PTL DEF BaseInv

\* addTask's signal after the unlock, for the first closure only, never
\* leaves the worker asleep on closures.
THEOREM WakeupCorrect == Spec => []NoLostWakeup
BY BaseCorrect, PTL DEF BaseInv

-----------------------------------------------------------------------------
(* What a step does to the backlog.                                        *)

\* The lists and the closure in flight are sequences of entries.
LEMMA BacklogType ==
    ASSUME TypeOK, CallInv
    PROVE  /\ taskList \in Seq(Entry) /\ tmpTaskList \in Seq(Entry)
           /\ InFlight \in Seq(Entry)
           /\ Backlog \in Seq(Entry)
<1>1. InFlight \in Seq(Entry)
  <2>1. CASE taskLock = None
    BY <2>1 DEF InFlight
  <2>2. CASE taskLock # None
    <3>1. callArg[taskLock] \in Entry
      BY <2>2, PostedIsTask DEF TypeOK, CallInv
    <3> QED BY <2>2, <3>1 DEF InFlight
  <2> QED BY <2>1, <2>2
<1> QED
  BY <1>1, ConcatProperties DEF TypeOK, Backlog

\* Without a call in flight the backlog is the two lists.
LEMMA BacklogUnlocked ==
    ASSUME TypeOK, CallInv, taskLock = None
    PROVE  Backlog = tmpTaskList \o taskList
<1>1. tmpTaskList \o taskList \in Seq(Entry)
  BY ConcatProperties DEF TypeOK
<1> QED
  BY <1>1, ConcatEmptySeq DEF Backlog, InFlight

\* A closure accepted by a caller joins the end of the backlog at once.
LEMMA BacklogAccept ==
    ASSUME TypeOK, CallInv, NEW t \in Caller, NEW k \in Task,
           taskLock = None, taskLock' = t, callArg'[t] = k, UNCHANGED queueVars
    PROVE  Backlog' = Append(Backlog, k)
<1>1. Backlog' = tmpTaskList \o taskList \o <<k>>
  BY PostedIsTask DEF Backlog, InFlight, queueVars
<1>2. tmpTaskList \o taskList \in Seq(Entry) /\ k \in Entry
  BY ConcatProperties, PostedIsTask DEF TypeOK
<1> QED
  BY <1>1, <1>2, BacklogUnlocked, AppendIsConcat

\* An entry appended to the shared list, with the mutex released, is at the
\* end of the backlog.
LEMMA BacklogAppend ==
    ASSUME TypeOK, CallInv, NEW e \in Entry, taskLock' = None,
           taskList' = Append(taskList, e), UNCHANGED tmpTaskList
    PROVE  Backlog' = Append(tmpTaskList \o taskList, e)
<1>0. taskList \in Seq(Entry) /\ tmpTaskList \in Seq(Entry) /\ <<e>> \in Seq(Entry)
  BY DEF TypeOK
<1>1. Append(taskList, e) = taskList \o <<e>> /\ taskList \o <<e>> \in Seq(Entry)
  BY <1>0, AppendIsConcat, ConcatProperties
<1>2. tmpTaskList \o (taskList \o <<e>>) \in Seq(Entry)
  BY <1>0, <1>1, ConcatProperties
<1>3. Backlog' = tmpTaskList \o (taskList \o <<e>>)
  BY <1>1, <1>2, ConcatEmptySeq DEF Backlog, InFlight
<1>4. tmpTaskList \o (taskList \o <<e>>) = (tmpTaskList \o taskList) \o <<e>>
  BY <1>0, ConcatAssociative
<1>5. Append(tmpTaskList \o taskList, e) = (tmpTaskList \o taskList) \o <<e>>
  BY <1>0, ConcatProperties, AppendIsConcat
<1> QED
  BY <1>3, <1>4, <1>5

\* Pushing what was in flight moves nothing.
LEMMA BacklogPush ==
    ASSUME TypeOK, CallInv, NEW t \in Caller, AddTaskPush(t)
    PROVE  Backlog' = Backlog
<1>1. taskLock = t /\ callArg[t] \in Entry
  BY PostedIsTask DEF AddTaskPush, CallInv
<1>2. Backlog' = Append(tmpTaskList \o taskList, callArg[t])
  BY <1>1, BacklogAppend DEF AddTaskPush, PushedTask
<1>3. Backlog = tmpTaskList \o taskList \o <<callArg[t]>>
  BY <1>1, PostedIsTask DEF Backlog, InFlight
<1> QED
  BY <1>1, <1>2, <1>3, ConcatProperties, AppendIsConcat DEF TypeOK

\* Nor does the swap of an empty batch with the shared list.
LEMMA BacklogSwap ==
    ASSUME TypeOK, CallInv, tmpTaskList = <<>>, SwapLists,
           UNCHANGED <<taskLock, callArg>>
    PROVE  Backlog' = Backlog
<1>1. tmpTaskList \o taskList = taskList /\ tmpTaskList' \o taskList' = taskList
  BY ConcatEmptySeq DEF TypeOK, SwapLists
<1> QED
  BY <1>1 DEF Backlog, InFlight

\* The head of the batch is the head of the backlog.
LEMMA BacklogTake ==
    ASSUME TypeOK, CallInv, tmpTaskList # <<>>,
           tmpTaskList' = Tail(tmpTaskList), UNCHANGED <<taskList, taskLock, callArg>>
    PROVE  /\ Backlog # <<>>
           /\ Head(Backlog) = Head(tmpTaskList)
           /\ Backlog' = Tail(Backlog)
<1> DEFINE rest == taskList \o InFlight
<1>1. /\ tmpTaskList \in Seq(Entry) /\ taskList \in Seq(Entry)
      /\ InFlight \in Seq(Entry) /\ rest \in Seq(Entry)
      /\ Tail(tmpTaskList) \in Seq(Entry)
  BY BacklogType, ConcatProperties, HeadTailProperties
<1>2. Backlog = tmpTaskList \o rest
  BY <1>1, ConcatAssociative DEF Backlog
<1>3. Backlog' = Tail(tmpTaskList) \o rest
  <2>1. Backlog' = Tail(tmpTaskList) \o taskList \o InFlight
    BY DEF Backlog, InFlight
  <2>2. \A x, y, z \in Seq(Entry) : (x \o y) \o z = x \o (y \o z)
    BY ConcatAssociative
  <2>3. Tail(tmpTaskList) \o taskList \o InFlight
          = Tail(tmpTaskList) \o (taskList \o InFlight)
    <3> HIDE DEF rest
    <3> QED BY <1>1, <2>2
  <2> QED
    BY <2>1, <2>3
<1>4. ASSUME NEW s \in Seq(Entry), NEW u \in Seq(Entry), s # <<>>
      PROVE  /\ s \o u # <<>>
             /\ Head(s \o u) = Head(s)
             /\ Tail(s \o u) = Tail(s) \o u
  <2>1. /\ s \o u \in Seq(Entry) /\ Len(s \o u) = Len(s) + Len(u)
        /\ Len(s) \in Nat \ {0} /\ Len(u) \in Nat
    BY <1>4, ConcatProperties, EmptySeq
  <2>2. s \o u # <<>> /\ Head(s \o u) = Head(s)
    BY <2>1, ConcatProperties
  <2>3. /\ Tail(s \o u) \in Seq(Entry) /\ Tail(s) \in Seq(Entry)
        /\ Tail(s) \o u \in Seq(Entry)
    BY <1>4, <2>1, <2>2, HeadTailProperties, ConcatProperties
  <2>4. Len(Tail(s \o u)) = Len(s) + Len(u) - 1 /\ Len(Tail(s)) = Len(s) - 1
    BY <1>4, <2>1, <2>2, HeadTailProperties
  <2>5. Len(Tail(s) \o u) = Len(s) + Len(u) - 1
    BY <2>1, <2>3, <2>4, ConcatProperties
  <2>6. ASSUME NEW i \in 1 .. Len(s) + Len(u) - 1
        PROVE  Tail(s \o u)[i] = (Tail(s) \o u)[i]
    <3>1. Tail(s \o u)[i] = (s \o u)[i + 1]
      BY <2>1, <2>2, <2>4, HeadTailProperties
    <3>2. (s \o u)[i + 1] = IF i + 1 <= Len(s) THEN s[i + 1] ELSE u[i + 1 - Len(s)]
      BY <2>1, ConcatProperties
    <3>3. (Tail(s) \o u)[i] = IF i <= Len(s) - 1 THEN Tail(s)[i] ELSE u[i - (Len(s) - 1)]
      BY <2>1, <2>3, <2>4, ConcatProperties
    <3>4. i <= Len(s) - 1 => Tail(s)[i] = s[i + 1]
      BY <1>4, <2>1, <2>4, HeadTailProperties
    <3> QED
      BY <2>1, <3>1, <3>2, <3>3, <3>4
  <2> QED
    BY <2>2, <2>3, <2>4, <2>5, <2>6, SeqEqual
<1> HIDE DEF rest
<1> QED
  BY <1>1, <1>2, <1>3, <1>4

-----------------------------------------------------------------------------
(* The refinement.                                                         *)

LEMMA InitService == Init => Service!SInit
<1> SUFFICES ASSUME Init PROVE Service!SInit
  OBVIOUS
<1>1. Backlog = <<>>
  BY ConcatEmptySeq, EmptySeq DEF Init, Backlog, InFlight
<1> QED
  BY <1>1 DEF Init, Service!SInit

\* addTask, by any caller: accepted and queued, or refused.
LEMMA CallStep ==
    ASSUME TypeOK, CallInv, NEW t \in Caller, NEW k \in Task,
           \/ AddTaskLock(t, k)
           \/ QuitPost /\ t = Disp /\ k = QuitHalt
    PROVE  Service!Accept(k) \/ Service!Refuse(k)
<1>0. /\ taskLock = None /\ status[k] = "new"
      /\ UNCHANGED <<threadState, current>> /\ UNCHANGED queueVars
      /\ dispPc' = dispPc
      /\ IF AcceptsTasks
         THEN /\ taskLock' = t /\ callArg' = [callArg EXCEPT ![t] = k]
              /\ status' = [status EXCEPT ![k] = "accepted"]
         ELSE /\ status' = [status EXCEPT ![k] = "refused"]
              /\ UNCHANGED <<taskLock, callArg>>
  BY DEF AddTaskLock, QuitPost
<1>1. CASE AcceptsTasks
  <2>1. callArg'[t] = k
    BY <1>0, <1>1 DEF TypeOK
  <2>2. Backlog' = Append(Backlog, k)
    BY <1>0, <1>1, <2>1, BacklogAccept
  <2> QED
    BY <1>0, <1>1, <2>2 DEF AcceptsTasks, Service!Accept
<1>2. CASE ~AcceptsTasks
  <2>1. Backlog' = Backlog
    BY <1>0, <1>2 DEF Backlog, InFlight, queueVars
  <2> QED
    BY <1>0, <1>2, <2>1 DEF AcceptsTasks, Service!Refuse
<1> QED BY <1>1, <1>2

\* The worker leaves a closure; the backlog stays.
LEMMA LeaveStep ==
    ASSUME TypeOK, CallInv, RunPlain \/ QuitStop \/ RunTerm
    PROVE  Service!Finish
<1>1. Backlog' = Backlog
  BY DEF RunPlain, QuitStop, RunTerm, Leave, Backlog, InFlight, callVars, queueVars
<1>2. dispPc # "exited" /\ dispPc' # "exited" /\ current # None /\ current' = None
  BY PostedIsTask DEF RunPlain, QuitStop, RunTerm, Leave, CallInv
<1>3. threadState # "RUNNING" => threadState' # "RUNNING"
  BY DEF RunPlain, QuitStop, RunTerm, StopDispatcher, TermState
<1>4. status' = IF current = Term THEN status ELSE [status EXCEPT ![current] = "done"]
  BY PostedIsTask, DispatcherAssumption
     DEF RunPlain, QuitStop, RunTerm, Done, CallInv, Posted
<1>5. (threadState' = "RUNNING") \in
        (IF threadState = "RUNNING" THEN BOOLEAN ELSE {FALSE})
  BY <1>3
<1> QED
  BY <1>1, <1>2, <1>4, <1>5 DEF Service!Finish

LEMMA HaltStep ==
    ASSUME TypeOK, CallInv, RunHalt
    PROVE  Service!Poison
<1>1. Backlog' = Append(Backlog, Term)
  BY PostedIsTask, BacklogAppend, BacklogUnlocked
     DEF RunHalt, Leave, AppendTerm
<1>2. /\ dispPc # "exited" /\ dispPc' # "exited" /\ current # None
      /\ current' = None
  BY DEF RunHalt, Leave, CallInv
<1> QED
  BY <1>1, <1>2 DEF RunHalt, Done, Service!Poison

LEMMA NextService ==
    BaseInv /\ [Next]_vars => [Service!SNext]_(Service!svars)
<1> SUFFICES ASSUME TypeOK, CallInv, [Next]_vars
             PROVE  Service!SNext \/ UNCHANGED Service!svars
  BY DEF BaseInv
<1>1. ASSUME NEW t \in Caller, Post(t) PROVE Service!SNext
  <2>1. PICK k \in Task : AddTaskLock(t, k)
    BY <1>1, PostedIsTask DEF Post
  <2> QED BY <2>1, CallStep DEF Service!SNext
<1>2. ASSUME NEW t \in Caller, AddTaskPush(t) PROVE UNCHANGED Service!svars
  <2>1. Backlog' = Backlog
    BY <1>2, BacklogPush
  <2> QED BY <1>2, <2>1 DEF AddTaskPush, Service!svars
<1>3. ASSUME NEW t \in Caller, AddTaskNotify(t) PROVE UNCHANGED Service!svars
  <2>1. callArg' = callArg /\ taskLock' = taskLock
    BY <1>3 DEF AddTaskNotify
  <2>2. Backlog' = Backlog
    BY <1>3, <2>1 DEF AddTaskNotify, Backlog, InFlight, queueVars
  <2> QED BY <1>3, <2>2 DEF AddTaskNotify, Service!svars
<1>4. CASE LoopTest
  <2>1. Backlog' = Backlog
    BY <1>4 DEF LoopTest, Backlog, InFlight, queueVars, callVars
  <2>2. CASE threadState = "TERMINATED"
    <3>1. current = None
      BY <1>4 DEF LoopTest, CallInv
    <3> QED
      BY <1>4, <2>1, <2>2, <3>1 DEF LoopTest, Service!Halt, Service!SNext
  <2>3. CASE threadState # "TERMINATED"
    BY <1>4, <2>1, <2>3 DEF LoopTest, Service!svars
  <2> QED BY <2>2, <2>3
<1>5. CASE LoopLock \/ LoopRelock
  <2>1. tmpTaskList = <<>> /\ UNCHANGED <<taskLock, callArg>>
    BY <1>5 DEF LoopLock, LoopRelock, CallInv, callVars
  <2>2. Backlog' = Backlog
    <3>1. CASE SwapLists
      BY <2>1, <3>1, BacklogSwap
    <3>2. CASE UNCHANGED queueVars
      BY <2>1, <3>2 DEF Backlog, InFlight, queueVars
    <3> QED BY <1>5, <3>1, <3>2 DEF LoopLock, LoopRelock
  <2> QED BY <1>5, <2>2 DEF LoopLock, LoopRelock, Service!svars
<1>6. CASE BatchEnd \/ QuitBegin \/ SpuriousWakeup
  <2>1. Backlog' = Backlog
    BY <1>6 DEF BatchEnd, QuitBegin, SpuriousWakeup, Backlog, InFlight,
       queueVars, callVars
  <2> QED
    BY <1>6, <2>1 DEF BatchEnd, QuitBegin, SpuriousWakeup, Service!svars
<1>7. CASE BatchTake
  <2>1. /\ Backlog # <<>> /\ Head(Backlog) = Head(tmpTaskList)
        /\ Backlog' = Tail(Backlog)
    BY <1>7, BacklogTake DEF BatchTake, callVars
  <2>2. current = None
    BY <1>7 DEF BatchTake, CallInv
  <2> QED
    BY <1>7, <2>1, <2>2 DEF BatchTake, Service!Take, Service!SNext
<1>8. CASE BatchExpire
  <2>1. /\ Backlog # <<>> /\ Head(Backlog) = Head(tmpTaskList)
        /\ Backlog' = Tail(Backlog)
    BY <1>8, BacklogTake DEF BatchExpire, callVars
  <2>2. current = None
    BY <1>8 DEF BatchExpire, CallInv
  <2> QED
    BY <1>8, <2>1, <2>2 DEF BatchExpire, Service!Skip, Service!SNext
<1>9. CASE QuitPost
  BY <1>9, CallStep, PostedIsTask DEF Service!SNext
<1>10. CASE RunPlain \/ QuitStop \/ RunTerm
  BY <1>10, LeaveStep DEF Service!SNext
<1>11. CASE RunHalt
  BY <1>11, HaltStep DEF Service!SNext
<1>12. CASE UNCHANGED vars
  BY <1>12 DEF vars, Service!svars, Backlog, InFlight
<1> QED
  BY <1>1, <1>2, <1>3, <1>4, <1>5, <1>6, <1>7, <1>8, <1>9, <1>10, <1>11, <1>12
     DEF Next, Worker

\* The dispatcher is a first-in first-out service that runs each accepted
\* closure at most once, one at a time, and skips only timed ones.
THEOREM DispatcherImplementsTaskService == Spec => ImplementsTaskService
BY InitService, NextService, BaseCorrect, PTL
   DEF Spec, Service!SSpec, ImplementsTaskService

-----------------------------------------------------------------------------
(* Where a closure is.                                                     *)

\* Looking for an entry in a list that grew at its end.
LEMMA HoldsAppend ==
    ASSUME Backlog \in Seq(Entry), NEW e \in Entry, Backlog' = Append(Backlog, e)
    PROVE  /\ Len(Backlog') = Len(Backlog) + 1
           /\ \A i \in 1..Len(Backlog) : Backlog'[i] = Backlog[i]
           /\ Backlog'[Len(Backlog) + 1] = e
           /\ \A k \in Entry : Holds(k)' <=> Holds(k) \/ k = e
<1>1. /\ Len(Backlog') = Len(Backlog) + 1
      /\ \A i \in 1..Len(Backlog) : Backlog'[i] = Backlog[i]
      /\ Backlog'[Len(Backlog) + 1] = e
  OBVIOUS
<1>2. Len(Backlog) \in Nat
  OBVIOUS
<1>3. ASSUME NEW k \in Entry PROVE Holds(k)' <=> Holds(k) \/ k = e
  <2>1. ASSUME Holds(k)' PROVE Holds(k) \/ k = e
    <3>1. PICK i \in 1..(Len(Backlog) + 1) : Backlog'[i] = k
      BY <1>1, <2>1 DEF Holds
    <3> QED BY <1>1, <1>2, <3>1 DEF Holds
  <2>2. ASSUME Holds(k) PROVE Holds(k)'
    <3>1. PICK i \in 1..Len(Backlog) : Backlog[i] = k
      BY <2>2 DEF Holds
    <3>2. i \in 1..Len(Backlog') /\ Backlog'[i] = k
      BY <1>1, <1>2, <3>1
    <3> QED BY <3>2 DEF Holds
  <2>3. ASSUME k = e PROVE Holds(k)'
    <3>1. Len(Backlog) + 1 \in 1..Len(Backlog')
      BY <1>1, <1>2
    <3> QED BY <1>1, <2>3, <3>1 DEF Holds
  <2> QED BY <2>1, <2>2, <2>3
<1> QED BY <1>1, <1>3

\* And in a list that lost its head.
LEMMA HoldsTail ==
    ASSUME Backlog \in Seq(Entry), Backlog # <<>>, Backlog' = Tail(Backlog)
    PROVE  /\ Len(Backlog') = Len(Backlog) - 1
           /\ \A i \in 1..Len(Backlog') :
                 i + 1 \in 2..Len(Backlog) /\ Backlog'[i] = Backlog[i + 1]
           /\ Head(Backlog) = Backlog[1] /\ 1 \in 1..Len(Backlog)
           /\ \A k \in Entry : Holds(k) <=> Holds(k)' \/ k = Head(Backlog)
<1>0. Len(Backlog) \in Nat \ {0}
  BY EmptySeq
<1>1. /\ Len(Backlog') = Len(Backlog) - 1
      /\ \A i \in 1..Len(Backlog') : Backlog'[i] = Backlog[i + 1]
      /\ Head(Backlog) = Backlog[1]
  BY HeadTailProperties
<1>2. \A i \in 1..Len(Backlog') : i + 1 \in 2..Len(Backlog)
  BY <1>0, <1>1
<1>3. ASSUME NEW k \in Entry PROVE Holds(k) <=> Holds(k)' \/ k = Head(Backlog)
  <2>1. ASSUME Holds(k), k # Head(Backlog) PROVE Holds(k)'
    <3>1. PICK i \in 1..Len(Backlog) : Backlog[i] = k
      BY <2>1 DEF Holds
    <3>2. i - 1 \in 1..Len(Backlog') /\ (i - 1) + 1 = i
      BY <1>0, <1>1, <2>1, <3>1
    <3> QED BY <1>1, <3>1, <3>2 DEF Holds
  <2>2. ASSUME Holds(k)' PROVE Holds(k)
    <3>1. PICK i \in 1..Len(Backlog') : Backlog'[i] = k
      BY <2>2 DEF Holds
    <3>2. i + 1 \in 1..Len(Backlog) /\ Backlog[i + 1] = k
      BY <1>0, <1>1, <1>2, <3>1
    <3> QED BY <3>2 DEF Holds
  <2>3. ASSUME k = Head(Backlog) PROVE Holds(k)
    BY <1>0, <1>1, <2>3 DEF Holds
  <2> QED BY <2>1, <2>2, <2>3
<1> QED BY <1>0, <1>1, <1>2, <1>3

LEMMA HoldsSame ==
    ASSUME Backlog' = Backlog PROVE \A k : Holds(k)' <=> Holds(k)
BY DEF Holds

LEMMA InitPlace == Init => PlaceInv
<1> SUFFICES ASSUME Init PROVE PlaceInv
  OBVIOUS
<1>1. Backlog = <<>>
  BY ConcatEmptySeq, EmptySeq DEF Init, Backlog, InFlight
<1> QED
  BY <1>1, PostedIsTask DEF Init, PlaceInv, Holds

\* The service keeps every closure in one place: PlaceInv is an invariant of
\* TaskService, whatever step of the threads took its step.
LEMMA PlaceStep ==
    ASSUME BaseInv, PlaceInv, [Service!SNext]_(Service!svars)
    PROVE  PlaceInv'
<1>0. Backlog \in Seq(Entry) /\ status \in [Task -> Fates] /\ current \in Entry \cup {None}
  BY BacklogType DEF BaseInv, TypeOK
<1> USE PostedIsTask DEF Fates
<1>1. ASSUME NEW k \in Task, Service!Accept(k) PROVE PlaceInv'
  <2>1. /\ Backlog' = Append(Backlog, k) /\ current' = current /\ status[k] = "new"
        /\ status' = [status EXCEPT ![k] = "accepted"]
    BY <1>1 DEF Service!Accept
  <2>2. ~Holds(k) /\ current # k
    BY <2>1 DEF PlaceInv
  <2>3. \A i \in 1..Len(Backlog) : Backlog[i] # k
    BY <2>2 DEF Holds
  <2>4. /\ Len(Backlog') = Len(Backlog) + 1 /\ Len(Backlog) \in Nat
        /\ \A i \in 1..Len(Backlog) : Backlog'[i] = Backlog[i]
        /\ Backlog'[Len(Backlog) + 1] = k
        /\ \A e \in Entry : Holds(e)' <=> Holds(e) \/ e = k
    BY <1>0, <2>1, HoldsAppend
  <2>5. \A i, j \in 1..Len(Backlog') :
           Backlog'[i] = Backlog'[j] /\ Backlog'[i] # Term => i = j
    BY <2>3, <2>4 DEF PlaceInv
  <2>6. \A e \in Task : current' = e => ~Holds(e)'
    BY <2>1, <2>2, <2>4 DEF PlaceInv
  <2>7. \A e \in Task : Holds(e)' \/ current' = e <=> status'[e] = "accepted"
    BY <1>0, <2>1, <2>4 DEF PlaceInv
  <2> QED BY <2>5, <2>6, <2>7 DEF PlaceInv
<1>2. ASSUME NEW k \in Task, Service!Refuse(k) PROVE PlaceInv'
  <2>1. /\ Backlog' = Backlog /\ current' = current /\ status[k] = "new"
        /\ status' = [status EXCEPT ![k] = "refused"]
    BY <1>2 DEF Service!Refuse
  <2> QED BY <1>0, <2>1, HoldsSame DEF PlaceInv
<1>3. CASE Service!Poison
  <2>1. /\ Backlog' = Append(Backlog, Term) /\ current' = None
        /\ status' = IF current = None THEN status
                                       ELSE [status EXCEPT ![current] = "done"]
    BY <1>3 DEF Service!Poison
  <2>2. /\ Len(Backlog') = Len(Backlog) + 1 /\ Len(Backlog) \in Nat
        /\ \A i \in 1..Len(Backlog) : Backlog'[i] = Backlog[i]
        /\ Backlog'[Len(Backlog) + 1] = Term
        /\ \A e \in Entry : Holds(e)' <=> Holds(e) \/ e = Term
    BY <1>0, <2>1, HoldsAppend
  <2>3. \A i, j \in 1..Len(Backlog') :
           Backlog'[i] = Backlog'[j] /\ Backlog'[i] # Term => i = j
    BY <2>2 DEF PlaceInv
  <2>4. \A e \in Task : current' # e
    BY <2>1
  <2>5. \A e \in Task : Holds(e)' \/ current' = e <=> status'[e] = "accepted"
    BY <1>0, <2>1, <2>2 DEF PlaceInv
  <2> QED BY <2>3, <2>4, <2>5 DEF PlaceInv
<1>4. CASE Service!Take \/ Service!Skip
  <2>1. /\ Backlog' = Tail(Backlog) /\ Backlog # <<>> /\ current = None
        /\ \/ current' = Head(Backlog) /\ status' = status
           \/ /\ Head(Backlog) \in Timed /\ current' = None
              /\ status' = [status EXCEPT ![Head(Backlog)] = "expired"]
    BY <1>4 DEF Service!Take, Service!Skip
  <2>2. /\ Len(Backlog') = Len(Backlog) - 1 /\ Len(Backlog) \in Nat
        /\ \A i \in 1..Len(Backlog') :
              i + 1 \in 2..Len(Backlog) /\ Backlog'[i] = Backlog[i + 1]
        /\ Head(Backlog) = Backlog[1] /\ 1 \in 1..Len(Backlog)
        /\ \A e \in Entry : Holds(e) <=> Holds(e)' \/ e = Head(Backlog)
    BY <1>0, <2>1, HoldsTail
  <2>3. \A i, j \in 1..Len(Backlog') :
           Backlog'[i] = Backlog'[j] /\ Backlog'[i] # Term => i = j
    <3> TAKE i, j \in 1..Len(Backlog')
    <3> HAVE Backlog'[i] = Backlog'[j] /\ Backlog'[i] # Term
    <3>1. i + 1 \in 1..Len(Backlog) /\ j + 1 \in 1..Len(Backlog)
      BY <2>2
    <3>2. i + 1 = j + 1
      BY <2>2, <3>1 DEF PlaceInv
    <3> QED BY <2>2, <3>2
  <2>4. ASSUME NEW e \in Task, e = Head(Backlog) PROVE ~Holds(e)'
    <3> SUFFICES ASSUME NEW i \in 1..Len(Backlog'), Backlog'[i] = e PROVE FALSE
      BY DEF Holds
    <3>1. i + 1 \in 2..Len(Backlog) /\ Backlog[i + 1] = Backlog[1]
      BY <2>2, <2>4
    <3> QED BY <2>2, <2>4, <3>1 DEF PlaceInv
  <2>5. \A e \in Task : current' = e => ~Holds(e)'
    BY <2>1, <2>4
  <2>6. Timed \subseteq Task
    BY DEF Task, Posted
  <2>7. \A e \in Task : Holds(e)' \/ current' = e <=> status'[e] = "accepted"
    BY <1>0, <2>1, <2>2, <2>4, <2>6 DEF PlaceInv
  <2> QED BY <2>3, <2>5, <2>7 DEF PlaceInv
<1>5. CASE Service!Finish \/ Service!Halt
  <2>1. /\ Backlog' = Backlog
        /\ \/ current' = None
              /\ status' = IF current = Term THEN status
                                             ELSE [status EXCEPT ![current] = "done"]
           \/ UNCHANGED <<current, status>>
    BY <1>5 DEF Service!Finish, Service!Halt
  <2> QED BY <1>0, <2>1, HoldsSame DEF PlaceInv
<1>6. CASE UNCHANGED Service!svars
  BY <1>6, HoldsSame DEF Service!svars, PlaceInv
<1> QED
  BY <1>1, <1>2, <1>3, <1>4, <1>5, <1>6 DEF Service!SNext

-----------------------------------------------------------------------------
(* The order of the shutdown.                                              *)

ShutdownSafe == BaseInv /\ PlaceInv /\ ShutdownInv

LEMMA InitShutdown == Init => ShutdownInv
<1> SUFFICES ASSUME Init PROVE ShutdownInv
  OBVIOUS
<1>1. Backlog = <<>>
  BY ConcatEmptySeq, EmptySeq DEF Init, Backlog, InFlight
<1> QED
  BY <1>1, PostedIsTask DEF Init, ShutdownInv, TermOut, Holds

\* A SIGTERM that was accepted stays visible in its status.
LEMMA OrderlyBefore ==
    ASSUME BaseInv, [Service!SNext]_(Service!svars), Orderly'
    PROVE  Orderly
<1>1. status \in [Task -> Fates] /\ SigHalt \subseteq Task
  BY DEF BaseInv, TypeOK, Task, Posted
<1>2. \/ status' = status
      \/ \E k \in Task : status[k] = "new" /\ status' = [status EXCEPT ![k] = "accepted"]
      \/ \E k \in Task : status[k] = "new" /\ status' = [status EXCEPT ![k] = "refused"]
      \/ \E e : status' = [status EXCEPT ![e] = "done"]
      \/ \E e : status' = [status EXCEPT ![e] = "expired"]
  BY DEF Service!SNext, Service!svars, Service!Accept, Service!Refuse,
     Service!Poison, Service!Take, Service!Skip, Service!Finish, Service!Halt
<1> QED
  BY <1>1, <1>2 DEF Orderly, Fates

\* Steps that touch neither the backlog nor the fate of a closure.
LEMMA QuietStep ==
    ASSUME BaseInv,
           \/ \E t \in Caller : AddTaskPush(t) \/ AddTaskNotify(t)
           \/ LoopTest \/ LoopLock \/ LoopRelock \/ BatchEnd \/ QuitBegin
           \/ SpuriousWakeup \/ UNCHANGED vars
    PROVE  UNCHANGED <<Backlog, current, status, threadState>>
<1> USE DEF BaseInv
<1>1. ASSUME NEW t \in Caller, AddTaskPush(t)
      PROVE  UNCHANGED <<Backlog, current, status, threadState>>
  BY <1>1, BacklogPush DEF AddTaskPush
<1>2. ASSUME NEW t \in Caller, AddTaskNotify(t)
      PROVE  UNCHANGED <<Backlog, current, status, threadState>>
  <2>1. UNCHANGED <<tmpTaskList, taskList, taskLock, callArg>>
    BY <1>2 DEF AddTaskNotify, queueVars
  <2> QED BY <1>2, <2>1 DEF AddTaskNotify, Backlog, InFlight
<1>3. CASE (LoopLock \/ LoopRelock) /\ SwapLists
  <2>1. tmpTaskList = <<>> /\ UNCHANGED <<taskLock, callArg>>
    BY <1>3 DEF LoopLock, LoopRelock, CallInv, callVars
  <2> QED BY <1>3, <2>1, BacklogSwap DEF LoopLock, LoopRelock
<1>4. CASE LoopLock /\ UNCHANGED queueVars
  BY <1>4 DEF LoopLock, Backlog, InFlight, queueVars, callVars
<1>5. CASE LoopTest \/ BatchEnd \/ QuitBegin \/ SpuriousWakeup \/ UNCHANGED vars
  BY <1>5 DEF LoopTest, BatchEnd, QuitBegin, SpuriousWakeup, vars, Backlog,
     InFlight, queueVars, callVars
<1> QED
  BY <1>1, <1>2, <1>3, <1>4, <1>5 DEF LoopLock, LoopRelock

\* A caller's closure is accepted only while no shutdown has got as far as
\* stopping the dispatcher, so it never stands behind the terminating one.
LEMMA AcceptShutdown ==
    ASSUME ShutdownSafe, Orderly, NEW t \in Caller, NEW k \in Task,
           \/ AddTaskLock(t, k) /\ k \in Posted
           \/ QuitPost /\ t = Disp /\ k = QuitHalt
    PROVE  ShutdownInv'
<1> USE PostedIsTask
<1>0. BaseInv /\ TypeOK /\ CallInv /\ PlaceInv /\ ShutdownInv
  BY DEF ShutdownSafe, BaseInv
<1>1. /\ Backlog \in Seq(Entry) /\ status \in [Task -> Fates]
      /\ UNCHANGED <<threadState, current, dispPc, gameShutdown>>
      /\ k # QuitHalt => status'[QuitHalt] = status[QuitHalt]
      /\ k = QuitHalt => dispPc = "quit"
  BY <1>0, BacklogType, DispatcherAssumption
     DEF AddTaskLock, QuitPost, TypeOK, Task
<1>2. CASE Service!Accept(k)
  <2>1. /\ threadState = "RUNNING" /\ Backlog' = Append(Backlog, k)
        /\ status'[k] = "accepted"
    BY <1>1, <1>2 DEF Service!Accept
  <2>2. ~TermOut
    BY <1>0, <2>1 DEF ShutdownInv
  <2>3. \A e \in Entry : Holds(e)' <=> Holds(e) \/ e = k
    BY <1>1, <2>1, HoldsAppend
  <2>4. ~Holds(Term)' /\ ~TermOut'
    BY <1>1, <2>2, <2>3 DEF TermOut
  <2>5. \A i \in 1..Len(Backlog') : Backlog'[i] # Term
    BY <2>4 DEF Holds
  <2> QED
    BY <1>0, <1>1, <2>1, <2>2, <2>4, <2>5 DEF ShutdownInv, TermOut
<1>3. CASE Service!Refuse(k)
  <2>1. Backlog' = Backlog /\ status'[k] = "refused"
    BY <1>1, <1>3 DEF Service!Refuse
  <2>2. TermOut' <=> TermOut
    BY <1>1, <2>1, HoldsSame DEF TermOut
  <2> QED
    BY <1>0, <1>1, <2>1, <2>2 DEF ShutdownInv
<1> QED
  BY <1>0, <1>2, <1>3, CallStep

LEMMA ShutdownStep ==
    ASSUME ShutdownSafe, [Next]_vars, Orderly, PlaceInv'
    PROVE  ShutdownInv'
<1> USE PostedIsTask
<1>0. /\ BaseInv /\ TypeOK /\ CallInv /\ PlaceInv /\ ShutdownInv
      /\ Backlog \in Seq(Entry) /\ status \in [Task -> Fates]
  BY BacklogType DEF ShutdownSafe, BaseInv, TypeOK
<1>1. ASSUME NEW t \in Caller, Post(t) PROVE ShutdownInv'
  BY <1>1, AcceptShutdown DEF Post, Task
<1>2. ASSUME NEW t \in Caller, AddTaskPush(t) \/ AddTaskNotify(t) PROVE ShutdownInv'
  <2>1. UNCHANGED <<Backlog, current, status, threadState>>
    BY <1>0, <1>2, QuietStep
  <2>2. /\ gameShutdown' = gameShutdown
        /\ dispPc' = dispPc \/ (dispPc' = "relock" /\ dispPc = "waiting")
    BY <1>2 DEF AddTaskPush, AddTaskNotify
  <2> QED
    BY <1>0, <2>1, <2>2, HoldsSame DEF ShutdownInv, TermOut
<1>3. CASE LoopTest \/ LoopLock \/ LoopRelock \/ BatchEnd \/ SpuriousWakeup
           \/ UNCHANGED vars
  <2>1. UNCHANGED <<Backlog, current, status, threadState>>
    BY <1>0, <1>3, QuietStep
  <2>2. /\ gameShutdown' = gameShutdown
        /\ dispPc' # dispPc => dispPc # "quit" /\ dispPc' # "quit"
        /\ dispPc' = "exited" => threadState = "TERMINATED" \/ dispPc' = dispPc
    BY <1>3 DEF LoopTest, LoopLock, LoopRelock, BatchEnd, SpuriousWakeup, vars
  <2> QED
    BY <1>0, <2>1, <2>2, HoldsSame DEF ShutdownInv, TermOut
<1>4. CASE QuitBegin
  <2>1. UNCHANGED <<Backlog, current, status, threadState>>
    BY <1>0, <1>4, QuietStep
  <2>2. ~gameShutdown /\ gameShutdown' /\ dispPc' = "quit"
    BY <1>4 DEF QuitBegin
  <2>3. ~TermOut
    BY <1>0, <2>2 DEF ShutdownInv
  <2> QED
    BY <1>0, <2>1, <2>2, <2>3, HoldsSame DEF ShutdownInv, TermOut
<1>5. CASE BatchTake \/ BatchExpire
  <2>1. /\ Backlog # <<>> /\ Head(Backlog) = Head(tmpTaskList)
        /\ Backlog' = Tail(Backlog)
    BY <1>0, <1>5, BacklogTake DEF BatchTake, BatchExpire, callVars
  <2>2. /\ Len(Backlog') = Len(Backlog) - 1 /\ Len(Backlog) \in Nat
        /\ \A i \in 1..Len(Backlog') :
              i + 1 \in 2..Len(Backlog) /\ Backlog'[i] = Backlog[i + 1]
        /\ Head(Backlog) = Backlog[1] /\ 1 \in 1..Len(Backlog)
        /\ \A e \in Entry : Holds(e) <=> Holds(e)' \/ e = Head(Backlog)
    BY <1>0, <2>1, HoldsTail
  <2>3. /\ UNCHANGED <<threadState, gameShutdown>>
        /\ current' = Head(Backlog) \/ current' = current
        /\ dispPc \notin {"quit", "exited"} /\ dispPc' \notin {"quit", "exited"}
        /\ current = None
    BY <1>0, <1>5, <2>1 DEF BatchTake, BatchExpire, CallInv
  <2>4. status'[QuitHalt] = status[QuitHalt]
    <3>1. QuitHalt \notin Timed
      BY DispatcherAssumption DEF Posted
    <3> QED BY <1>0, <1>5, <3>1 DEF BatchTake, BatchExpire
  <2>5. TermOut' => TermOut
    BY <2>2, <2>3 DEF TermOut
  <2>6. threadState # "TERMINATED"
    BY <1>0, <2>1 DEF ShutdownInv
  <2>7. current' = Term => Backlog' = <<>>
    <3>1. SUFFICES ASSUME current' = Term PROVE Backlog' = <<>>
      OBVIOUS
    <3>2. Backlog[1] = Term
      BY <2>2, <2>3, <3>1
    <3>3. Len(Backlog) = 1
      BY <1>0, <2>2, <3>2 DEF ShutdownInv
    <3>4. Backlog' \in Seq(Entry)
      BY <1>0, <2>1
    <3> QED BY <2>2, <3>3, <3>4, EmptySeq
  <2>8. ASSUME NEW i \in 1..Len(Backlog'), Backlog'[i] = Term PROVE i = Len(Backlog')
    <3>1. i + 1 \in 1..Len(Backlog) /\ Backlog[i + 1] = Term
      BY <2>2, <2>8
    <3>2. i + 1 = Len(Backlog)
      BY <1>0, <3>1 DEF ShutdownInv
    <3> QED BY <2>2, <3>2
  <2> QED
    BY <1>0, <2>3, <2>4, <2>5, <2>6, <2>7, <2>8 DEF ShutdownInv
<1>6. CASE RunPlain
  <2>1. /\ Backlog' = Backlog /\ current' = None /\ threadState' = threadState
        /\ gameShutdown' = gameShutdown /\ dispPc = "run" /\ dispPc' = "batch"
        /\ status' = [status EXCEPT ![current] = "done"] /\ current # QuitHalt
    BY <1>0, <1>6, LeaveStep, DispatcherAssumption
       DEF RunPlain, Leave, Done, Service!Finish, Posted
  <2>2. status'[QuitHalt] = status[QuitHalt]
    BY <1>0, <2>1
  <2>3. TermOut' => TermOut
    BY <2>1, HoldsSame DEF TermOut
  <2> QED
    BY <1>0, <2>1, <2>2, <2>3 DEF ShutdownInv, TermOut
<1>7. CASE QuitPost
  BY <1>7, AcceptShutdown
<1>8. CASE QuitStop
  <2>1. /\ Backlog' = Backlog /\ current' = None /\ threadState' = "CLOSING"
        /\ gameShutdown' = gameShutdown /\ dispPc = "quit" /\ dispPc' = "batch"
        /\ status' = [status EXCEPT ![current] = "done"] /\ current \in Quit
    BY <1>0, <1>8, LeaveStep
       DEF QuitStop, StopDispatcher, Done, Service!Finish, CallInv
  <2>2. status'[QuitHalt] = status[QuitHalt]
    <3>1. current # QuitHalt
      BY <2>1, DispatcherAssumption DEF Posted
    <3> QED BY <1>0, <2>1, <3>1
  <2>3. ~TermOut' /\ ~Holds(Term)'
    BY <1>0, <2>1, HoldsSame DEF TermOut, ShutdownInv
  <2>4. \A i \in 1..Len(Backlog') : Backlog'[i] # Term
    BY <2>3 DEF Holds
  <2> QED
    BY <1>0, <2>1, <2>2, <2>3, <2>4 DEF ShutdownInv
<1>9. CASE RunHalt
  <2>1. /\ Backlog' = Append(Backlog, Term) /\ current' = None
        /\ UNCHANGED <<threadState, gameShutdown>>
        /\ dispPc = "run" /\ dispPc' = "batch"
        /\ status' = [status EXCEPT ![current] = "done"]
        /\ current \in SigHalt \cup {QuitHalt}
    BY <1>0, <1>9, HaltStep DEF RunHalt, Leave, Done, Service!Poison
  <2>2. current = QuitHalt /\ status[QuitHalt] = "accepted"
    BY <1>0, <2>1 DEF PlaceInv, Orderly, Task, Posted
  <2>3. ~TermOut /\ gameShutdown /\ threadState \notin {"RUNNING", "TERMINATED"}
    BY <1>0, <2>1, <2>2 DEF ShutdownInv, TermOut
  <2>4. /\ Len(Backlog') = Len(Backlog) + 1 /\ Len(Backlog) \in Nat
        /\ \A i \in 1..Len(Backlog) : Backlog'[i] = Backlog[i]
    BY <1>0, <2>1, HoldsAppend
  <2>5. \A i \in 1..Len(Backlog) : Backlog[i] # Term
    BY <2>3 DEF TermOut, Holds
  <2>6. \A i \in 1..Len(Backlog') : Backlog'[i] = Term => i = Len(Backlog')
    BY <2>4, <2>5
  <2>7. status'[QuitHalt] = "done"
    BY <1>0, <2>1, <2>2
  <2> QED
    BY <2>1, <2>3, <2>6, <2>7 DEF ShutdownInv
<1>10. CASE RunTerm
  <2>1. /\ Backlog' = Backlog /\ current' = None /\ current = Term
        /\ UNCHANGED <<gameShutdown, status>>
        /\ dispPc' = "batch" /\ threadState' = "TERMINATED"
    BY <1>0, <1>10, LeaveStep DEF RunTerm, Leave, TermState, Service!Finish
  <2>2. Backlog = <<>> /\ status[QuitHalt] = "done" /\ threadState # "RUNNING"
    BY <1>0, <2>1 DEF ShutdownInv, TermOut
  <2> QED
    BY <1>0, <2>1, <2>2 DEF ShutdownInv
<1> QED
  BY <1>1, <1>2, <1>3, <1>4, <1>5, <1>6, <1>7, <1>8, <1>9, <1>10 DEF Next, Worker

LEMMA NextShutdown == ShutdownSafe /\ [Next]_vars => ShutdownSafe'
<1> SUFFICES ASSUME ShutdownSafe, [Next]_vars PROVE ShutdownSafe'
  OBVIOUS
<1>1. BaseInv'
  BY NextType, NextCall, NextWakeup DEF BaseInv, ShutdownSafe
<1>2. [Service!SNext]_(Service!svars)
  BY NextService DEF ShutdownSafe
<1>3. PlaceInv'
  BY <1>2, PlaceStep DEF ShutdownSafe
<1>4. ShutdownInv'
  <2>1. CASE Orderly
    BY <1>3, <2>1, ShutdownStep
  <2>2. CASE ~Orderly
    BY <1>2, <2>2, OrderlyBefore DEF ShutdownSafe, ShutdownInv
  <2> QED BY <2>1, <2>2
<1> QED BY <1>1, <1>3, <1>4 DEF ShutdownSafe

\* When the worker has left there is no backlog and nothing runs.
LEMMA SafeNothingLost == ShutdownSafe => NothingLost
<1> SUFFICES ASSUME ShutdownSafe, dispPc = "exited", Orderly, NEW k \in Task
             PROVE  status[k] # "accepted"
  BY DEF NothingLost
<1>1. Backlog = <<>> /\ current = None
  BY DEF ShutdownSafe, ShutdownInv, BaseInv, CallInv
<1>2. ~Holds(k) /\ current # k
  BY <1>1, PostedIsTask DEF Holds
<1> QED BY <1>2 DEF ShutdownSafe, PlaceInv

\* setGameState(GAMESTATE_SHUTDOWN) and Game::shutdown leave no accepted
\* closure behind, whoever posts what meanwhile, as long as no SIGTERM is
\* served.
THEOREM ShutdownLosesNothing == Spec => []NothingLost
<1>1. Init => ShutdownSafe
  BY InitBase, InitPlace, InitShutdown DEF ShutdownSafe
<1> QED
  BY <1>1, NextShutdown, SafeNothingLost, PTL DEF Spec

-----------------------------------------------------------------------------
(* The types of the scheduler.                                             *)

ArmOf(e)    == [op |-> "arm", event |-> e]
CancelOf(e) == [op |-> "cancel", event |-> e]
StopHandler == [op |-> "stop"]

LEMMA Handlers ==
    /\ \A e \in Event : ArmOf(e) \in Handler /\ CancelOf(e) \in Handler
    /\ StopHandler \in Handler
    /\ \A h \in Handler : h.op \in {"arm", "cancel", "stop"}
    /\ \A h \in Handler : h.op \in {"arm", "cancel"} => h.event \in Event
    /\ \A h \in Handler : h.op = "arm" => h = ArmOf(h.event)
BY DEF Handler, ArmOf, CancelOf, StopHandler

LEMMA EventsAreTasks ==
    /\ Event \subseteq Posted /\ Event \subseteq Plain /\ Event \subseteq Task
    /\ None \notin Event /\ QuitHalt \notin Event
    /\ Timed \cap Event = {} /\ Quit \cap Event = {} /\ SigHalt \cap Event = {}
    /\ Io \in Caller /\ Io # Disp
BY SchedulerAssumption, DispatcherAssumption DEF Posted, Task, Caller, Entry

\* The head and the tail of the posted handlers.
LEMMA QueueHead ==
    ASSUME SchedTypeOK, ioQueue # <<>>
    PROVE  /\ Head(ioQueue) \in Handler /\ Head(ioQueue) = ioQueue[1]
           /\ Tail(ioQueue) \in Seq(Handler)
           /\ Len(ioQueue) \in Nat /\ 1 \in DOMAIN ioQueue
           /\ DOMAIN ioQueue = 1..Len(ioQueue)
           /\ DOMAIN Tail(ioQueue) = 1..(Len(ioQueue) - 1)
           /\ \A i \in DOMAIN Tail(ioQueue) :
                 i + 1 \in DOMAIN ioQueue /\ Tail(ioQueue)[i] = ioQueue[i + 1]
<1>1. ioQueue \in Seq(Handler)
  BY DEF SchedTypeOK
<1> QED BY <1>1

\* One more posted handler.
LEMMA QueueAppend ==
    ASSUME SchedTypeOK, NEW h \in Handler
    PROVE  /\ Append(ioQueue, h) \in Seq(Handler)
           /\ Len(ioQueue) \in Nat
           /\ DOMAIN ioQueue = 1..Len(ioQueue)
           /\ DOMAIN Append(ioQueue, h) = 1..(Len(ioQueue) + 1)
           /\ \A i \in DOMAIN ioQueue : Append(ioQueue, h)[i] = ioQueue[i]
           /\ Append(ioQueue, h)[Len(ioQueue) + 1] = h
<1>1. ioQueue \in Seq(Handler)
  BY DEF SchedTypeOK
<1> QED BY <1>1

LEMMA InitSched == SchedInit => SchedTypeOK
<1>1. <<>> \in Seq(Handler)
  OBVIOUS
<1> QED
  BY <1>1 DEF SchedInit, SchedTypeOK, States

LEMMA SchedTypeStep ==
    ASSUME SchedTypeOK, [SchedNext]_allVars PROVE SchedTypeOK'
<1> USE EventsAreTasks DEF SchedTypeOK, States
<1>1. ASSUME NEW t \in Caller, PostOther(t) \/ Callers(t) PROVE SchedTypeOK'
  BY <1>1 DEF PostOther, Callers, schedVars
<1>2. ASSUME NEW t \in Caller, NEW e \in Event, AddEvent(t, e) \/ StopEvent(t, e)
      PROVE  SchedTypeOK'
  <2>1. Append(ioQueue, ArmOf(e)) \in Seq(Handler)
        /\ Append(ioQueue, CancelOf(e)) \in Seq(Handler)
    BY Handlers, QueueAppend
  <2> QED
    BY <1>2, <2>1 DEF AddEvent, StopEvent, PostArm, PostCancel, ArmOf, CancelOf
<1>3. CASE SchedWorker
  <2>1. Append(ioQueue, StopHandler) \in Seq(Handler)
    BY Handlers, QueueAppend
  <2> QED
    BY <1>3, <2>1 DEF SchedWorker, SchedQuitStop, SchedRunHalt, schedVars, StopHandler
<1>4. CASE IoArm \/ IoCancel \/ IoStop
  <2>1. Tail(ioQueue) \in Seq(Handler)
    BY <1>4, QueueHead DEF IoArm, IoCancel, IoStop, NextHandler
  <2> QED
    BY <1>4, <2>1 DEF IoArm, IoCancel, IoStop, Cancelled
<1>5. ASSUME NEW e \in Event, IoTimer(e) \/ TimerDue(e) PROVE SchedTypeOK'
  BY <1>5 DEF IoTimer, TimerDue, EraseTimer
<1>6. CASE IoDeliver
  BY <1>6 DEF IoDeliver
<1>7. CASE SpuriousWakeup /\ UNCHANGED schedVars
  BY <1>7 DEF schedVars
<1>8. CASE UNCHANGED allVars
  BY <1>8 DEF allVars, schedVars
<1> QED
  BY <1>1, <1>2, <1>3, <1>4, <1>5, <1>6, <1>7, <1>8 DEF SchedNext, IoThread

\* The scheduler's fields keep their types, whatever is posted to it.
THEOREM SchedulerTypeCorrect == SchedSpec => []SchedTypeOK
<1>1. SchedTypeOK /\ [SchedNext]_allVars => SchedTypeOK'
  BY SchedTypeStep
<1> QED
  BY <1>1, InitSched, PTL DEF SchedSpec

-----------------------------------------------------------------------------
(* The scheduler is a client of the dispatcher.                            *)

LEMMA SchedulerStep ==
    ASSUME SchedTypeOK, [SchedNext]_allVars PROVE [Next]_vars
<1> USE EventsAreTasks
<1>1. ASSUME NEW t \in Caller, PostOther(t) PROVE Next
  <2>1. PICK k \in (IF t = Disp THEN Posted \ SigHalt ELSE Posted) \ Event :
           AddTaskLock(t, k)
    BY <1>1 DEF PostOther
  <2>2. Post(t)
    BY <2>1 DEF Post
  <2> QED BY <2>2 DEF Next
<1>2. ASSUME NEW t \in Caller, Callers(t) PROVE Next
  BY <1>2 DEF Callers, Next
<1>3. ASSUME NEW t \in Caller, NEW e \in Event, AddEvent(t, e) \/ StopEvent(t, e)
      PROVE  UNCHANGED vars
  BY <1>3 DEF AddEvent, StopEvent
<1>4. CASE SchedWorker
  BY <1>4 DEF SchedWorker, SchedQuitStop, SchedRunHalt, Next, Worker
<1>5. CASE IoArm \/ IoCancel \/ IoStop
  BY <1>5 DEF IoArm, IoCancel, IoStop
<1>6. ASSUME NEW e \in Event, IoTimer(e) \/ TimerDue(e) PROVE UNCHANGED vars
  BY <1>6 DEF IoTimer, TimerDue
<1>7. CASE IoDeliver
  <2>1. ioArg \in Event /\ AddTaskLock(Io, ioArg)
    BY <1>7 DEF IoDeliver, SchedTypeOK
  <2>2. Post(Io)
    BY <2>1 DEF Post
  <2> QED BY <2>2 DEF Next
<1>8. CASE SpuriousWakeup /\ UNCHANGED schedVars
  BY <1>8 DEF Next
<1>9. CASE UNCHANGED allVars
  BY <1>9 DEF allVars
<1> QED
  BY <1>1, <1>2, <1>3, <1>4, <1>5, <1>6, <1>7, <1>8, <1>9 DEF SchedNext, IoThread

\* Scheduler reaches the dispatcher only through addTask, stop and shutdown:
\* with the scheduler's thread among its callers the dispatcher behaves as
\* Dispatcher says, and keeps what its theorems promise.
THEOREM SchedulerIsAClient == SchedSpec => Spec
<1>1. SchedInit => Init
  BY DEF SchedInit
<1>2. SchedTypeOK /\ [SchedNext]_allVars => [Next]_vars
  BY SchedulerStep
<1> QED
  BY <1>1, <1>2, SchedulerTypeCorrect, PTL DEF SchedSpec, Spec

-----------------------------------------------------------------------------
(* Where an event is.                                                      *)

\* What is aborted or about to be cancelled was given to stopEvent, unless
\* the scheduler was shut down.
StopsKnown ==
    /\ schedState = "TERMINATED" => ShutdownCalled
    /\ \A e \in Event : timer[e] = "aborted" => e \in stopped \/ ShutdownCalled
    /\ \A i \in DOMAIN ioQueue :
          ioQueue[i].op = "cancel" => ioQueue[i].event \in stopped

\* An event is posted at most once, and it is in one place only: posted, in
\* the timer map, with the timer's handler, or handed over.
OnePlace ==
    \A e \in Event :
        /\ \A i, j \in DOMAIN ioQueue :
              ioQueue[i] = ArmOf(e) /\ ioQueue[j] = ArmOf(e) => i = j
        /\ ArmPending(e) => timer[e] = "absent" /\ ioArg # e /\ status[e] = "new"
        /\ timer[e] # "absent" => ioArg # e /\ status[e] = "new"
        /\ ioArg = e => status[e] = "new"
        /\ e \notin added =>
              ~ArmPending(e) /\ timer[e] = "absent" /\ ioArg # e /\ status[e] = "new"

\* The handler of a timer never hands over a closure that was handed over
\* before: one addEvent, at most one run.
DeliveredOnce == ioArg # None => status[ioArg] = "new"

LEMMA InitEvents == SchedInit => StopsKnown /\ OnePlace /\ NoEventLost
<1> SUFFICES ASSUME SchedInit PROVE StopsKnown /\ OnePlace /\ NoEventLost
  OBVIOUS
<1>1. DOMAIN ioQueue = {}
  BY DEF SchedInit
<1> QED
  BY <1>1, EventsAreTasks
     DEF SchedInit, Init, StopsKnown, OnePlace, NoEventLost, ArmPending

LEMMA PlaceCorrect == Spec => [](BaseInv /\ PlaceInv)
<1>1. BaseInv /\ PlaceInv /\ [Next]_vars => PlaceInv'
  BY NextService, PlaceStep
<1> QED
  BY <1>1, InitPlace, BaseCorrect, PTL DEF Spec

\* What has left the state "new" never returns to it, and an event leaves it
\* only in the hands of the timer's handler.
LEMMA StatusStep ==
    ASSUME SchedTypeOK, BaseInv, PlaceInv, [SchedNext]_allVars, NEW e \in Event
    PROVE  /\ status[e] # "new" => status'[e] # "new"
           /\ status[e] = "new" /\ status'[e] # "new" => IoDeliver /\ ioArg = e
<1> USE EventsAreTasks
<1>0. status \in [Task -> Fates] /\ current \in Entry \cup {None}
  BY DEF BaseInv, TypeOK
<1>1. ASSUME Done(current), current \in Task
      PROVE  status'[e] = status[e] \/ (status[e] # "new" /\ status'[e] # "new")
  <2>1. status[current] = "accepted"
    BY <1>1 DEF PlaceInv
  <2> QED BY <1>0, <1>1, <2>1 DEF Done
<1>2. ASSUME NEW t \in Caller, PostOther(t) PROVE status'[e] = status[e]
  <2>1. PICK k \in Posted \ Event : AddTaskLock(t, k)
    BY <1>2 DEF PostOther
  <2> QED BY <1>0, <2>1 DEF AddTaskLock
<1>3. ASSUME NEW t \in Caller, Callers(t) PROVE status' = status
  BY <1>3 DEF Callers, AddTaskPush, AddTaskNotify
<1>4. CASE SchedWorker
  <2>1. CASE RunPlain \/ RunHalt \/ QuitStop
    <3>1. current \in Task
      BY <2>1, PostedIsTask DEF RunPlain, RunHalt, QuitStop, BaseInv, CallInv, Posted, Task
    <3> QED BY <1>1, <2>1, <3>1 DEF RunPlain, RunHalt, QuitStop
  <2>2. CASE QuitPost
    BY <1>0, <2>2 DEF QuitPost
  <2>3. CASE BatchExpire
    BY <1>0, <2>3 DEF BatchExpire
  <2>4. CASE LoopTest \/ LoopLock \/ LoopRelock \/ BatchEnd \/ BatchTake
             \/ QuitBegin \/ RunTerm
    BY <2>4 DEF LoopTest, LoopLock, LoopRelock, BatchEnd, BatchTake, QuitBegin, RunTerm
  <2> QED
    BY <1>4, <2>1, <2>2, <2>3, <2>4 DEF SchedWorker, SchedQuitStop, SchedRunHalt
<1>5. CASE IoDeliver
  <2>1. ioArg \in Event /\ AddTaskLock(Io, ioArg)
    BY <1>5 DEF IoDeliver, SchedTypeOK
  <2> QED BY <1>0, <1>5, <2>1 DEF AddTaskLock
<1>6. ASSUME \/ \E t \in Caller, x \in Event : AddEvent(t, x) \/ StopEvent(t, x)
             \/ IoArm \/ IoCancel \/ IoStop
             \/ \E x \in Event : IoTimer(x) \/ TimerDue(x)
             \/ SpuriousWakeup \/ UNCHANGED allVars
      PROVE  status' = status
  BY <1>6 DEF AddEvent, StopEvent, IoArm, IoCancel, IoStop, IoTimer, TimerDue,
              SpuriousWakeup, allVars, vars
<1> QED
  BY <1>1, <1>2, <1>3, <1>4, <1>5, <1>6 DEF SchedNext, IoThread

\* No handler posted yet disappears by posting one more.
LEMMA PendingAppend ==
    ASSUME SchedTypeOK, NEW h \in Handler, ioQueue' = Append(ioQueue, h),
           ioStopped' = ioStopped
    PROVE  /\ \A e \in Event : ArmPending(e)' <=> ArmPending(e) \/ h = ArmOf(e)
           /\ ShutdownCalled => ShutdownCalled'
           /\ h.op = "stop" => ShutdownCalled'
<1>1. /\ Len(ioQueue) \in Nat /\ DOMAIN ioQueue = 1..Len(ioQueue)
      /\ DOMAIN ioQueue' = 1..(Len(ioQueue) + 1)
      /\ \A i \in DOMAIN ioQueue : ioQueue'[i] = ioQueue[i]
      /\ ioQueue'[Len(ioQueue) + 1] = h
  BY QueueAppend
<1>2. \A i \in DOMAIN ioQueue : i \in DOMAIN ioQueue'
  BY <1>1
<1>3. Len(ioQueue) + 1 \in DOMAIN ioQueue'
  BY <1>1
<1>4. \A i \in DOMAIN ioQueue' : i \in DOMAIN ioQueue \/ i = Len(ioQueue) + 1
  BY <1>1
<1>5. ASSUME NEW e \in Event PROVE ArmPending(e)' <=> ArmPending(e) \/ h = ArmOf(e)
  BY <1>1, <1>2, <1>3, <1>4 DEF ArmPending, ArmOf
<1>6. ShutdownCalled => ShutdownCalled'
  BY <1>1, <1>2 DEF ShutdownCalled
<1>7. h.op = "stop" => ShutdownCalled'
  BY <1>1, <1>3 DEF ShutdownCalled
<1> QED BY <1>5, <1>6, <1>7

\* The handler taken is the only one that disappears.
LEMMA PendingTail ==
    ASSUME SchedTypeOK, ioQueue # <<>>, ioQueue' = Tail(ioQueue)
    PROVE  /\ \A e \in Event : ArmPending(e) <=> ArmPending(e)' \/ Head(ioQueue) = ArmOf(e)
           /\ ioStopped' = ioStopped /\ Head(ioQueue).op # "stop" =>
                 (ShutdownCalled => ShutdownCalled')
<1>1. /\ Head(ioQueue) = ioQueue[1]
      /\ Len(ioQueue) \in Nat /\ 1 \in DOMAIN ioQueue
      /\ DOMAIN ioQueue = 1..Len(ioQueue)
      /\ DOMAIN ioQueue' = 1..(Len(ioQueue) - 1)
      /\ \A i \in DOMAIN ioQueue' : i + 1 \in DOMAIN ioQueue /\ ioQueue'[i] = ioQueue[i + 1]
  BY QueueHead
<1>2. \A i \in DOMAIN ioQueue : i = 1 \/ (i - 1 \in DOMAIN ioQueue' /\ (i - 1) + 1 = i)
  BY <1>1
<1>3. \A i \in DOMAIN ioQueue :
        i = 1 \/ (i - 1 \in DOMAIN ioQueue' /\ ioQueue'[i - 1] = ioQueue[i])
  BY <1>1, <1>2
<1>4. ASSUME NEW e \in Event
      PROVE  ArmPending(e) <=> ArmPending(e)' \/ Head(ioQueue) = ArmOf(e)
  <2>1. ASSUME ArmPending(e) PROVE ArmPending(e)' \/ Head(ioQueue) = ArmOf(e)
    <3>1. PICK i \in DOMAIN ioQueue : ioQueue[i] = ArmOf(e)
      BY <2>1 DEF ArmPending, ArmOf
    <3>2. CASE i = 1
      BY <1>1, <3>1, <3>2
    <3>3. CASE i # 1
      <4>1. i - 1 \in DOMAIN ioQueue' /\ ioQueue'[i - 1] = ArmOf(e)
        BY <1>3, <3>1, <3>3
      <4> QED BY <4>1 DEF ArmPending, ArmOf
    <3> QED BY <3>2, <3>3
  <2>2. ASSUME ArmPending(e)' PROVE ArmPending(e)
    BY <1>1, <2>2 DEF ArmPending, ArmOf
  <2>3. ASSUME Head(ioQueue) = ArmOf(e) PROVE ArmPending(e)
    BY <1>1, <2>3 DEF ArmPending, ArmOf
  <2> QED BY <2>1, <2>2, <2>3
<1>5. ASSUME ioStopped' = ioStopped, Head(ioQueue).op # "stop", ShutdownCalled
      PROVE  ShutdownCalled'
  BY <1>1, <1>3, <1>5 DEF ShutdownCalled
<1> QED BY <1>4, <1>5

\* An arm handler that is taken was the only one for its event.
LEMMA TakenOnce ==
    ASSUME SchedTypeOK, OnePlace, ioQueue # <<>>, ioQueue' = Tail(ioQueue),
           NEW e \in Event
    PROVE  /\ \A i, j \in DOMAIN ioQueue' :
                 ioQueue'[i] = ArmOf(e) /\ ioQueue'[j] = ArmOf(e) => i = j
           /\ Head(ioQueue) = ArmOf(e) => ~ArmPending(e)'
<1>1. /\ Head(ioQueue) = ioQueue[1]
      /\ Len(ioQueue) \in Nat /\ 1 \in DOMAIN ioQueue
      /\ DOMAIN ioQueue = 1..Len(ioQueue)
      /\ DOMAIN ioQueue' = 1..(Len(ioQueue) - 1)
      /\ \A i \in DOMAIN ioQueue' : i + 1 \in DOMAIN ioQueue /\ ioQueue'[i] = ioQueue[i + 1]
  BY QueueHead
<1>2. \A i, j \in DOMAIN ioQueue :
         ioQueue[i] = ArmOf(e) /\ ioQueue[j] = ArmOf(e) => i = j
  BY DEF OnePlace
<1>3. ASSUME NEW i \in DOMAIN ioQueue', NEW j \in DOMAIN ioQueue',
             ioQueue'[i] = ArmOf(e), ioQueue'[j] = ArmOf(e)
      PROVE  i = j
  <2>1. i + 1 = j + 1
    BY <1>1, <1>2, <1>3
  <2> QED BY <1>1, <2>1
<1>4. ASSUME Head(ioQueue) = ArmOf(e), NEW i \in DOMAIN ioQueue', ioQueue'[i] = ArmOf(e)
      PROVE  FALSE
  <2>1. i + 1 = 1
    BY <1>1, <1>2, <1>4
  <2> QED BY <1>1, <2>1
<1> QED BY <1>3, <1>4 DEF ArmPending, ArmOf

SchedInv == SchedTypeOK /\ BaseInv /\ PlaceInv /\ StopsKnown /\ OnePlace /\ NoEventLost

\* Nothing happens to the events: the queue, the map and the handler's
\* argument stay, no flag of the shutdown is taken back.
LEMMA EventsStay ==
    ASSUME SchedInv, UNCHANGED <<ioQueue, ioStopped, timer, ioArg, added>>,
           stopped' = stopped, schedState' = schedState \/ schedState' = "CLOSING",
           \A e \in Event : status[e] = "new" <=> status'[e] = "new"
    PROVE  StopsKnown' /\ OnePlace' /\ NoEventLost'
<1>1. (ShutdownCalled' <=> ShutdownCalled) /\ \A e \in Event : ArmPending(e)' <=> ArmPending(e)
  BY DEF ShutdownCalled, ArmPending
<1>2. added \subseteq Event
  BY DEF SchedInv, SchedTypeOK
<1>3. StopsKnown'
  BY <1>1 DEF SchedInv, StopsKnown
<1>4. OnePlace'
  BY <1>1 DEF SchedInv, OnePlace
<1>5. NoEventLost'
  BY <1>1, <1>2 DEF SchedInv, NoEventLost
<1> QED BY <1>3, <1>4, <1>5

\* The scheduler's fields, as long as the dispatcher's are left alone.
LEMMA PostStep ==
    ASSUME SchedInv, NEW x \in Event, NEW t \in Caller, AddEvent(t, x) \/ StopEvent(t, x)
    PROVE  StopsKnown' /\ OnePlace' /\ NoEventLost'
<1> DEFINE h == IF AddEvent(t, x) THEN ArmOf(x) ELSE CancelOf(x)
<1>0. /\ h \in Handler /\ ioQueue' = Append(ioQueue, h) /\ status' = status
      /\ UNCHANGED <<schedState, ioStopped, timer, ioArg>>
      /\ stopped \subseteq stopped' /\ added \subseteq Event
  BY Handlers DEF AddEvent, StopEvent, PostArm, PostCancel, ArmOf, CancelOf, vars,
                  SchedInv, SchedTypeOK
<1>1. \/ h = ArmOf(x) /\ x \notin added /\ added' = added \cup {x}
      \/ h = CancelOf(x) /\ added' = added /\ x \in added /\ x \in stopped'
  BY DEF AddEvent, StopEvent
<1> HIDE DEF h
<1>2. /\ Len(ioQueue) \in Nat /\ DOMAIN ioQueue = 1..Len(ioQueue)
      /\ DOMAIN ioQueue' = 1..(Len(ioQueue) + 1)
      /\ \A i \in DOMAIN ioQueue : ioQueue'[i] = ioQueue[i]
      /\ ioQueue'[Len(ioQueue) + 1] = h
  BY <1>0, QueueAppend DEF SchedInv
<1>3. /\ \A e \in Event : ArmPending(e)' <=> ArmPending(e) \/ h = ArmOf(e)
      /\ ShutdownCalled => ShutdownCalled'
  BY <1>0, PendingAppend DEF SchedInv
<1>4. \A e \in Event : h = ArmOf(e) <=> e = x /\ x \notin added
  BY <1>1 DEF ArmOf, CancelOf
<1>5. h.op = "cancel" => h.event \in stopped'
  BY <1>1 DEF ArmOf, CancelOf
<1>6. StopsKnown'
  <2>1. \A i \in DOMAIN ioQueue' :
           ioQueue'[i].op = "cancel" => ioQueue'[i].event \in stopped'
    BY <1>0, <1>2, <1>5 DEF SchedInv, StopsKnown
  <2> QED BY <1>0, <1>3, <2>1 DEF SchedInv, StopsKnown
<1>7. OnePlace'
  <2>1. ASSUME NEW e \in Event
        PROVE  \A i, j \in DOMAIN ioQueue' :
                  ioQueue'[i] = ArmOf(e) /\ ioQueue'[j] = ArmOf(e) => i = j
    <3>1. CASE h = ArmOf(e)
      <4>1. \A i \in DOMAIN ioQueue : ioQueue[i] # ArmOf(e)
        BY <1>4, <3>1 DEF SchedInv, OnePlace, ArmPending, ArmOf
      <4> QED BY <1>2, <4>1
    <3>2. CASE h # ArmOf(e)
      BY <1>2, <3>2 DEF SchedInv, OnePlace
    <3> QED BY <3>1, <3>2
  <2>2. ASSUME NEW e \in Event, ArmPending(e)'
        PROVE  timer[e] = "absent" /\ ioArg # e /\ status[e] = "new"
    BY <1>3, <1>4, <2>2 DEF SchedInv, OnePlace
  <2>3. ASSUME NEW e \in Event, e \notin added'
        PROVE  ~ArmPending(e)' /\ e \notin added
    BY <1>1, <1>3, <1>4, <2>3 DEF SchedInv, OnePlace
  <2> QED BY <1>0, <2>1, <2>2, <2>3 DEF SchedInv, OnePlace
<1>8. NoEventLost'
  <2>1. ASSUME NEW e \in added', e \notin added PROVE ArmPending(e)'
    BY <1>1, <1>3, <1>4, <2>1
  <2>2. added' \subseteq Event
    BY <1>0, <1>1
  <2> QED BY <1>0, <1>3, <2>1, <2>2 DEF SchedInv, NoEventLost
<1> QED BY <1>6, <1>7, <1>8

\* A posted handler runs: an arm moves its event into the map, a cancel and
\* the stop abort waits, never one that is due.
LEMMA HandlerStep ==
    ASSUME SchedInv, IoArm \/ IoCancel \/ IoStop
    PROVE  StopsKnown' /\ OnePlace' /\ NoEventLost'
<1> USE EventsAreTasks
<1>0. /\ ioQueue # <<>> /\ ioQueue' = Tail(ioQueue) /\ ioArg = None
      /\ UNCHANGED <<status, schedState, ioArg, stopped, added>> /\ added \subseteq Event
      /\ timer \in [Event -> {"absent", "armed", "due", "aborted"}]
  BY DEF IoArm, IoCancel, IoStop, NextHandler, IoIdle, vars, SchedInv, SchedTypeOK
<1>1. /\ Head(ioQueue) \in Handler /\ Head(ioQueue) = ioQueue[1]
      /\ Len(ioQueue) \in Nat /\ 1 \in DOMAIN ioQueue
      /\ DOMAIN ioQueue' = 1..(Len(ioQueue) - 1)
      /\ \A i \in DOMAIN ioQueue' : i + 1 \in DOMAIN ioQueue /\ ioQueue'[i] = ioQueue[i + 1]
  BY <1>0, QueueHead DEF SchedInv
<1>2. \A e \in Event : ArmPending(e) <=> ArmPending(e)' \/ Head(ioQueue) = ArmOf(e)
  BY <1>0, PendingTail DEF SchedInv
<1>3. ShutdownCalled => ShutdownCalled'
  BY <1>0, PendingTail DEF IoArm, IoCancel, IoStop, NextHandler, ShutdownCalled, SchedInv
<1>4. \A e \in Event :
         /\ \A i, j \in DOMAIN ioQueue' :
               ioQueue'[i] = ArmOf(e) /\ ioQueue'[j] = ArmOf(e) => i = j
         /\ Head(ioQueue) = ArmOf(e) => ~ArmPending(e)'
  BY <1>0, TakenOnce DEF SchedInv
<1>5. \A i \in DOMAIN ioQueue' :
         ioQueue'[i].op = "cancel" => ioQueue'[i].event \in stopped'
  BY <1>0, <1>1 DEF SchedInv, StopsKnown
\* What happens to the waits.
<1>6. \A e \in Event :
         \/ timer'[e] = timer[e] /\ Head(ioQueue) # ArmOf(e)
         \/ timer'[e] = "armed" /\ Head(ioQueue) = ArmOf(e)
         \/ /\ timer[e] = "armed" /\ timer'[e] = "aborted" /\ Head(ioQueue) # ArmOf(e)
            /\ e \in stopped \/ ShutdownCalled'
  <2>1. CASE IoArm
    <3>1. Head(ioQueue).event \in Event /\ Head(ioQueue) = ArmOf(Head(ioQueue).event)
      BY <1>1, <2>1, Handlers DEF IoArm, NextHandler
    <3>2. \A e \in Event : Head(ioQueue) = ArmOf(e) <=> e = Head(ioQueue).event
      BY <3>1 DEF ArmOf
    <3> QED BY <1>0, <2>1, <3>1, <3>2 DEF IoArm
  <2>2. CASE IoCancel
    <3>1. Head(ioQueue).event \in Event /\ Head(ioQueue).op = "cancel"
      BY <1>1, <2>2, Handlers DEF IoCancel, NextHandler
    <3>2. \A e \in Event : Head(ioQueue) # ArmOf(e)
      BY <3>1 DEF ArmOf
    <3>3. Head(ioQueue).event \in stopped
      BY <1>1, <3>1 DEF SchedInv, StopsKnown
    <3> QED BY <1>0, <2>2, <3>1, <3>2, <3>3 DEF IoCancel, Cancelled
  <2>3. CASE IoStop
    <3>1. \A e \in Event : Head(ioQueue) # ArmOf(e)
      BY <2>3 DEF IoStop, NextHandler, ArmOf
    <3>2. ShutdownCalled'
      BY <2>3 DEF IoStop, ShutdownCalled
    <3> QED BY <1>0, <2>3, <3>1, <3>2 DEF IoStop, Cancelled
  <2> QED BY <2>1, <2>2, <2>3
<1>7. StopsKnown'
  BY <1>0, <1>3, <1>5, <1>6 DEF SchedInv, StopsKnown
<1>8. OnePlace'
  <2>1. ASSUME NEW e \in Event, ArmPending(e)'
        PROVE  timer'[e] = "absent" /\ status[e] = "new"
    BY <1>2, <1>4, <1>6, <2>1 DEF SchedInv, OnePlace
  <2>2. ASSUME NEW e \in Event, timer'[e] # "absent" PROVE status[e] = "new"
    BY <1>2, <1>6, <2>2 DEF SchedInv, OnePlace
  <2>3. ASSUME NEW e \in Event, e \notin added
        PROVE  ~ArmPending(e)' /\ timer'[e] = "absent" /\ status[e] = "new"
    BY <1>2, <1>6, <2>3 DEF SchedInv, OnePlace
  <2> QED BY <1>0, <1>4, <2>1, <2>2, <2>3 DEF OnePlace
<1>9. NoEventLost'
  BY <1>0, <1>2, <1>3, <1>6 DEF SchedInv, NoEventLost
<1> QED BY <1>7, <1>8, <1>9

\* A wait becomes due, its handler erases it and drops it or takes it on.
LEMMA TimerStep ==
    ASSUME SchedInv, NEW x \in Event, IoTimer(x) \/ TimerDue(x)
    PROVE  StopsKnown' /\ OnePlace' /\ NoEventLost'
<1> USE EventsAreTasks
<1>0. /\ UNCHANGED <<status, schedState, ioQueue, ioStopped, stopped, added>>
      /\ added \subseteq Event /\ timer[x] # "absent"
      /\ timer \in [Event -> {"absent", "armed", "due", "aborted"}]
  BY DEF IoTimer, TimerDue, vars, SchedInv, SchedTypeOK
<1>1. (ShutdownCalled' <=> ShutdownCalled) /\ \A e \in Event : ArmPending(e)' <=> ArmPending(e)
  BY <1>0 DEF ShutdownCalled, ArmPending
<1>2. \/ timer' = [timer EXCEPT ![x] = "due"] /\ ioArg' = ioArg
      \/ /\ timer' = [timer EXCEPT ![x] = "absent"] /\ ioArg = None
         /\ \/ ioArg' = x
            \/ ioArg' = None /\ (x \in stopped \/ ShutdownCalled)
  BY DEF IoTimer, TimerDue, EraseTimer, DropsEvent, IoIdle, SchedInv, StopsKnown
<1>3. StopsKnown'
  BY <1>0, <1>1, <1>2 DEF SchedInv, StopsKnown
<1>4. OnePlace'
  BY <1>0, <1>1, <1>2 DEF SchedInv, OnePlace
<1>5. NoEventLost'
  BY <1>0, <1>1, <1>2 DEF SchedInv, NoEventLost
<1> QED BY <1>3, <1>4, <1>5

\* The closure is handed to the dispatcher, which takes or refuses it.
LEMMA DeliverStep ==
    ASSUME SchedInv, [SchedNext]_allVars, IoDeliver
    PROVE  StopsKnown' /\ OnePlace' /\ NoEventLost'
<1> USE EventsAreTasks
<1>0. /\ UNCHANGED <<schedState, ioQueue, ioStopped, timer, stopped, added>>
      /\ added \subseteq Event /\ ioArg \in Event /\ ioArg' = None
  BY DEF IoDeliver, SchedInv, SchedTypeOK
<1>1. (ShutdownCalled' <=> ShutdownCalled) /\ \A e \in Event : ArmPending(e)' <=> ArmPending(e)
  BY <1>0 DEF ShutdownCalled, ArmPending
<1>2. \A e \in Event : /\ status[e] # "new" => status'[e] # "new"
                       /\ e # ioArg /\ status[e] = "new" => status'[e] = "new"
  BY StatusStep DEF SchedInv
<1>3. status'[ioArg] # "new"
  BY <1>0 DEF IoDeliver, AddTaskLock, SchedInv, BaseInv, TypeOK
<1>4. StopsKnown'
  BY <1>0, <1>1 DEF SchedInv, StopsKnown
<1>5. OnePlace'
  BY <1>0, <1>1, <1>2 DEF SchedInv, OnePlace
<1>6. NoEventLost'
  BY <1>0, <1>1, <1>2, <1>3 DEF SchedInv, NoEventLost
<1> QED BY <1>4, <1>5, <1>6

\* Game::shutdown posts the handler that stops the io_context.
LEMMA HaltPostStep ==
    ASSUME SchedInv, [SchedNext]_allVars, SchedRunHalt, ~IoDeliver
    PROVE  StopsKnown' /\ OnePlace' /\ NoEventLost'
<1> USE EventsAreTasks
<1>0. /\ UNCHANGED <<ioStopped, timer, ioArg, added, stopped>> /\ added \subseteq Event
      /\ ioQueue' = Append(ioQueue, StopHandler) /\ StopHandler \in Handler
  BY Handlers DEF SchedRunHalt, SchedInv, SchedTypeOK, StopHandler
<1>1. /\ Len(ioQueue) \in Nat /\ DOMAIN ioQueue = 1..Len(ioQueue)
      /\ DOMAIN ioQueue' = 1..(Len(ioQueue) + 1)
      /\ \A i \in DOMAIN ioQueue : ioQueue'[i] = ioQueue[i]
      /\ ioQueue'[Len(ioQueue) + 1] = StopHandler
  BY <1>0, QueueAppend DEF SchedInv
<1>2. ShutdownCalled' /\ \A e \in Event : ArmPending(e)' <=> ArmPending(e)
  BY <1>0, PendingAppend DEF SchedInv, StopHandler, ArmOf
<1>3. \A e \in Event : status[e] = "new" <=> status'[e] = "new"
  BY StatusStep DEF SchedInv
<1>4. StopsKnown'
  <2>1. \A i \in DOMAIN ioQueue' :
           ioQueue'[i].op = "cancel" => ioQueue'[i].event \in stopped'
    BY <1>0, <1>1 DEF SchedInv, StopsKnown, StopHandler
  <2> QED BY <1>2, <2>1 DEF StopsKnown
<1>5. OnePlace'
  <2>1. \A e \in Event : StopHandler # ArmOf(e)
    BY DEF StopHandler, ArmOf
  <2>2. \A e \in Event : \A i, j \in DOMAIN ioQueue' :
           ioQueue'[i] = ArmOf(e) /\ ioQueue'[j] = ArmOf(e) => i = j
    BY <1>1, <2>1 DEF SchedInv, OnePlace
  <2> QED BY <1>0, <1>2, <1>3, <2>2 DEF SchedInv, OnePlace
<1>6. NoEventLost'
  BY <1>2 DEF NoEventLost
<1> QED BY <1>4, <1>5, <1>6

LEMMA EventStep ==
    ASSUME SchedInv, [SchedNext]_allVars
    PROVE  StopsKnown' /\ OnePlace' /\ NoEventLost'
<1>1. CASE IoDeliver
  BY <1>1, DeliverStep
<1>2. CASE SchedRunHalt /\ ~IoDeliver
  BY <1>2, HaltPostStep
<1>3. CASE \E x \in Event, t \in Caller : AddEvent(t, x) \/ StopEvent(t, x)
  BY <1>3, PostStep
<1>4. CASE IoArm \/ IoCancel \/ IoStop
  BY <1>4, HandlerStep
<1>5. CASE \E x \in Event : IoTimer(x) \/ TimerDue(x)
  BY <1>5, TimerStep
<1>6. CASE /\ ~IoDeliver
           /\ \/ \E t \in Caller : PostOther(t) \/ Callers(t)
              \/ SchedWorker /\ ~SchedRunHalt
              \/ SpuriousWakeup /\ UNCHANGED schedVars
              \/ UNCHANGED allVars
  <2>1. /\ UNCHANGED <<ioQueue, ioStopped, timer, ioArg, added, stopped>>
        /\ schedState' = schedState \/ schedState' = "CLOSING"
    BY <1>6 DEF PostOther, Callers, SchedWorker, SchedQuitStop, schedVars, allVars
  <2>2. \A e \in Event : status[e] = "new" <=> status'[e] = "new"
    BY <1>6, StatusStep DEF SchedInv
  <2> QED BY <2>1, <2>2, EventsStay
<1> QED
  BY <1>1, <1>2, <1>3, <1>4, <1>5, <1>6 DEF SchedNext, IoThread

LEMMA SchedulerSafe == SchedSpec => []SchedInv
<1>1. SchedInv /\ [SchedNext]_allVars /\ (BaseInv /\ PlaceInv)' => SchedInv'
  BY SchedTypeStep, EventStep DEF SchedInv
<1>2. SchedInit /\ BaseInv /\ PlaceInv => SchedInv
  BY InitSched, InitEvents DEF SchedInv
<1> QED
  BY <1>1, <1>2, SchedulerIsAClient, PlaceCorrect, PTL DEF SchedSpec

\* Of an event given to addEvent, only stopEvent and the shutdown of the
\* scheduler can make the closure disappear before the dispatcher gets it,
\* however the posts, the timers and the shutdown interleave.
THEOREM EventsNeverLost == SchedSpec => []NoEventLost
BY SchedulerSafe, PTL DEF SchedInv

\* A timer's handler never calls addTask with a closure that was handed over
\* before.
THEOREM EventsDeliveredOnce == SchedSpec => []DeliveredOnce
<1>1. SchedInv => DeliveredOnce
  BY DEF SchedInv, SchedTypeOK, OnePlace, DeliveredOnce
<1> QED
  BY <1>1, SchedulerSafe, PTL
=============================================================================
