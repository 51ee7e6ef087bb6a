----------------------------- MODULE Dispatcher -----------------------------
(***************************************************************************)
(* Dispatcher (dispatcher.h, dispatcher.cpp, thread_holder_base.h): one    *)
(* thread executes closures that any thread appends to a list under a      *)
(* mutex.  The caller side (addTask) and the worker loop (threadMain) are  *)
(* split where another thread can be scheduled: at the mutex, at the       *)
(* condition variable, between the unlock and the notify, and between the  *)
(* closures of a batch.  The shutdown routes are here too, because what    *)
(* happens to the last closures depends on the order in which              *)
(* Game::setGameState(GAMESTATE_SHUTDOWN) and Game::shutdown touch the     *)
(* list and the thread state.                                              *)
(***************************************************************************)
EXTENDS Naturals, Sequences, FiniteSets

CONSTANTS
    Thread,    \* threads other than the dispatcher's that call addTask
    Disp,      \* the dispatcher thread
    Plain,     \* closures of addDispatcherTask
    Timed,     \* closures of addTimedDispatcherTask (2000 ms to start)
    Quit,      \* closures that call setGameState(GAMESTATE_SHUTDOWN)
    SigHalt,   \* closures that call Game::shutdown, posted on SIGTERM
    QuitHalt,  \* the Game::shutdown closure posted by setGameState
    Term,      \* the closure Dispatcher::shutdown appends
    None       \* no holder, no argument

Posted == Plain \cup Timed \cup Quit \cup SigHalt
Task   == Posted \cup {QuitHalt}
Entry  == Task \cup {Term}
Caller == Thread \cup {Disp}

ASSUME DispatcherAssumption ==
    /\ Disp \notin Thread
    /\ None \notin Caller \cup Entry
    /\ Term \notin Task
    /\ QuitHalt \notin Posted
    /\ Timed \cap (Plain \cup Quit \cup SigHalt) = {}
    /\ Quit \cap (Plain \cup SigHalt) = {}
    /\ Plain \cap SigHalt = {}

VARIABLES
    threadState,   \* ThreadHolder::threadState
    taskList,      \* Dispatcher::taskList
    tmpTaskList,   \* what is left of the batch in threadMain
    taskLock,      \* the thread that holds Dispatcher::taskLock, or None
    dispPc,        \* where threadMain is
    current,       \* the closure threadMain is executing, or None
    callPc,        \* where each thread is in addTask
    callArg,       \* the closure that call was given
    gameShutdown,  \* gameState = GAMESTATE_SHUTDOWN
    status         \* what became of each closure (history)

vars == <<threadState, taskList, tmpTaskList, taskLock, dispPc, current,
          callPc, callArg, gameShutdown, status>>

queueVars == <<taskList, tmpTaskList>>
callVars  == <<callPc, callArg>>

Init ==
    /\ threadState = "RUNNING"
    /\ taskList = <<>>
    /\ tmpTaskList = <<>>
    /\ taskLock = None
    /\ dispPc = "test"
    /\ current = None
    /\ callPc = [t \in Caller |-> "idle"]
    /\ callArg = [t \in Caller |-> None]
    /\ gameShutdown = FALSE
    /\ status = [k \in Task |-> "new"]

-----------------------------------------------------------------------------
(* Mutated forms of the operators below, one per plausible slip.           *)

\* The emptiness test made after the push: nobody is ever signalled.
MUTDoSignalLate(list) == Append(list, Term) = <<>>

\* The batch is copied out but the shared list is not emptied.
MUTSwapKeeps == tmpTaskList' = taskList /\ UNCHANGED taskList

\* The terminating closure stores CLOSING.
MUTTermState == "CLOSING"

\* setGameState forgets to stop the dispatcher.
MUTStopNothing == UNCHANGED threadState

-----------------------------------------------------------------------------
(* addTask, called by any thread.                                          *)

\* do_signal = taskList.empty(), read before the push.
DoSignal(list) == list = <<>>

AcceptsTasks == threadState = "RUNNING"

\* A thread that may start a call: the dispatcher only from inside a closure.
MayCall(t) ==
    /\ callPc[t] = "idle"
    /\ t = Disp => dispPc = "run"

\* taskLock.lock() and the test of the thread state.  A closure that is not
\* accepted is destroyed without a word to the caller.
AddTaskLock(t, k) ==
    /\ MayCall(t)
    /\ taskLock = None
    /\ status[k] = "new"
    /\ IF AcceptsTasks
       THEN /\ taskLock' = t
            /\ callPc' = [callPc EXCEPT ![t] = "push"]
            /\ callArg' = [callArg EXCEPT ![t] = k]
            /\ status' = [status EXCEPT ![k] = "accepted"]
       ELSE /\ status' = [status EXCEPT ![k] = "refused"]
            /\ UNCHANGED <<taskLock, callPc, callArg>>
    /\ UNCHANGED <<threadState, queueVars, dispPc, current, gameShutdown>>

\* The closure a call hands over.
PushedTask(t) == callArg[t]

\* push_back and unlock.
AddTaskPush(t) ==
    /\ callPc[t] = "push"
    /\ taskList' = Append(taskList, PushedTask(t))
    /\ taskLock' = None
    /\ callPc' = [callPc EXCEPT ![t] =
                     IF DoSignal(taskList) THEN "notify" ELSE "idle"]
    /\ callArg' = [callArg EXCEPT ![t] = None]
    /\ UNCHANGED <<threadState, tmpTaskList, dispPc, current, gameShutdown, status>>

\* taskSignal.notify_one(), after the unlock: lost when nobody waits.
AddTaskNotify(t) ==
    /\ callPc[t] = "notify"
    /\ callPc' = [callPc EXCEPT ![t] = "idle"]
    /\ dispPc' = IF dispPc = "waiting" THEN "relock" ELSE dispPc
    /\ UNCHANGED <<threadState, queueVars, taskLock, current, callArg,
                   gameShutdown, status>>

\* Threads outside the dispatcher and the signal handlers post anything but
\* the closure setGameState posts itself; closures of the dispatcher post
\* more closures (globalSave posts the one that quits).
Post(t) == \E k \in (IF t = Disp THEN Posted \ SigHalt ELSE Posted) :
               AddTaskLock(t, k)

-----------------------------------------------------------------------------
(* threadMain.                                                             *)

LoopTest ==
    /\ dispPc = "test"
    /\ dispPc' = IF threadState = "TERMINATED" THEN "exited" ELSE "lock"
    /\ UNCHANGED <<threadState, queueVars, taskLock, current, callVars,
                   gameShutdown, status>>

SwapLists == tmpTaskList' = taskList /\ taskList' = <<>>

\* Lock; wait (releasing the lock) when the list is empty, else swap, unlock.
LoopLock ==
    /\ dispPc = "lock"
    /\ taskLock = None
    /\ IF taskList = <<>>
       THEN dispPc' = "waiting" /\ UNCHANGED queueVars
       ELSE dispPc' = "batch" /\ SwapLists
    /\ UNCHANGED <<threadState, taskLock, current, callVars, gameShutdown, status>>

\* wait() has no predicate, so it may return although nothing was signalled.
SpuriousWakeup ==
    /\ dispPc = "waiting"
    /\ dispPc' = "relock"
    /\ UNCHANGED <<threadState, queueVars, taskLock, current, callVars,
                   gameShutdown, status>>

\* wait() has the lock again; the swap follows whatever the list holds.
LoopRelock ==
    /\ dispPc = "relock"
    /\ taskLock = None
    /\ dispPc' = "batch"
    /\ SwapLists
    /\ UNCHANGED <<threadState, taskLock, current, callVars, gameShutdown, status>>

BatchEnd ==
    /\ dispPc = "batch"
    /\ tmpTaskList = <<>>
    /\ dispPc' = "test"
    /\ UNCHANGED <<threadState, queueVars, taskLock, current, callVars,
                   gameShutdown, status>>

BatchTake ==
    /\ dispPc = "batch"
    /\ tmpTaskList # <<>>
    /\ current' = Head(tmpTaskList)
    /\ tmpTaskList' = Tail(tmpTaskList)
    /\ dispPc' = "run"
    /\ UNCHANGED <<threadState, taskList, taskLock, callVars, gameShutdown, status>>

\* hasExpired(): the closure is skipped, the caller is not told.
BatchExpire ==
    /\ dispPc = "batch"
    /\ tmpTaskList # <<>>
    /\ Head(tmpTaskList) \in Timed
    /\ tmpTaskList' = Tail(tmpTaskList)
    /\ status' = [status EXCEPT ![Head(tmpTaskList)] = "expired"]
    /\ UNCHANGED <<threadState, taskList, taskLock, dispPc, current, callVars,
                   gameShutdown>>

-----------------------------------------------------------------------------
(* The closures themselves.                                                *)

\* The dispatcher leaves the closure it is in, once its own calls returned.
Leave ==
    /\ dispPc = "run"
    /\ callPc[Disp] = "idle"
    /\ dispPc' = "batch"
    /\ current' = None
    /\ UNCHANGED <<tmpTaskList, callVars>>

Done(k) == status' = [status EXCEPT ![k] = "done"]

\* An ordinary closure returns; so does a second setGameState(SHUTDOWN),
\* which finds gameState = GAMESTATE_SHUTDOWN and does nothing.
RunPlain ==
    /\ current \in Plain \cup Timed \/ (current \in Quit /\ gameShutdown)
    /\ Leave
    /\ Done(current)
    /\ UNCHANGED <<threadState, taskList, taskLock, gameShutdown>>

\* setGameState(GAMESTATE_SHUTDOWN), first half: the state is set, the
\* players are kicked and saved, then Game::shutdown is posted.
QuitBegin ==
    /\ dispPc = "run"
    /\ current \in Quit
    /\ ~gameShutdown
    /\ gameShutdown' = TRUE
    /\ dispPc' = "quit"
    /\ UNCHANGED <<threadState, queueVars, taskLock, current, callVars, status>>

\* addDispatcherTask([this]() { shutdown(); }).
QuitPost ==
    /\ dispPc = "quit"
    /\ callPc[Disp] = "idle"
    /\ status[QuitHalt] = "new"
    /\ taskLock = None
    /\ IF AcceptsTasks
       THEN /\ taskLock' = Disp
            /\ callPc' = [callPc EXCEPT ![Disp] = "push"]
            /\ callArg' = [callArg EXCEPT ![Disp] = QuitHalt]
            /\ status' = [status EXCEPT ![QuitHalt] = "accepted"]
       ELSE /\ status' = [status EXCEPT ![QuitHalt] = "refused"]
            /\ UNCHANGED <<taskLock, callPc, callArg>>
    /\ UNCHANGED <<threadState, queueVars, dispPc, current, gameShutdown>>

\* ThreadHolder::stop: an unconditional store.
StopDispatcher == threadState' = "CLOSING"

\* Second half, once the post returned: g_dispatcher.stop().
QuitStop ==
    /\ dispPc = "quit"
    /\ callPc[Disp] = "idle"
    /\ status[QuitHalt] # "new"
    /\ StopDispatcher
    /\ dispPc' = "batch"
    /\ current' = None
    /\ Done(current)
    /\ UNCHANGED <<queueVars, taskLock, callVars, gameShutdown>>

AppendTerm == taskList' = Append(taskList, Term)

\* Game::shutdown: Dispatcher::shutdown appends the terminating closure
\* under the lock, whatever the thread state is.  Its notify_one finds nobody:
\* it is the dispatcher's own thread, the only one to wait, that calls it.
RunHalt ==
    /\ current \in SigHalt \cup {QuitHalt}
    /\ Leave
    /\ taskLock = None
    /\ AppendTerm
    /\ Done(current)
    /\ UNCHANGED <<threadState, taskLock, gameShutdown>>

TermState == "TERMINATED"

\* The terminating closure: the loop ends at its next test, after the rest
\* of the batch.
RunTerm ==
    /\ current = Term
    /\ Leave
    /\ threadState' = TermState
    /\ UNCHANGED <<taskList, taskLock, gameShutdown, status>>

-----------------------------------------------------------------------------
Worker ==
    \/ LoopTest \/ LoopLock \/ LoopRelock
    \/ BatchEnd \/ BatchTake \/ BatchExpire
    \/ RunPlain \/ QuitBegin \/ QuitPost \/ QuitStop \/ RunHalt \/ RunTerm

Next ==
    \/ \E t \in Caller : Post(t) \/ AddTaskPush(t) \/ AddTaskNotify(t)
    \/ Worker
    \/ SpuriousWakeup

Spec == Init /\ [][Next]_vars

\* A thread inside addTask goes on, and so does the worker unless it waits
\* for a signal.  Nobody has to post, and wake-ups out of nowhere are not
\* promised.
Fairness ==
    /\ WF_vars(Worker)
    /\ \A t \in Caller : WF_vars(AddTaskPush(t)) /\ WF_vars(AddTaskNotify(t))

FairSpec == Spec /\ Fairness
-----------------------------------------------------------------------------
(* Properties.                                                             *)

CallPcs == {"idle", "push", "notify"}
DispPcs == {"test", "lock", "waiting", "relock", "batch", "run", "quit", "exited"}
States  == {"RUNNING", "CLOSING", "TERMINATED"}
Fates   == {"new", "accepted", "refused", "expired", "done"}

\* The types of the dispatcher's fields, of the worker's locals and of the
\* callers' locals.
TypeOK ==
    /\ threadState \in States
    /\ taskList \in Seq(Entry)
    /\ tmpTaskList \in Seq(Entry)
    /\ taskLock \in Caller \cup {None}
    /\ dispPc \in DispPcs
    /\ current \in Entry \cup {None}
    /\ callPc \in [Caller -> CallPcs]
    /\ callArg \in [Caller -> Task \cup {None}]
    /\ gameShutdown \in BOOLEAN
    /\ status \in [Task -> Fates]

\* addTask signals after it released the mutex and only for the first
\* closure of a list.  The worker still never sleeps on a list that holds
\* closures unless a thread is about to signal it.
NoLostWakeup ==
    dispPc = "waiting" /\ taskList # <<>>
        => \E t \in Caller : callPc[t] = "notify"

\* No SIGTERM was served: the only way down is setGameState(SHUTDOWN).
Orderly == \A h \in SigHalt : status[h] \in {"new", "refused"}

\* setGameState(GAMESTATE_SHUTDOWN) stops the dispatcher before Game::shutdown
\* appends the terminating closure, so everything accepted is ahead of it:
\* when threadMain has returned, no accepted closure was left behind.
NothingLost ==
    dispPc = "exited" /\ Orderly => \A k \in Task : status[k] # "accepted"

\* The dispatcher keeps what TaskService promises its clients.  A closure on
\* its way through addTask counts as queued from the moment it is accepted.
InFlight == IF taskLock = None THEN <<>> ELSE <<callArg[taskLock]>>

\* What has been accepted and not started, oldest first.
Backlog == tmpTaskList \o taskList \o InFlight

Service == INSTANCE TaskService WITH
    pending <- Backlog,
    running <- current,
    open    <- threadState = "RUNNING",
    halted  <- dispPc = "exited",
    outcome <- status

ImplementsTaskService == Service!SSpec

\* Every accepted closure is eventually executed, or skipped because it was
\* late, unless the worker left first.
AcceptedRuns ==
    \A k \in Task : status[k] = "accepted"
        ~> (status[k] \in {"done", "expired"} \/ dispPc = "exited")

\* Once the game state is SHUTDOWN the dispatcher thread ends, whatever is
\* posted meanwhile (so that main can join it), as long as SIGTERM is not
\* served as well.
ShutdownEnds == gameShutdown ~> (dispPc = "exited" \/ ~Orderly)

\* A SIGTERM that was accepted ends the dispatcher thread: otserv.cpp
\* registers the signal as "shutdown".
SigTermEnds ==
    \A h \in SigHalt : status[h] = "accepted" ~> dispPc = "exited"

-----------------------------------------------------------------------------
(* The strengthening behind TypeOK, NoLostWakeup (SchedulerProofs) and    *)
(* NothingLost.                                                            *)

\* A thread holds the mutex exactly while it is about to push a closure, and
\* the dispatcher calls addTask only from inside a closure; outside a batch
\* the worker's local list is empty.
CallInv ==
    /\ \A t \in Caller : callPc[t] = "push" <=> taskLock = t
    /\ \A t \in Caller : callPc[t] = "push" => callArg[t] \in Task
    /\ callPc[Disp] # "idle" => dispPc \in {"run", "quit"}
    /\ current = None <=> dispPc \notin {"run", "quit"}
    /\ dispPc = "quit" => current \in Quit
    /\ dispPc \notin {"batch", "run", "quit"} => tmpTaskList = <<>>

Holds(k) == \E i \in 1..Len(Backlog) : Backlog[i] = k

\* A closure is in one place only, and exactly while it is "accepted".
PlaceInv ==
    /\ \A i, j \in 1..Len(Backlog) :
          Backlog[i] = Backlog[j] /\ Backlog[i] # Term => i = j
    /\ \A k \in Task : current = k => ~Holds(k)
    /\ \A k \in Task : Holds(k) \/ current = k <=> status[k] = "accepted"

\* The terminating closure has been appended.
TermOut == Holds(Term) \/ current = Term \/ threadState = "TERMINATED"

\* On the orderly route Game::shutdown runs only after the dispatcher was
\* stopped, the terminating closure exists only after that, and nothing is
\* accepted any more, so nothing stands behind it.
ShutdownInv ==
    Orderly =>
      /\ status[QuitHalt] # "new" => gameShutdown
      /\ status[QuitHalt] \in {"accepted", "done"}
            => dispPc = "quit" \/ threadState # "RUNNING"
      /\ dispPc = "quit" => gameShutdown
      /\ dispPc = "exited" => threadState = "TERMINATED"
      /\ TermOut => /\ threadState # "RUNNING"
                    /\ dispPc # "quit"
                    /\ status[QuitHalt] = "done"
      /\ \A i \in 1..Len(Backlog) : Backlog[i] = Term => i = Len(Backlog)
      /\ current = Term \/ threadState = "TERMINATED" => Backlog = <<>>
=============================================================================
