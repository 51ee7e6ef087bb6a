----------------------------- MODULE Scheduler -----------------------------
(***************************************************************************)
(* Scheduler (scheduler.h, scheduler.cpp) composed with Dispatcher.  One   *)
(* thread runs an asio io_context; addEvent and stopEvent only post        *)
(* handlers to it, timers complete on it, and a timer that completes hands *)
(* its closure to the dispatcher.  The three hand-overs (post, timer       *)
(* completion, addTask) are separate steps, so that a stopEvent can meet   *)
(* its event at any of them.                                               *)
(* Time is not measured: an armed timer may become due at any moment.      *)
(***************************************************************************)
EXTENDS Dispatcher

CONSTANTS
    Io,     \* the scheduler's thread
    Event   \* the closures given to addEvent, each with its own event id

ASSUME SchedulerAssumption == Io \in Thread /\ Event \subseteq Plain

VARIABLES
    schedState,  \* Scheduler's ThreadHolder::threadState
    ioQueue,     \* handlers posted to io_context, oldest first
    ioStopped,   \* io_context.stop() was called: run() returns
    timer,       \* eventIdTimerMap: absent, or the state of the wait
    ioArg,       \* the event whose timer handler is about to call addTask
    added,       \* events given to addEvent (history)
    stopped      \* events given to an effective stopEvent (history)

schedVars == <<schedState, ioQueue, ioStopped, timer, ioArg, added, stopped>>
allVars   == <<vars, schedVars>>

SchedInit ==
    /\ Init
    /\ schedState = "RUNNING"
    /\ ioQueue = <<>>
    /\ ioStopped = FALSE
    /\ timer = [e \in Event |-> "absent"]
    /\ ioArg = None
    /\ added = {}
    /\ stopped = {}

Handler == [op : {"arm", "cancel"}, event : Event] \cup {[op |-> "stop"]}

-----------------------------------------------------------------------------
(* Mutated forms, one per plausible slip.                                  *)

\* stopEvent runs its search at once instead of behind the pending posts.
MUTPostCancel(e) == ioQueue' = <<[op |-> "cancel", event |-> e]>> \o ioQueue

\* Shutdown cancels the timers of a scheduler that is still closing.
MUTDropsEvent(e) == timer[e] = "aborted" \/ schedState # "RUNNING"

\* An event whose timer completed while another was delivered is forgotten.
MUTEraseTimer(e) == timer' = [x \in Event |-> "absent"]

-----------------------------------------------------------------------------
(* Any thread.                                                             *)

PostArm(e) == ioQueue' = Append(ioQueue, [op |-> "arm", event |-> e])

\* addEvent looks at no state: after shutdown the post is never run.
AddEvent(t, e) ==
    /\ MayCall(t)
    /\ e \notin added
    /\ added' = added \cup {e}
    /\ PostArm(e)
    /\ UNCHANGED <<vars, schedState, ioStopped, timer, ioArg, stopped>>

PostCancel(e) == ioQueue' = Append(ioQueue, [op |-> "cancel", event |-> e])

\* stopEvent returns at once unless the scheduler is running.
StopEvent(t, e) ==
    /\ MayCall(t)
    /\ e \in added \ stopped
    /\ schedState = "RUNNING"
    /\ PostCancel(e)
    /\ stopped' = stopped \cup {e}
    /\ UNCHANGED <<vars, schedState, ioStopped, timer, ioArg, added>>

-----------------------------------------------------------------------------
(* The io_context thread.  It runs one handler at a time and may be inside *)
(* addTask, where it can block on the dispatcher's mutex.                  *)

IoIdle == ~ioStopped /\ ioArg = None /\ callPc[Io] = "idle"

NextHandler(op) == IoIdle /\ ioQueue # <<>> /\ Head(ioQueue).op = op

IoArm ==
    /\ NextHandler("arm")
    /\ timer' = [timer EXCEPT ![Head(ioQueue).event] = "armed"]
    /\ ioQueue' = Tail(ioQueue)
    /\ UNCHANGED <<vars, schedState, ioStopped, ioArg, added, stopped>>

\* cancel() reaches a wait that is still pending; once the wait is due its
\* handler is queued with success, and an erased id is not found.
Cancelled(w) == IF w = "armed" THEN "aborted" ELSE w

IoCancel ==
    /\ NextHandler("cancel")
    /\ timer' = [timer EXCEPT ![Head(ioQueue).event] = Cancelled(@)]
    /\ ioQueue' = Tail(ioQueue)
    /\ UNCHANGED <<vars, schedState, ioStopped, ioArg, added, stopped>>

\* Scheduler::shutdown's handler: every timer is cancelled, no handler runs
\* afterwards.
IoStop ==
    /\ NextHandler("stop")
    /\ timer' = [e \in Event |-> Cancelled(timer[e])]
    /\ ioQueue' = Tail(ioQueue)
    /\ ioStopped' = TRUE
    /\ UNCHANGED <<vars, schedState, ioArg, added, stopped>>

\* The delay has passed.
TimerDue(e) ==
    /\ timer[e] = "armed"
    /\ timer' = [timer EXCEPT ![e] = "due"]
    /\ UNCHANGED <<vars, schedState, ioQueue, ioStopped, ioArg, added, stopped>>

EraseTimer(e) == timer' = [timer EXCEPT ![e] = "absent"]

DropsEvent(e) == timer[e] = "aborted" \/ schedState = "TERMINATED"

\* The handler of async_wait: erase the id, give up when cancelled or when
\* the scheduler was shut down, else go on to g_dispatcher.addTask.
IoTimer(e) ==
    /\ IoIdle
    /\ timer[e] \in {"due", "aborted"}
    /\ EraseTimer(e)
    /\ ioArg' = IF DropsEvent(e) THEN None ELSE e
    /\ UNCHANGED <<vars, schedState, ioQueue, ioStopped, added, stopped>>

IoDeliver ==
    /\ ioArg # None
    /\ AddTaskLock(Io, ioArg)
    /\ ioArg' = None
    /\ UNCHANGED <<schedState, ioQueue, ioStopped, timer, added, stopped>>

-----------------------------------------------------------------------------
(* The dispatcher's steps that touch the scheduler.                        *)

\* g_scheduler.stop(), then g_dispatcher.stop().
SchedQuitStop ==
    /\ QuitStop
    /\ schedState' = "CLOSING"
    /\ UNCHANGED <<ioQueue, ioStopped, timer, ioArg, added, stopped>>

\* g_scheduler.shutdown(), then g_dispatcher.shutdown().
SchedRunHalt ==
    /\ RunHalt
    /\ schedState' = "TERMINATED"
    /\ ioQueue' = Append(ioQueue, [op |-> "stop"])
    /\ UNCHANGED <<ioStopped, timer, ioArg, added, stopped>>

\* Closures that did not come from addEvent are posted by the other threads.
PostOther(t) ==
    /\ t # Io
    /\ \E k \in (IF t = Disp THEN Posted \ SigHalt ELSE Posted) \ Event :
           AddTaskLock(t, k)
    /\ UNCHANGED schedVars

SchedWorker ==
    \/ SchedQuitStop
    \/ SchedRunHalt
    \/ /\ \/ LoopTest \/ LoopLock \/ LoopRelock
          \/ BatchEnd \/ BatchTake \/ BatchExpire
          \/ RunPlain \/ QuitBegin \/ QuitPost \/ RunTerm
       /\ UNCHANGED schedVars

Callers(t) == (AddTaskPush(t) \/ AddTaskNotify(t)) /\ UNCHANGED schedVars

IoThread ==
    \/ IoArm \/ IoCancel \/ IoStop \/ IoDeliver
    \/ \E e \in Event : IoTimer(e)

SchedNext ==
    \/ \E t \in Caller : PostOther(t) \/ Callers(t)
    \/ \E t \in Caller \ {Io}, e \in Event : AddEvent(t, e) \/ StopEvent(t, e)
    \/ SchedWorker
    \/ IoThread
    \/ \E e \in Event : TimerDue(e)
    \/ SpuriousWakeup /\ UNCHANGED schedVars

SchedSpec == SchedInit /\ [][SchedNext]_allVars

\* The threads keep running; the clock need not reach any deadline.
SchedFairSpec ==
    /\ SchedSpec
    /\ WF_allVars(SchedWorker)
    /\ WF_allVars(IoThread)
    /\ \A t \in Caller : WF_allVars(Callers(t))

-----------------------------------------------------------------------------
(* Properties.                                                             *)

\* The scheduler's fields; the timer map holds the events that wait.
SchedTypeOK ==
    /\ schedState \in States
    /\ ioQueue \in Seq(Handler)
    /\ ioStopped \in BOOLEAN
    /\ timer \in [Event -> {"absent", "armed", "due", "aborted"}]
    /\ ioArg \in Event \cup {None}
    /\ added \in SUBSET Event
    /\ stopped \in SUBSET Event

ArmPending(e) ==
    \E i \in DOMAIN ioQueue : ioQueue[i] = [op |-> "arm", event |-> e]

\* Scheduler::shutdown was called (threadState alone does not tell: a later
\* stop() overwrites it).
ShutdownCalled ==
    ioStopped \/ \E i \in DOMAIN ioQueue : ioQueue[i].op = "stop"

\* Between addEvent and the dispatcher an event is always somewhere: posted,
\* in the timer map, or in the hands of the timer handler.  Only stopEvent
\* or the shutdown of the scheduler makes one disappear.
NoEventLost ==
    \A e \in added :
        \/ ArmPending(e) \/ timer[e] # "absent" \/ ioArg = e
        \/ status[e] # "new"
        \/ e \in stopped
        \/ ShutdownCalled

\* After stopEvent an event is settled without waiting for its delay: it is
\* out of the timer map, and what had already reached the dispatcher has run.
\* (The stop may come too late to prevent that run.)
StopSettles ==
    \A e \in Event :
        e \in stopped
            ~> (\/ timer[e] = "absent" /\ ~ArmPending(e) /\ ioArg # e
                   /\ status[e] # "accepted"
                \/ ShutdownCalled)

\* A timer that is due reaches the dispatcher even if the scheduler is being
\* closed, unless the scheduler has been shut down.
DueIsDelivered ==
    \A e \in Event : timer[e] = "due" ~> (status[e] # "new" \/ ShutdownCalled)
=============================================================================
