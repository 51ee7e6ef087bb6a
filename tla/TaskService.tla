---------------------------- MODULE TaskService ----------------------------
(***************************************************************************)
(* What the rest of the server relies on when it hands a closure to the    *)
(* dispatcher (addDispatcherTask, addTimedDispatcherTask): while the       *)
(* service is open every closure is accepted once, closures run one at a   *)
(* time in the order they were accepted, only a timed closure may be       *)
(* skipped, nothing is accepted after the service closed, and nothing runs *)
(* after the worker halted.  Threads, the mutex, the condition variable    *)
(* and the batches of Dispatcher are hidden.                               *)
(***************************************************************************)
EXTENDS Sequences

CONSTANTS Task,   \* closures handed to the service
          Timed,  \* those that may be skipped once they are late
          Term,   \* the closure that asks the worker to leave
          None    \* "nothing is running"

VARIABLES pending,  \* accepted, not started: oldest first
          running,  \* the closure being executed, or None
          open,     \* new closures are still accepted
          halted,   \* the worker has left for good
          outcome   \* what became of each closure

svars == <<pending, running, open, halted, outcome>>

SInit ==
    /\ pending = <<>>
    /\ running = None
    /\ open = TRUE
    /\ halted = FALSE
    /\ outcome = [k \in Task |-> "new"]

Accept(k) ==
    /\ open
    /\ outcome[k] = "new"
    /\ pending' = Append(pending, k)
    /\ outcome' = [outcome EXCEPT ![k] = "accepted"]
    /\ UNCHANGED <<running, open, halted>>

Refuse(k) ==
    /\ ~open
    /\ outcome[k] = "new"
    /\ outcome' = [outcome EXCEPT ![k] = "refused"]
    /\ UNCHANGED <<pending, running, open, halted>>

\* The request to leave queues behind everything accepted before it.
Poison ==
    /\ pending' = Append(pending, Term)
    /\ running' = None
    /\ UNCHANGED <<open, halted>>
    /\ outcome' = IF running = None THEN outcome
                                    ELSE [outcome EXCEPT ![running] = "done"]

Take ==
    /\ ~halted
    /\ running = None
    /\ pending # <<>>
    /\ running' = Head(pending)
    /\ pending' = Tail(pending)
    /\ UNCHANGED <<open, halted, outcome>>

Skip ==
    /\ ~halted
    /\ running = None
    /\ pending # <<>>
    /\ Head(pending) \in Timed
    /\ pending' = Tail(pending)
    /\ outcome' = [outcome EXCEPT ![Head(pending)] = "expired"]
    /\ UNCHANGED <<running, open, halted>>

\* A closure finishes; finishing may close the service (stop, Term).
Finish ==
    /\ running # None
    /\ running' = None
    /\ outcome' = IF running = Term THEN outcome
                                    ELSE [outcome EXCEPT ![running] = "done"]
    /\ open' \in (IF open THEN BOOLEAN ELSE {FALSE})
    /\ UNCHANGED <<pending, halted>>

Halt ==
    /\ ~open
    /\ running = None
    /\ halted' = TRUE
    /\ UNCHANGED <<pending, running, open, outcome>>

SNext ==
    \/ \E k \in Task : Accept(k) \/ Refuse(k)
    \/ Poison \/ Take \/ Skip \/ Finish \/ Halt

SSpec == SInit /\ [][SNext]_svars
=============================================================================
