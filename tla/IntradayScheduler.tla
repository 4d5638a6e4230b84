-------------------------- MODULE IntradayScheduler --------------------------
(***************************************************************************)
(* The intraday refresh loop of the API worker                              *)
(* (web/intraday.py, IntradayRefreshCoordinator): a chain of one-shot       *)
(* timers, started and paused by administrators, resumed by the worker's    *)
(* startup thread and stopped when the worker goes down.                    *)
(*                                                                         *)
(* Three kinds of thread work on the coordinator.  start and pause hold     *)
(* _lock over all of their transactions; a cycle holds it only to set and   *)
(* to clear _running_cycle; rescheduling holds no lock.  What a cycle       *)
(* fetches is left out: it ends without effect on the scheduler (market     *)
(* closed, or an exception) or renews the lease of the session row.         *)
(***************************************************************************)
EXTENDS Naturals, Sequences, FiniteSets

CONSTANTS Threads,         \* request threads, and the worker's own
          Main,            \* the startup thread, one of them
          Nobody,
          Loops,           \* timers and timer threads: each is a chain of its own
          NoLoop,
          WritesMayFail,   \* a write phase can raise (database is locked)
          MaxSessions,     \* bound on session rows
          MaxRestarts      \* bound on worker deaths

ASSUME ActorAssumption ==
    /\ Main \in Threads /\ Nobody \notin Threads /\ NoLoop \notin Loops
    /\ Threads \cap Loops = {}
    /\ WritesMayFail \in BOOLEAN /\ MaxSessions \in Nat /\ MaxRestarts \in Nat

VARIABLES enabled,    \* _enabled
          running,    \* _running_cycle
          timer,      \* _timer
          sid,        \* _session_id: index of a row, 0 for None
          lock,       \* holder of _lock, where it spans steps
          at, op,     \* what every thread is doing
          rows,       \* intraday_refresh_sessions
          paused,     \* market_automation_controls.admin_paused
          restarts    \* the incarnation of the worker (_instance_id)

local == <<enabled, running, timer, sid, lock, at, op>>
vars  == <<local, rows, paused, restarts>>

Actors == Threads \cup Loops

\* live: lease_expires_at is in the future.
Session == [status: {"running", "cancelled", "interrupted"},
            owner: 0..MaxRestarts, live: BOOLEAN]

TypeOK == /\ enabled \in BOOLEAN /\ running \in BOOLEAN /\ paused \in BOOLEAN
          /\ timer \in Loops \cup {NoLoop}
          /\ rows \in Seq(Session) /\ Len(rows) <= MaxSessions
          /\ sid \in 0..Len(rows)
          /\ lock \in Threads \cup {Nobody}
          /\ at \in [Actors -> {"idle", "lock", "insert", "arm", "cancel", "record", "stopped",
                                "pending", "enter", "cycle", "leave", "again", "beat"}]
          /\ op \in [Threads -> {"none", "resume", "auto", "pause", "stop", "refresh"}]
          /\ restarts \in 0..MaxRestarts

\* A new worker resumes the refresh on its own.
Boot(a) == IF a = Main THEN "lock" ELSE "idle"
BootOp(t) == IF t = Main THEN "auto" ELSE "none"

Init == /\ enabled = FALSE /\ running = FALSE /\ timer = NoLoop /\ sid = 0
        /\ lock = Nobody
        /\ at = [a \in Actors |-> Boot(a)]
        /\ op = [t \in Threads |-> BootOp(t)]
        /\ rows = <<>> /\ paused = FALSE /\ restarts = 0

----------------------------------------------------------------------------
At(a, step) == at[a] = step

Starting(t) == op[t] \in {"resume", "auto"}
Pausing(t)  == op[t] \in {"pause", "stop"}

Goto(a, step) == /\ at' = [at EXCEPT ![a] = step]
                 /\ op' = IF step = "idle" /\ a \in Threads
                          THEN [op EXCEPT ![a] = "none"] ELSE op

\* The last step of an operation that holds _lock.
Release(t, step) == lock' = Nobody /\ Goto(t, step)

\* The lease of the coordinator's session row, if it has one.
Renewed == IF sid = 0 THEN rows ELSE [rows EXCEPT ![sid].live = TRUE]

\* Requests end before the worker's shutdown handler runs; the startup thread
\* need not have.
Begin(t, name) ==
    /\ At(t, "idle")
    /\ \A u \in Threads : op[u] # "stop" /\ (name = "stop" => op[u] \in {"none", "auto"})
    /\ op' = [op EXCEPT ![t] = name]
    /\ at' = [at EXCEPT ![t] = IF name = "refresh" THEN "enter" ELSE "lock"]
    /\ UNCHANGED <<enabled, running, timer, sid, lock, rows, paused, restarts>>

----------------------------------------------------------------------------
(* start                                                                    *)

\* Mutants: rows of dead workers are left as they are; or marked in a word
\* that nobody knows.
Recovered_Not == rows
Recovered_Word ==
    [i \in DOMAIN rows |-> IF rows[i].status = "running" /\ ~rows[i].live
                           THEN [rows[i] EXCEPT !.status = "stale"] ELSE rows[i]]

\* recover_stale_refresh_sessions
Recovered ==
    [i \in DOMAIN rows |-> IF rows[i].status = "running" /\ ~rows[i].live
                           THEN [rows[i] EXCEPT !.status = "interrupted"] ELSE rows[i]]

\* A running session of another worker.
OtherActive == \E i \in DOMAIN rows : /\ rows[i].status = "running" /\ rows[i].live
                                      /\ rows[i].owner # restarts

\* Mutant: the startup thread does not ask whether an administrator paused.
Refused_Unasked(t) == OtherActive

Refused(t) == (paused /\ op[t] = "auto") \/ OtherActive

\* Recover, check and, for an administrator, clear the pause.  Both queries use
\* one `now`.
StartCheck(t) ==
    /\ At(t, "lock") /\ Starting(t) /\ lock = Nobody
    /\ Len(rows) < MaxSessions /\ \E l \in Loops : At(l, "idle")
    /\ IF enabled
       THEN Goto(t, "idle") /\ UNCHANGED <<lock, rows, paused>>
       ELSE \/ /\ rows' = Recovered
               /\ IF Refused(t)
                  THEN Goto(t, "idle") /\ UNCHANGED <<lock, paused>>
                  ELSE /\ paused' = (paused /\ op[t] = "auto")
                       /\ lock' = t /\ Goto(t, "insert")
            \/ /\ WritesMayFail
               /\ rows' \in {rows, Recovered}
               /\ Goto(t, "idle") /\ UNCHANGED <<lock, paused>>
    /\ UNCHANGED <<enabled, running, timer, sid, restarts>>

\* _enabled is set before the row is written.
StartInsert(t) ==
    /\ At(t, "insert")
    /\ enabled' = TRUE
    /\ \/ /\ rows' = Append(rows, [status |-> "running", owner |-> restarts, live |-> TRUE])
          /\ sid' = Len(rows) + 1
          /\ Goto(t, "arm") /\ UNCHANGED lock
       \/ WritesMayFail /\ Release(t, "idle") /\ UNCHANGED <<sid, rows>>
    /\ UNCHANGED <<running, timer, paused, restarts>>

\* _schedule, with _lock held: a new chain.
StartArm(t) ==
    /\ At(t, "arm")
    /\ \/ \E l \in Loops :
             /\ At(l, "idle")
             /\ timer' = l
             /\ at' = [at EXCEPT ![l] = "pending", ![t] = "idle"]
             /\ op' = [op EXCEPT ![t] = "none"]
             /\ rows' = Renewed
       \/ WritesMayFail /\ Goto(t, "idle") /\ UNCHANGED <<timer, rows>>
    /\ lock' = Nobody
    /\ UNCHANGED <<enabled, running, sid, paused, restarts>>

----------------------------------------------------------------------------
(* pause and shutdown                                                       *)

\* cancel stops a timer that waits; one that has fired runs on.
PauseBegin(t) ==
    /\ At(t, "lock") /\ Pausing(t) /\ lock = Nobody
    /\ enabled' = FALSE
    /\ at' = [a \in Actors |-> IF a = t THEN "cancel"
                               ELSE IF a = timer /\ At(a, "pending") THEN "idle"
                               ELSE at[a]]
    /\ timer' = NoLoop
    /\ lock' = t
    /\ UNCHANGED <<running, sid, op, rows, paused, restarts>>

PauseCancel(t) ==
    /\ At(t, "cancel")
    /\ LET over == IF op[t] = "stop" THEN "stopped" ELSE "idle"
       IN  \/ /\ rows' = IF sid = 0 THEN rows ELSE [rows EXCEPT ![sid].status = "cancelled"]
              /\ IF op[t] = "pause" THEN Goto(t, "record") /\ UNCHANGED lock
                                    ELSE Release(t, over)
           \/ WritesMayFail /\ Release(t, over) /\ UNCHANGED rows
    /\ UNCHANGED <<enabled, running, timer, sid, paused, restarts>>

PauseRecord(t) ==
    /\ At(t, "record")
    /\ paused' = TRUE \/ (WritesMayFail /\ UNCHANGED paused)
    /\ Release(t, "idle")
    /\ UNCHANGED <<enabled, running, timer, sid, rows, restarts>>

----------------------------------------------------------------------------
(* The refresh, by a timer thread or on request                             *)
Fire(l) ==
    /\ At(l, "pending") /\ Goto(l, "enter")
    /\ UNCHANGED <<enabled, running, timer, sid, lock, rows, paused, restarts>>

AfterCycle(a) == IF a \in Loops THEN "again" ELSE "idle"

\* Mutant: a cycle in progress is not noticed.
Enter_Unchecked(a) ==
    /\ At(a, "enter") /\ lock = Nobody
    /\ running' = TRUE /\ Goto(a, "cycle")
    /\ UNCHANGED <<enabled, timer, sid, lock, rows, paused, restarts>>

\* refresh_once: one cycle at a time.
Enter(a) ==
    /\ At(a, "enter") /\ lock = Nobody
    /\ IF running THEN Goto(a, AfterCycle(a)) /\ UNCHANGED running
                  ELSE running' = TRUE /\ Goto(a, "cycle")
    /\ UNCHANGED <<enabled, timer, sid, lock, rows, paused, restarts>>

\* Mutant: an exception ends the timer thread.
Cycle_Dies(a) ==
    /\ At(a, "cycle")
    /\ \/ rows' \in {rows, Renewed} /\ Goto(a, "leave") /\ UNCHANGED running
       \/ running' = FALSE /\ Goto(a, "idle") /\ UNCHANGED rows
    /\ UNCHANGED <<enabled, timer, sid, lock, paused, restarts>>

\* _execute_cycle: nothing happened, or it has committed.
Cycle(a) ==
    /\ At(a, "cycle")
    /\ rows' \in {rows, Renewed}
    /\ Goto(a, "leave")
    /\ UNCHANGED <<enabled, running, timer, sid, lock, paused, restarts>>

\* Mutant: the flag is not cleared.
Leave_Busy(a) ==
    /\ At(a, "leave") /\ lock = Nobody
    /\ Goto(a, AfterCycle(a))
    /\ UNCHANGED <<enabled, running, timer, sid, lock, rows, paused, restarts>>

Leave(a) ==
    /\ At(a, "leave") /\ lock = Nobody
    /\ running' = FALSE
    /\ Goto(a, AfterCycle(a))
    /\ UNCHANGED <<enabled, timer, sid, lock, rows, paused, restarts>>

\* Mutant: the chain goes on whether or not it was paused.
Again_Always(l) ==
    /\ At(l, "again") /\ Goto(l, "beat")
    /\ UNCHANGED <<enabled, running, timer, sid, lock, rows, paused, restarts>>

\* The finally clause of _timer_cycle, and the check in _schedule.
Again(l) ==
    /\ At(l, "again")
    /\ Goto(l, IF enabled THEN "beat" ELSE "idle")
    /\ UNCHANGED <<enabled, running, timer, sid, lock, rows, paused, restarts>>

\* _schedule writes the heartbeat; an exception here ends the timer thread.
Beat(l) ==
    /\ At(l, "beat")
    /\ \/ rows' = Renewed /\ Goto(l, "arm")
       \/ WritesMayFail /\ Goto(l, "idle") /\ UNCHANGED rows
    /\ UNCHANGED <<enabled, running, timer, sid, lock, paused, restarts>>

\* ... and starts the next timer, without another look at _enabled.
Arm(l) ==
    /\ At(l, "arm")
    /\ timer' = l
    /\ Goto(l, "pending")
    /\ UNCHANGED <<enabled, running, sid, lock, rows, paused, restarts>>

----------------------------------------------------------------------------
\* A lease runs out.
Expire(i) ==
    /\ rows[i].live
    /\ rows' = [rows EXCEPT ![i].live = FALSE]
    /\ UNCHANGED <<local, paused, restarts>>

\* The worker dies, or has been stopped, and a new one starts.
Restart ==
    /\ restarts < MaxRestarts
    /\ restarts' = restarts + 1
    /\ enabled' = FALSE /\ running' = FALSE /\ timer' = NoLoop /\ sid' = 0
    /\ lock' = Nobody
    /\ at' = [a \in Actors |-> Boot(a)]
    /\ op' = [t \in Threads |-> BootOp(t)]
    /\ UNCHANGED <<rows, paused>>

Operation(t) == \/ StartCheck(t) \/ StartInsert(t) \/ StartArm(t)
                \/ PauseBegin(t) \/ PauseCancel(t) \/ PauseRecord(t)

LoopStep(l) == Fire(l) \/ Again(l) \/ Beat(l) \/ Arm(l)

Refresh(a) == Enter(a) \/ Cycle(a) \/ Leave(a)

Next == \/ \E t \in Threads : \/ \E name \in {"resume", "pause", "stop", "refresh"} : Begin(t, name)
                              \/ Operation(t)
        \/ \E l \in Loops : LoopStep(l)
        \/ \E a \in Actors : Refresh(a)
        \/ \E i \in DOMAIN rows : Expire(i)
        \/ Restart

Spec == Init /\ [][Next]_vars

\* Threads run on, and whoever waits for _lock gets it in the end.
FairSpec == /\ Spec
            /\ \A t \in Threads : SF_vars(Operation(t))
            /\ \A l \in Loops : WF_vars(LoopStep(l))
            /\ \A a \in Actors : SF_vars(Refresh(a))

----------------------------------------------------------------------------
(* Properties                                                               *)
Active == {l \in Loops : ~At(l, "idle")}

\* Cycles never overlap, whoever asks for them ("overlapping cycles are
\* rejected").
OneCycle == Cardinality({a \in Actors : At(a, "cycle")}) <= 1

\* What an administrator paused stays paused: through restarts, and against a
\* startup thread that was waiting for the lock.
PauseHolds == paused => ~enabled

\* One session row at most is running, also after a worker died without
\* closing its own.
OneRunningSession ==
    Cardinality({i \in DOMAIN rows : rows[i].status = "running"}) <= 1

\* While the refresh is enabled there is a timer or a timer thread to carry it
\* (start returns early when it is enabled, and would not bring one back).
EnabledHasLoop ==
    enabled => \/ Active # {}
               \/ \E t \in Threads : lock = t /\ Starting(t)

\* The timer ends by a pause or with the worker, and by nothing else ("a
\* transient local lock or Provider error must not kill the process-wide timer").
OnlyPauseEndsLoop ==
    [][Active # {} /\ Active' = {} => ~enabled' \/ restarts' # restarts]_vars

\* There is one chain of timers ("one process-wide refresh loop").
OneLoop == Cardinality(Active) <= 1

\* The refresh goes on until somebody disables it.
RefreshGoesOn == enabled ~> (~enabled \/ \E a \in Actors : At(a, "cycle"))

\* After a pause the timers come to an end, those that had fired included.
PauseEndsLoops == ~enabled ~> (enabled \/ Active = {})
=============================================================================
