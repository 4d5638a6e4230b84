---------------------- MODULE IntradayScheduler_proofs ----------------------
(***************************************************************************)
(* Proofs about IntradayScheduler, for any number of request threads,       *)
(* timers, sessions and restarts:                                           *)
(*   SchedulerType      Spec => []TypeOK                                    *)
(*   CyclesNeverOverlap Spec => []OneCycle                                  *)
(*   PauseIsKept        Spec => []PauseHolds                                *)
(*   OneSession         Spec => []OneRunningSession                         *)
(*   LoopCarriesOn      Spec => []EnabledHasLoop                            *)
(* The first three hold when writes fail too, the last two where they       *)
(* succeed.  None is inductive: what they rest on is that the steps of      *)
(* start and pause hold _lock, and what they have found out under it.       *)
(***************************************************************************)
EXTENDS IntradayScheduler, TLAPS, FiniteSetTheorems, SequenceTheorems

Steps == {"idle", "lock", "insert", "arm", "cancel", "record", "stopped",
          "pending", "enter", "cycle", "leave", "again", "beat"}

\* What every thread is doing.
Control == /\ enabled \in BOOLEAN /\ running \in BOOLEAN /\ paused \in BOOLEAN
           /\ timer \in Loops \cup {NoLoop}
           /\ lock \in Threads \cup {Nobody}
           /\ at \in [Actors -> Steps]
           /\ op \in [Threads -> {"none", "resume", "auto", "pause", "stop", "refresh"}]
           /\ restarts \in 0..MaxRestarts

\* The steps of start and pause after the first hold _lock.
LockHeld == \A t \in Threads :
                /\ at[t] \in {"insert", "arm", "cancel", "record"} => lock = t
                /\ at[t] \in {"insert", "arm"} => Starting(t)
                /\ at[t] \in {"cancel", "record"} => Pausing(t)

\* Who is in a cycle has set _running_cycle, and is alone.
InCycle(a) == at[a] \in {"cycle", "leave"}
CycleAlone == /\ \A a \in Actors : InCycle(a) => running
              /\ \A a, b \in Actors : InCycle(a) /\ InCycle(b) => a = b

\* Under the lock start has seen no pause, and pause has disabled.
PauseSeen == /\ PauseHolds
             /\ \A t \in Threads : /\ At(t, "insert") => ~paused
                                   /\ at[t] \in {"cancel", "record"} => ~enabled

Inv == Control /\ LockHeld /\ CycleAlone /\ PauseSeen

----------------------------------------------------------------------------
(* Control                                                                  *)

LEMMA InitInv == Init => Inv
  <1> SUFFICES ASSUME Init PROVE Inv
    OBVIOUS
  <1>1. \A a \in Actors : at[a] \in {"idle", "lock"}
    BY DEF Init, Boot
  <1>2. Control
    <2>1. at \in [Actors -> Steps]
      BY DEF Init, Boot, Steps
    <2>2. op \in [Threads -> {"none", "resume", "auto", "pause", "stop", "refresh"}]
      BY DEF Init, BootOp
    <2>3. restarts \in 0..MaxRestarts
      BY ActorAssumption DEF Init
    <2> QED BY <2>1, <2>2, <2>3 DEF Init, Control
  <1>3. LockHeld /\ CycleAlone /\ PauseSeen
    BY <1>1 DEF Init, LockHeld, CycleAlone, InCycle, PauseSeen, PauseHolds, At, Actors
  <1> QED BY <1>2, <1>3 DEF Inv

\* Every step keeps the threads in their steps and the columns in their types.
LEMMA ControlStep == Control /\ [Next]_vars => Control'
<1> SUFFICES ASSUME Control, [Next]_vars PROVE Control'
  OBVIOUS
<1> USE ActorAssumption DEF Control, Steps, Actors
<1>1. ASSUME NEW t \in Threads, NEW name \in {"resume", "pause", "stop", "refresh"}, Begin(t, name) PROVE Control'
  BY <1>1 DEF Begin, At
<1>2. ASSUME NEW t \in Threads, StartCheck(t) PROVE Control'
  BY <1>2 DEF StartCheck, At, Starting, Goto, Recovered, Refused
<1>3. ASSUME NEW t \in Threads, StartInsert(t) PROVE Control'
  BY <1>3 DEF StartInsert, At, Release, Goto
<1>4. ASSUME NEW t \in Threads, StartArm(t) PROVE Control'
  BY <1>4 DEF StartArm, At, Goto, Renewed
<1>5. ASSUME NEW t \in Threads, PauseBegin(t) PROVE Control'
  BY <1>5 DEF PauseBegin, At, Pausing
<1>6. ASSUME NEW t \in Threads, PauseCancel(t) PROVE Control'
  BY <1>6 DEF PauseCancel, At, Release, Goto
<1>7. ASSUME NEW t \in Threads, PauseRecord(t) PROVE Control'
  BY <1>7 DEF PauseRecord, At, Release, Goto
<1>8. ASSUME NEW l \in Loops, Fire(l) PROVE Control'
  BY <1>8 DEF Fire, At, Goto
<1>9. ASSUME NEW l \in Loops, Again(l) PROVE Control'
  BY <1>9 DEF Again, At, Goto
<1>10. ASSUME NEW l \in Loops, Beat(l) PROVE Control'
  BY <1>10 DEF Beat, At, Goto, Renewed
<1>11. ASSUME NEW l \in Loops, Arm(l) PROVE Control'
  BY <1>11 DEF Arm, At, Goto
<1>12. ASSUME NEW a \in Actors, Enter(a) PROVE Control'
  BY <1>12 DEF Enter, At, Goto, AfterCycle
<1>13. ASSUME NEW a \in Actors, Cycle(a) PROVE Control'
  BY <1>13 DEF Cycle, At, Goto, Renewed
<1>14. ASSUME NEW a \in Actors, Leave(a) PROVE Control'
  BY <1>14 DEF Leave, At, Goto, AfterCycle
<1>15. ASSUME NEW i \in DOMAIN rows, Expire(i) PROVE Control'
  BY <1>15 DEF Expire, local, At
<1>16. ASSUME Restart PROVE Control'
  <2>1. at' \in [Actors -> Steps]
    BY <1>16 DEF Restart, Boot
  <2>2. op' \in [Threads -> {"none", "resume", "auto", "pause", "stop", "refresh"}]
    BY <1>16 DEF Restart, BootOp
  <2>3. restarts' \in 0..MaxRestarts
    BY <1>16 DEF Restart
  <2> QED BY <1>16, <2>1, <2>2, <2>3 DEF Restart
<1>17. CASE UNCHANGED vars
  BY <1>17 DEF vars, local, At
<1> QED
  BY <1>1, <1>2, <1>3, <1>4, <1>5, <1>6, <1>7, <1>8, <1>9, <1>10, <1>11, <1>12, <1>13, <1>14, <1>15, <1>16, <1>17 DEF Next, Operation, LoopStep, Refresh

\* The lock is taken when it is free, and kept until the operation ends.
LEMMA LockStep == Control /\ LockHeld /\ [Next]_vars => LockHeld'
<1> SUFFICES ASSUME Control /\ LockHeld, [Next]_vars PROVE LockHeld'
  OBVIOUS
<1> USE ActorAssumption DEF Control, Steps, Actors, LockHeld, Starting, Pausing
<1>1. ASSUME NEW t \in Threads, NEW name \in {"resume", "pause", "stop", "refresh"}, Begin(t, name) PROVE LockHeld'
  BY <1>1 DEF Begin, At
<1>2. ASSUME NEW t \in Threads, StartCheck(t) PROVE LockHeld'
  BY <1>2 DEF StartCheck, At, Starting, Goto, Recovered, Refused
<1>3. ASSUME NEW t \in Threads, StartInsert(t) PROVE LockHeld'
  BY <1>3 DEF StartInsert, At, Release, Goto
<1>4. ASSUME NEW t \in Threads, StartArm(t) PROVE LockHeld'
  BY <1>4 DEF StartArm, At, Goto, Renewed
<1>5. ASSUME NEW t \in Threads, PauseBegin(t) PROVE LockHeld'
  BY <1>5 DEF PauseBegin, At, Pausing
<1>6. ASSUME NEW t \in Threads, PauseCancel(t) PROVE LockHeld'
  BY <1>6 DEF PauseCancel, At, Release, Goto
<1>7. ASSUME NEW t \in Threads, PauseRecord(t) PROVE LockHeld'
  BY <1>7 DEF PauseRecord, At, Release, Goto
<1>8. ASSUME NEW l \in Loops, Fire(l) PROVE LockHeld'
  BY <1>8 DEF Fire, At, Goto
<1>9. ASSUME NEW l \in Loops, Again(l) PROVE LockHeld'
  BY <1>9 DEF Again, At, Goto
<1>10. ASSUME NEW l \in Loops, Beat(l) PROVE LockHeld'
  BY <1>10 DEF Beat, At, Goto, Renewed
<1>11. ASSUME NEW l \in Loops, Arm(l) PROVE LockHeld'
  BY <1>11 DEF Arm, At, Goto
<1>12. ASSUME NEW a \in Actors, Enter(a) PROVE LockHeld'
  BY <1>12 DEF Enter, At, Goto, AfterCycle
<1>13. ASSUME NEW a \in Actors, Cycle(a) PROVE LockHeld'
  BY <1>13 DEF Cycle, At, Goto, Renewed
<1>14. ASSUME NEW a \in Actors, Leave(a) PROVE LockHeld'
  BY <1>14 DEF Leave, At, Goto, AfterCycle
<1>15. ASSUME NEW i \in DOMAIN rows, Expire(i) PROVE LockHeld'
  BY <1>15 DEF Expire, local, At
<1>16. ASSUME Restart PROVE LockHeld'
  BY <1>16 DEF Restart, Boot, BootOp, At
<1>17. CASE UNCHANGED vars
  BY <1>17 DEF vars, local, At
<1> QED
  BY <1>1, <1>2, <1>3, <1>4, <1>5, <1>6, <1>7, <1>8, <1>9, <1>10, <1>11, <1>12, <1>13, <1>14, <1>15, <1>16, <1>17 DEF Next, Operation, LoopStep, Refresh

\* A cycle begins when _running_cycle is clear, and clears it when it ends.
LEMMA CycleStep == Control /\ CycleAlone /\ [Next]_vars => CycleAlone'
<1> SUFFICES ASSUME Control /\ CycleAlone, [Next]_vars PROVE CycleAlone'
  OBVIOUS
<1> USE ActorAssumption DEF Control, Steps, Actors, CycleAlone, InCycle
<1>1. ASSUME NEW t \in Threads, NEW name \in {"resume", "pause", "stop", "refresh"}, Begin(t, name) PROVE CycleAlone'
  BY <1>1 DEF Begin, At
<1>2. ASSUME NEW t \in Threads, StartCheck(t) PROVE CycleAlone'
  BY <1>2 DEF StartCheck, At, Starting, Goto, Recovered, Refused
<1>3. ASSUME NEW t \in Threads, StartInsert(t) PROVE CycleAlone'
  BY <1>3 DEF StartInsert, At, Release, Goto
<1>4. ASSUME NEW t \in Threads, StartArm(t) PROVE CycleAlone'
  BY <1>4 DEF StartArm, At, Goto, Renewed
<1>5. ASSUME NEW t \in Threads, PauseBegin(t) PROVE CycleAlone'
  BY <1>5 DEF PauseBegin, At, Pausing
<1>6. ASSUME NEW t \in Threads, PauseCancel(t) PROVE CycleAlone'
  BY <1>6 DEF PauseCancel, At, Release, Goto
<1>7. ASSUME NEW t \in Threads, PauseRecord(t) PROVE CycleAlone'
  BY <1>7 DEF PauseRecord, At, Release, Goto
<1>8. ASSUME NEW l \in Loops, Fire(l) PROVE CycleAlone'
  BY <1>8 DEF Fire, At, Goto
<1>9. ASSUME NEW l \in Loops, Again(l) PROVE CycleAlone'
  BY <1>9 DEF Again, At, Goto
<1>10. ASSUME NEW l \in Loops, Beat(l) PROVE CycleAlone'
  BY <1>10 DEF Beat, At, Goto, Renewed
<1>11. ASSUME NEW l \in Loops, Arm(l) PROVE CycleAlone'
  BY <1>11 DEF Arm, At, Goto
<1>12. ASSUME NEW a \in Actors, Enter(a) PROVE CycleAlone'
  BY <1>12 DEF Enter, At, Goto, AfterCycle
<1>13. ASSUME NEW a \in Actors, Cycle(a) PROVE CycleAlone'
  BY <1>13 DEF Cycle, At, Goto, Renewed
<1>14. ASSUME NEW a \in Actors, Leave(a) PROVE CycleAlone'
  BY <1>14 DEF Leave, At, Goto, AfterCycle
<1>15. ASSUME NEW i \in DOMAIN rows, Expire(i) PROVE CycleAlone'
  BY <1>15 DEF Expire, local, At
<1>16. ASSUME Restart PROVE CycleAlone'
  BY <1>16 DEF Restart, Boot, BootOp, At
<1>17. CASE UNCHANGED vars
  BY <1>17 DEF vars, local, At
<1> QED
  BY <1>1, <1>2, <1>3, <1>4, <1>5, <1>6, <1>7, <1>8, <1>9, <1>10, <1>11, <1>12, <1>13, <1>14, <1>15, <1>16, <1>17 DEF Next, Operation, LoopStep, Refresh

\* Nobody enables between the check for a pause and the lock's release.
LEMMA PauseStep == Control /\ LockHeld /\ PauseSeen /\ [Next]_vars => PauseSeen'
<1> SUFFICES ASSUME Control /\ LockHeld /\ PauseSeen, [Next]_vars PROVE PauseSeen'
  OBVIOUS
<1> USE ActorAssumption DEF Control, Steps, Actors, LockHeld, PauseSeen, PauseHolds, Starting, Pausing
<1>1. ASSUME NEW t \in Threads, NEW name \in {"resume", "pause", "stop", "refresh"}, Begin(t, name) PROVE PauseSeen'
  BY <1>1 DEF Begin, At
<1>2. ASSUME NEW t \in Threads, StartCheck(t) PROVE PauseSeen'
  BY <1>2 DEF StartCheck, At, Starting, Goto, Recovered, Refused
<1>3. ASSUME NEW t \in Threads, StartInsert(t) PROVE PauseSeen'
  BY <1>3 DEF StartInsert, At, Release, Goto
<1>4. ASSUME NEW t \in Threads, StartArm(t) PROVE PauseSeen'
  BY <1>4 DEF StartArm, At, Goto, Renewed
<1>5. ASSUME NEW t \in Threads, PauseBegin(t) PROVE PauseSeen'
  BY <1>5 DEF PauseBegin, At, Pausing
<1>6. ASSUME NEW t \in Threads, PauseCancel(t) PROVE PauseSeen'
  BY <1>6 DEF PauseCancel, At, Release, Goto
<1>7. ASSUME NEW t \in Threads, PauseRecord(t) PROVE PauseSeen'
  BY <1>7 DEF PauseRecord, At, Release, Goto
<1>8. ASSUME NEW l \in Loops, Fire(l) PROVE PauseSeen'
  BY <1>8 DEF Fire, At, Goto
<1>9. ASSUME NEW l \in Loops, Again(l) PROVE PauseSeen'
  BY <1>9 DEF Again, At, Goto
<1>10. ASSUME NEW l \in Loops, Beat(l) PROVE PauseSeen'
  BY <1>10 DEF Beat, At, Goto, Renewed
<1>11. ASSUME NEW l \in Loops, Arm(l) PROVE PauseSeen'
  BY <1>11 DEF Arm, At, Goto
<1>12. ASSUME NEW a \in Actors, Enter(a) PROVE PauseSeen'
  BY <1>12 DEF Enter, At, Goto, AfterCycle
<1>13. ASSUME NEW a \in Actors, Cycle(a) PROVE PauseSeen'
  BY <1>13 DEF Cycle, At, Goto, Renewed
<1>14. ASSUME NEW a \in Actors, Leave(a) PROVE PauseSeen'
  BY <1>14 DEF Leave, At, Goto, AfterCycle
<1>15. ASSUME NEW i \in DOMAIN rows, Expire(i) PROVE PauseSeen'
  BY <1>15 DEF Expire, local, At
<1>16. ASSUME Restart PROVE PauseSeen'
  BY <1>16 DEF Restart, Boot, BootOp, At
<1>17. CASE UNCHANGED vars
  BY <1>17 DEF vars, local, At
<1> QED
  BY <1>1, <1>2, <1>3, <1>4, <1>5, <1>6, <1>7, <1>8, <1>9, <1>10, <1>11, <1>12, <1>13, <1>14, <1>15, <1>16, <1>17 DEF Next, Operation, LoopStep, Refresh

LEMMA InvStep == Inv /\ [Next]_vars => Inv'
  BY ControlStep, LockStep, CycleStep, PauseStep DEF Inv

LEMMA InvHolds == Spec => []Inv
  BY InitInv, InvStep, PTL DEF Spec

\* PauseHolds: what an administrator paused stays paused, whatever thread of whatever
\* incarnation is starting, and when writes fail.
THEOREM PauseIsKept == Spec => []PauseHolds
  <1>1. Inv => PauseHolds
    BY DEF Inv, PauseSeen
  <1> QED BY <1>1, InvHolds, PTL

\* OneCycle: timers and requests never run two cycles at once.
THEOREM CyclesNeverOverlap == Spec => []OneCycle
  <1>1. ASSUME Inv PROVE OneCycle
    <2> DEFINE busy == {a \in Actors : At(a, "cycle")}
    <2>1. CASE busy = {}
      BY <2>1, FS_EmptySet DEF OneCycle
    <2>2. CASE busy # {}
      <3>1. PICK a \in Actors : busy = {a}
        BY <1>1, <2>2 DEF Inv, CycleAlone, InCycle, At
      <3>2. Cardinality(busy) = 1
        BY <3>1, FS_Singleton
      <3> QED BY <3>2 DEF OneCycle
    <2> QED BY <2>1, <2>2
  <1> QED BY <1>1, InvHolds, PTL

----------------------------------------------------------------------------
(* The session rows                                                         *)

\* Rows are changed in place, or one is added under the lock after a look at
\* their number.
RowsKept == /\ rows \in Seq(Session) /\ Len(rows) <= MaxSessions
            /\ sid \in 0..Len(rows)
            /\ \A t \in Threads : At(t, "insert") => Len(rows) < MaxSessions

\* Changing rows in place keeps their type and number.
LEMMA SameRows ==
    ASSUME rows \in Seq(Session), NEW new \in [DOMAIN rows -> Session]
    PROVE  new \in Seq(Session) /\ Len(new) = Len(rows)
  <1>1. Len(rows) \in Nat /\ DOMAIN rows = 1..Len(rows)
    BY LenProperties
  <1>2. new \in Seq(Session)
    BY <1>1, IsASeq
  <1> QED BY <1>1, <1>2, LenProperties

LEMMA RecoveredRows ==
    ASSUME rows \in Seq(Session)
    PROVE  Recovered \in Seq(Session) /\ Len(Recovered) = Len(rows)
  <1>1. \A i \in DOMAIN rows : rows[i] \in Session
    BY ElementOfSeq, LenProperties
  <1>2. Recovered \in [DOMAIN rows -> Session]
    BY <1>1 DEF Recovered, Session
  <1> QED BY <1>2, SameRows

LEMMA RenewedRows ==
    ASSUME rows \in Seq(Session), sid \in 0..Len(rows)
    PROVE  Renewed \in Seq(Session) /\ Len(Renewed) = Len(rows)
  <1>1. CASE sid = 0
    BY <1>1 DEF Renewed
  <1>2. CASE sid # 0
    <2>1. sid \in 1..Len(rows) /\ rows[sid] \in Session
      BY <1>2, ElementOfSeq, LenProperties
    <2>2. [rows[sid] EXCEPT !.live = TRUE] \in Session
      BY <2>1 DEF Session
    <2>3. Renewed = [rows EXCEPT ![sid] = [rows[sid] EXCEPT !.live = TRUE]]
      BY <1>2 DEF Renewed
    <2> QED BY <2>1, <2>2, <2>3, ExceptSeq
  <1> QED BY <1>1, <1>2

LEMMA CancelledRows ==
    ASSUME rows \in Seq(Session), sid \in 1..Len(rows)
    PROVE  LET new == [rows EXCEPT ![sid].status = "cancelled"]
           IN  new \in Seq(Session) /\ Len(new) = Len(rows)
  <1>1. rows[sid] \in Session
    BY ElementOfSeq
  <1>2. [rows[sid] EXCEPT !.status = "cancelled"] \in Session
    BY <1>1 DEF Session
  <1> QED BY <1>2, ExceptSeq

LEMMA ExpiredRows ==
    ASSUME rows \in Seq(Session), NEW i \in DOMAIN rows
    PROVE  LET new == [rows EXCEPT ![i].live = FALSE]
           IN  new \in Seq(Session) /\ Len(new) = Len(rows)
  <1>1. i \in 1..Len(rows) /\ rows[i] \in Session
    BY ElementOfSeq, LenProperties
  <1>2. [rows[i] EXCEPT !.live = FALSE] \in Session
    BY <1>1 DEF Session
  <1> QED BY <1>1, <1>2, ExceptSeq

LEMMA AddedRow ==
    ASSUME rows \in Seq(Session), restarts \in 0..MaxRestarts
    PROVE  LET new == Append(rows, [status |-> "running", owner |-> restarts, live |-> TRUE])
           IN  new \in Seq(Session) /\ Len(new) = Len(rows) + 1
  BY AppendProperties DEF Session

\* The session rows stay in their bound: only the holder of the lock adds one.
LEMMA RowsStep == Control /\ LockHeld /\ RowsKept /\ [Next]_vars => RowsKept'
<1> SUFFICES ASSUME Control /\ LockHeld /\ RowsKept, [Next]_vars PROVE RowsKept'
  OBVIOUS
<1> USE ActorAssumption DEF Control, Steps, Actors, LockHeld, RowsKept
<1>0. Len(rows) \in Nat
  BY LenProperties
<1>1. ASSUME NEW t \in Threads, NEW name \in {"resume", "pause", "stop", "refresh"}, Begin(t, name) PROVE RowsKept'
  BY <1>1 DEF Begin, At
<1>2. ASSUME NEW t \in Threads, StartCheck(t) PROVE RowsKept'
  <2>1. rows' \in {rows, Recovered} /\ UNCHANGED sid
    BY <1>2 DEF StartCheck
  <2>2. Len(rows) < MaxSessions
    BY <1>2 DEF StartCheck
  <2>3. Recovered \in Seq(Session) /\ Len(Recovered) = Len(rows)
    BY RecoveredRows
  <2>4. rows' \in Seq(Session) /\ Len(rows') = Len(rows)
    BY <2>1, <2>3
  <2> QED BY <2>1, <2>2, <2>4, <1>0 DEF At
<1>3. ASSUME NEW t \in Threads, StartInsert(t) PROVE RowsKept'
  <2>1. At(t, "insert") /\ Len(rows) < MaxSessions
    BY <1>3 DEF StartInsert
  <2>2. \A u \in Threads : at'[u] # "insert"
    <3>1. lock = t /\ \A u \in Threads : At(u, "insert") => u = t
      BY <2>1 DEF At
    <3>2. at'[t] # "insert" /\ \A u \in Threads \ {t} : at'[u] = at[u]
      BY <1>3 DEF StartInsert, Goto, Release
    <3> QED BY <3>1, <3>2 DEF At
  <2>3. \/ UNCHANGED <<rows, sid>>
        \/ /\ rows' \in Seq(Session) /\ Len(rows') = Len(rows) + 1
           /\ sid' = Len(rows) + 1
    BY <1>3, AddedRow DEF StartInsert
  <2> QED BY <2>1, <2>2, <2>3, <1>0 DEF At
<1>4. ASSUME NEW t \in Threads, StartArm(t) PROVE RowsKept'
  <2>1. \A u \in Threads : at'[u] = "insert" => at[u] = "insert"
    BY <1>4 DEF StartArm, Goto
  <2>2. rows' \in {rows, Renewed} /\ UNCHANGED sid
    BY <1>4 DEF StartArm
  <2> QED BY <2>1, <2>2, RenewedRows DEF At
<1>5. ASSUME NEW t \in Threads, PauseBegin(t) PROVE RowsKept'
  BY <1>5 DEF PauseBegin, At, Pausing
<1>6. ASSUME NEW t \in Threads, PauseCancel(t) PROVE RowsKept'
  <2>1. \A u \in Threads : at'[u] = "insert" => at[u] = "insert"
    BY <1>6 DEF PauseCancel, Goto, Release
  <2>2. /\ UNCHANGED sid
        /\ \/ UNCHANGED rows
           \/ sid # 0 /\ rows' = [rows EXCEPT ![sid].status = "cancelled"]
    BY <1>6 DEF PauseCancel
  <2>3. rows' \in Seq(Session) /\ Len(rows') = Len(rows)
    <3>1. CASE UNCHANGED rows
      BY <3>1
    <3>2. CASE ~UNCHANGED rows
      <4>1. sid \in 1..Len(rows) /\ rows' = [rows EXCEPT ![sid].status = "cancelled"]
        BY <2>2, <3>2, <1>0
      <4> QED BY <4>1, CancelledRows
    <3> QED BY <3>1, <3>2
  <2> QED BY <2>1, <2>2, <2>3 DEF At
<1>7. ASSUME NEW t \in Threads, PauseRecord(t) PROVE RowsKept'
  BY <1>7 DEF PauseRecord, At, Release, Goto
<1>8. ASSUME NEW l \in Loops, Fire(l) PROVE RowsKept'
  BY <1>8 DEF Fire, At, Goto
<1>9. ASSUME NEW l \in Loops, Again(l) PROVE RowsKept'
  BY <1>9 DEF Again, At, Goto
<1>10. ASSUME NEW l \in Loops, Beat(l) PROVE RowsKept'
  <2>1. \A u \in Threads : at'[u] = "insert" => at[u] = "insert"
    BY <1>10 DEF Beat, Goto
  <2>2. rows' \in {rows, Renewed} /\ UNCHANGED sid
    BY <1>10 DEF Beat
  <2> QED BY <2>1, <2>2, RenewedRows DEF At
<1>11. ASSUME NEW l \in Loops, Arm(l) PROVE RowsKept'
  BY <1>11 DEF Arm, At, Goto
<1>12. ASSUME NEW a \in Actors, Enter(a) PROVE RowsKept'
  BY <1>12 DEF Enter, At, Goto, AfterCycle
<1>13. ASSUME NEW a \in Actors, Cycle(a) PROVE RowsKept'
  <2>1. \A u \in Threads : at'[u] = "insert" => at[u] = "insert"
    BY <1>13 DEF Cycle, Goto
  <2>2. rows' \in {rows, Renewed} /\ UNCHANGED sid
    BY <1>13 DEF Cycle
  <2> QED BY <2>1, <2>2, RenewedRows DEF At
<1>14. ASSUME NEW a \in Actors, Leave(a) PROVE RowsKept'
  BY <1>14 DEF Leave, At, Goto, AfterCycle
<1>15. ASSUME NEW i \in DOMAIN rows, Expire(i) PROVE RowsKept'
  <2>1. rows' = [rows EXCEPT ![i].live = FALSE] /\ UNCHANGED <<sid, at>>
    BY <1>15 DEF Expire, local
  <2> QED BY <2>1, ExpiredRows DEF At
<1>16. ASSUME Restart PROVE RowsKept'
  BY <1>16 DEF Restart, Boot, BootOp, At
<1>17. CASE UNCHANGED vars
  BY <1>17 DEF vars, local, At
<1> QED
  BY <1>1, <1>2, <1>3, <1>4, <1>5, <1>6, <1>7, <1>8, <1>9, <1>10, <1>11, <1>12, <1>13, <1>14, <1>15, <1>16, <1>17 DEF Next, Operation, LoopStep, Refresh

LEMMA InitRows == Init => RowsKept
  <1> SUFFICES ASSUME Init PROVE RowsKept
    OBVIOUS
  <1>1. rows \in Seq(Session) /\ Len(rows) = 0
    BY EmptySeq DEF Init
  <1>2. \A t \in Threads : ~At(t, "insert")
    BY DEF Init, Boot, At, Actors
  <1> QED BY <1>1, <1>2, ActorAssumption DEF Init, RowsKept

LEMMA RowsHold == Spec => [](Inv /\ RowsKept)
  <1>1. Inv /\ RowsKept /\ [Next]_vars => (Inv /\ RowsKept)'
    BY InvStep, RowsStep DEF Inv
  <1> QED BY <1>1, InitInv, InitRows, PTL DEF Spec

\* Every variable keeps its type, and there is never a row more than MaxSessions.
THEOREM SchedulerType == Spec => []TypeOK
  <1>1. Inv /\ RowsKept => TypeOK
    BY DEF Inv, Control, Steps, RowsKept, TypeOK
  <1> QED BY <1>1, RowsHold, PTL

----------------------------------------------------------------------------
(* The loop: where writes succeed, it goes on as long as it is enabled      *)

\* A thread that has enabled holds _lock until it has started a timer.
LoopKept == enabled => \/ \E l \in Loops : at[l] # "idle"
                       \/ \E t \in Threads : lock = t /\ at[t] = "arm"

\* A start leaves a timer, and a timer's thread ends only when disabled.
LEMMA LoopStepKept == WritesMayFail = FALSE /\ Control /\ LockHeld /\ PauseSeen /\ LoopKept /\ [Next]_vars => LoopKept'
<1> SUFFICES ASSUME WritesMayFail = FALSE /\ Control /\ LockHeld /\ PauseSeen /\ LoopKept, [Next]_vars PROVE LoopKept'
  OBVIOUS
<1> USE ActorAssumption DEF Control, Steps, Actors, LockHeld, PauseSeen, LoopKept
<1>1. ASSUME NEW t \in Threads, NEW name \in {"resume", "pause", "stop", "refresh"}, Begin(t, name) PROVE LoopKept'
  BY <1>1 DEF Begin, At
<1>2. ASSUME NEW t \in Threads, StartCheck(t) PROVE LoopKept'
  BY <1>2 DEF StartCheck, At, Starting, Goto, Recovered, Refused
<1>3. ASSUME NEW t \in Threads, StartInsert(t) PROVE LoopKept'
  BY <1>3 DEF StartInsert, At, Release, Goto
<1>4. ASSUME NEW t \in Threads, StartArm(t) PROVE LoopKept'
  <2>1. PICK l \in Loops : at' = [at EXCEPT ![l] = "pending", ![t] = "idle"]
    BY <1>4 DEF StartArm
  <2> QED BY <2>1
<1>5. ASSUME NEW t \in Threads, PauseBegin(t) PROVE LoopKept'
  BY <1>5 DEF PauseBegin, At, Pausing
<1>6. ASSUME NEW t \in Threads, PauseCancel(t) PROVE LoopKept'
  BY <1>6 DEF PauseCancel, At, Release, Goto
<1>7. ASSUME NEW t \in Threads, PauseRecord(t) PROVE LoopKept'
  BY <1>7 DEF PauseRecord, At, Release, Goto
<1>8. ASSUME NEW l \in Loops, Fire(l) PROVE LoopKept'
  BY <1>8 DEF Fire, At, Goto
<1>9. ASSUME NEW l \in Loops, Again(l) PROVE LoopKept'
  BY <1>9 DEF Again, At, Goto
<1>10. ASSUME NEW l \in Loops, Beat(l) PROVE LoopKept'
  BY <1>10 DEF Beat, At, Goto, Renewed
<1>11. ASSUME NEW l \in Loops, Arm(l) PROVE LoopKept'
  BY <1>11 DEF Arm, At, Goto
<1>12. ASSUME NEW a \in Actors, Enter(a) PROVE LoopKept'
  BY <1>12 DEF Enter, At, Goto, AfterCycle
<1>13. ASSUME NEW a \in Actors, Cycle(a) PROVE LoopKept'
  BY <1>13 DEF Cycle, At, Goto, Renewed
<1>14. ASSUME NEW a \in Actors, Leave(a) PROVE LoopKept'
  BY <1>14 DEF Leave, At, Goto, AfterCycle
<1>15. ASSUME NEW i \in DOMAIN rows, Expire(i) PROVE LoopKept'
  BY <1>15 DEF Expire, local, At
<1>16. ASSUME Restart PROVE LoopKept'
  BY <1>16 DEF Restart, Boot, BootOp, At
<1>17. CASE UNCHANGED vars
  BY <1>17 DEF vars, local, At
<1> QED
  BY <1>1, <1>2, <1>3, <1>4, <1>5, <1>6, <1>7, <1>8, <1>9, <1>10, <1>11, <1>12, <1>13, <1>14, <1>15, <1>16, <1>17 DEF Next, Operation, LoopStep, Refresh

\* EnabledHasLoop: while the refresh is enabled there is a timer, a timer thread, or
\* the start that will arm one.
THEOREM LoopCarriesOn == ASSUME WritesMayFail = FALSE PROVE Spec => []EnabledHasLoop
  <1>1. Init => LoopKept
    BY DEF Init, LoopKept
  <1>2. (Inv /\ LoopKept) /\ [Next]_vars => (Inv /\ LoopKept)'
    BY InvStep, LoopStepKept DEF Inv
  <1>3. Inv /\ LoopKept => EnabledHasLoop
    <2> SUFFICES ASSUME Inv, LoopKept, enabled,
                        ~ \E t \in Threads : lock = t /\ Starting(t)
                 PROVE  Active # {}
      BY DEF EnabledHasLoop
    <2>1. \A t \in Threads : ~(lock = t /\ at[t] = "arm")
      BY DEF Inv, LockHeld
    <2>2. PICK l \in Loops : at[l] # "idle"
      BY <2>1 DEF LoopKept
    <2> QED BY <2>2 DEF Active, At
  <1> QED BY <1>1, <1>2, <1>3, InitInv, PTL DEF Spec

----------------------------------------------------------------------------
(* The sessions: where writes succeed, one row is running                   *)
Running(i) == rows[i].status = "running"

\* A running row of this worker is the coordinator's own, and the refresh is
\* enabled or about to be cancelled; a start that goes on has seen none.
SessionsKept ==
    /\ \A i, j \in DOMAIN rows : Running(i) /\ Running(j) => i = j
    /\ \A i \in DOMAIN rows : rows[i].owner \in 0..restarts
    /\ \A i \in DOMAIN rows :
           Running(i) /\ rows[i].owner = restarts =>
               i = sid /\ (enabled \/ \E t \in Threads : at[t] = "cancel")
    /\ (\E t \in Threads : at[t] = "insert") => \A i \in DOMAIN rows : ~Running(i)

\* Only leases differ.
SameStatus(new) == /\ DOMAIN new = DOMAIN rows
                   /\ \A i \in DOMAIN rows : /\ new[i].status = rows[i].status
                                             /\ new[i].owner = rows[i].owner

\* A lease renewed or run out changes neither status nor owner.
LEMMA LeaseOnly ==
    ASSUME rows \in Seq(Session), NEW i \in DOMAIN rows, NEW b \in BOOLEAN
    PROVE  SameStatus([rows EXCEPT ![i].live = b])
  <1>1. rows[i] \in Session
    BY ElementOfSeq, LenProperties
  <1> QED BY <1>1 DEF SameStatus, Session

LEMMA RenewedStatus ==
    ASSUME rows \in Seq(Session), sid \in 0..Len(rows)
    PROVE  SameStatus(Renewed)
  <1>1. CASE sid = 0
    BY <1>1 DEF Renewed, SameStatus
  <1>2. CASE sid # 0
    <2>1. sid \in DOMAIN rows
      BY <1>2, LenProperties
    <2> QED BY <1>2, <2>1, LeaseOnly DEF Renewed
  <1> QED BY <1>1, <1>2

\* A step that changes leases at most, and neither ends a cancellation nor starts.
LEMMA SessionsFrame ==
    ASSUME SessionsKept, SameStatus(rows'), UNCHANGED <<sid, restarts>>, enabled => enabled',
           \A t \in Threads : at[t] = "cancel" => at'[t] = "cancel",
           \A t \in Threads : at'[t] = "insert" => at[t] = "insert"
    PROVE  SessionsKept'
  BY DEF SessionsKept, SameStatus, Running

\* A start inserts after a look under the lock; a pause cancels the coordinator's row.
LEMMA SessionsStep == WritesMayFail = FALSE /\ Control /\ LockHeld /\ RowsKept /\ SessionsKept /\ [Next]_vars => SessionsKept'
<1> SUFFICES ASSUME WritesMayFail = FALSE /\ Control /\ LockHeld /\ RowsKept /\ SessionsKept, [Next]_vars PROVE SessionsKept'
  OBVIOUS
<1> USE ActorAssumption DEF Control, Steps, Actors, LockHeld, RowsKept
<1>0. Len(rows) \in Nat
  BY LenProperties
<1>1. ASSUME NEW t \in Threads, NEW name \in {"resume", "pause", "stop", "refresh"}, Begin(t, name) PROVE SessionsKept'
  <2>1. UNCHANGED <<sid, restarts>> /\ (enabled => enabled')
    BY <1>1 DEF Begin, local
  <2>2. \A t1 \in Threads : (at[t1] = "cancel" => at'[t1] = "cancel") /\ (at'[t1] = "insert" => at[t1] = "insert")
    BY <1>1 DEF Begin, At, LockHeld, Pausing, Starting
  <2>3. SameStatus(rows')
    BY <1>1 DEF Begin, SameStatus
  <2> QED BY <2>1, <2>2, <2>3, SessionsFrame
<1>2. ASSUME NEW t \in Threads, StartCheck(t) PROVE SessionsKept'
  <2>1. UNCHANGED <<sid, restarts, enabled>> /\ lock = Nobody
    BY <1>2 DEF StartCheck
  <2>2. \A u \in Threads : at[u] \notin {"cancel", "insert"}
    BY <2>1
  <2>3. CASE UNCHANGED rows /\ at'[t] = "idle"
    <3>1. \A u \in Threads : at'[u] # "insert"
      BY <1>2, <2>2, <2>3 DEF StartCheck, Goto
    <3> QED BY <2>1, <2>2, <2>3, <3>1 DEF SessionsKept, Running
  <2>4. CASE ~(UNCHANGED rows /\ at'[t] = "idle")
    <3>1. rows' = Recovered /\ ~enabled
      BY <1>2, <2>4 DEF StartCheck, Goto
    <3>2. \A i \in DOMAIN rows : ~(Running(i) /\ rows[i].owner = restarts)
      BY <2>2, <3>1 DEF SessionsKept
    <3>3. /\ DOMAIN rows' = DOMAIN rows
          /\ \A i \in DOMAIN rows :
                /\ rows'[i].owner = rows[i].owner
                /\ rows'[i].status = "running" => Running(i) /\ rows[i].live
      <4>1. \A i \in DOMAIN rows : rows[i] \in Session
        BY ElementOfSeq, LenProperties
      <4> QED BY <3>1, <4>1 DEF Recovered, Running, Session
    <3>4. (\E u \in Threads : at'[u] = "insert") => ~OtherActive
      BY <1>2, <2>2 DEF StartCheck, Goto, Refused
    <3>5. (\E u \in Threads : at'[u] = "insert") => \A i \in DOMAIN rows : rows'[i].status # "running"
      BY <3>2, <3>3, <3>4 DEF OtherActive, Running
    <3> QED BY <2>1, <3>2, <3>3, <3>5 DEF SessionsKept, Running
  <2> QED BY <2>3, <2>4
<1>3. ASSUME NEW t \in Threads, StartInsert(t) PROVE SessionsKept'
  <2> DEFINE row == [status |-> "running", owner |-> restarts, live |-> TRUE]
  <2>1. at[t] = "insert" /\ lock = t
    BY <1>3 DEF StartInsert, At
  <2>2. \A i \in DOMAIN rows : ~Running(i)
    BY <2>1 DEF SessionsKept
  <2>3. rows' = Append(rows, row) /\ sid' = Len(rows) + 1 /\ enabled' = TRUE /\ restarts' = restarts
    BY <1>3 DEF StartInsert
  <2>4. \A u \in Threads : at'[u] # "insert"
    BY <1>3, <2>1 DEF StartInsert, Goto
  <2>5. /\ DOMAIN rows' = 1..Len(rows) + 1 /\ DOMAIN rows = 1..Len(rows)
        /\ \A i \in DOMAIN rows : rows'[i] = rows[i]
        /\ rows'[Len(rows) + 1] = row
    <3>1. row \in Session
      BY DEF Session
    <3> QED BY <2>3, <3>1, AppendProperties, LenProperties
  <2>6. \A i \in DOMAIN rows' : i \in DOMAIN rows \/ i = Len(rows) + 1
    BY <2>5, <1>0
  <2>7. \A i \in DOMAIN rows' : rows'[i].status = "running" => i = Len(rows) + 1
    BY <2>2, <2>5, <2>6 DEF Running
  <2>8. \A i \in DOMAIN rows' : rows'[i].owner \in 0..restarts
    BY <2>5, <2>6 DEF SessionsKept
  <2> QED BY <2>3, <2>4, <2>7, <2>8 DEF SessionsKept, Running
<1>4. ASSUME NEW t \in Threads, StartArm(t) PROVE SessionsKept'
  <2>1. UNCHANGED <<sid, restarts>> /\ (enabled => enabled')
    BY <1>4 DEF StartArm, local
  <2>2. \A t1 \in Threads : (at[t1] = "cancel" => at'[t1] = "cancel") /\ (at'[t1] = "insert" => at[t1] = "insert")
    BY <1>4 DEF StartArm, At, Goto, Renewed, LockHeld, Pausing, Starting
  <2>3. SameStatus(rows')
    BY <1>4, RenewedStatus DEF StartArm, SameStatus
  <2> QED BY <2>1, <2>2, <2>3, SessionsFrame
<1>5. ASSUME NEW t \in Threads, PauseBegin(t) PROVE SessionsKept'
  <2>1. UNCHANGED <<sid, restarts, rows>> /\ at'[t] = "cancel" /\ lock = Nobody
    BY <1>5 DEF PauseBegin
  <2>2. \A u \in Threads : at'[u] # "insert"
    BY <1>5, <2>1 DEF PauseBegin
  <2> QED BY <2>1, <2>2 DEF SessionsKept, Running
<1>6. ASSUME NEW t \in Threads, PauseCancel(t) PROVE SessionsKept'
  <2>1. at[t] = "cancel" /\ lock = t
    BY <1>6 DEF PauseCancel, At
  <2>2. UNCHANGED <<sid, restarts, enabled>> /\ \A u \in Threads : at'[u] # "insert"
    BY <1>6, <2>1 DEF PauseCancel, Goto, Release
  <2>3. DOMAIN rows' = DOMAIN rows /\ DOMAIN rows = 1..Len(rows)
    BY <1>6, LenProperties DEF PauseCancel
  <2>4. \A i \in DOMAIN rows :
            /\ rows'[i].owner = rows[i].owner
            /\ rows'[i].status = "running" => Running(i) /\ i # sid
    <3>1. CASE sid = 0
      BY <1>6, <2>3, <3>1 DEF PauseCancel, Running
    <3>2. CASE sid # 0
      <4>1. rows' = [rows EXCEPT ![sid].status = "cancelled"]
        BY <1>6, <3>2 DEF PauseCancel
      <4>2. sid \in DOMAIN rows
        BY <2>3, <3>2, <1>0
      <4>3. rows[sid] \in Session
        BY <2>3, <4>2, ElementOfSeq
      <4> QED BY <4>1, <4>2, <4>3 DEF Running, Session
    <3> QED BY <3>1, <3>2
  <2>5. \A i \in DOMAIN rows : ~(rows'[i].status = "running" /\ rows'[i].owner = restarts)
    <3> SUFFICES ASSUME NEW i \in DOMAIN rows, rows'[i].status = "running", rows'[i].owner = restarts PROVE FALSE
      OBVIOUS
    <3>1. Running(i) /\ rows[i].owner = restarts /\ i # sid
      BY <2>4
    <3> QED BY <3>1 DEF SessionsKept, Running
  <2>6. \A i, j \in DOMAIN rows : rows'[i].status = "running" /\ rows'[j].status = "running" => i = j
    BY <2>4 DEF SessionsKept, Running
  <2>7. \A i \in DOMAIN rows : rows'[i].owner \in 0..restarts
    BY <2>4 DEF SessionsKept, Running
  <2> HIDE DEF RowsKept, LockHeld, Control
  <2> QED BY <2>2, <2>3, <2>5, <2>6, <2>7 DEF SessionsKept, Running
<1>7. ASSUME NEW t \in Threads, PauseRecord(t) PROVE SessionsKept'
  <2>1. UNCHANGED <<sid, restarts>> /\ (enabled => enabled')
    BY <1>7 DEF PauseRecord, local
  <2>2. \A t1 \in Threads : (at[t1] = "cancel" => at'[t1] = "cancel") /\ (at'[t1] = "insert" => at[t1] = "insert")
    BY <1>7 DEF PauseRecord, At, Release, Goto, LockHeld, Pausing, Starting
  <2>3. SameStatus(rows')
    BY <1>7 DEF PauseRecord, SameStatus
  <2> QED BY <2>1, <2>2, <2>3, SessionsFrame
<1>8. ASSUME NEW l \in Loops, Fire(l) PROVE SessionsKept'
  <2>1. UNCHANGED <<sid, restarts>> /\ (enabled => enabled')
    BY <1>8 DEF Fire, local
  <2>2. \A t1 \in Threads : (at[t1] = "cancel" => at'[t1] = "cancel") /\ (at'[t1] = "insert" => at[t1] = "insert")
    BY <1>8 DEF Fire, At, Goto, LockHeld, Pausing, Starting
  <2>3. SameStatus(rows')
    BY <1>8 DEF Fire, SameStatus
  <2> QED BY <2>1, <2>2, <2>3, SessionsFrame
<1>9. ASSUME NEW l \in Loops, Again(l) PROVE SessionsKept'
  <2>1. UNCHANGED <<sid, restarts>> /\ (enabled => enabled')
    BY <1>9 DEF Again, local
  <2>2. \A t1 \in Threads : (at[t1] = "cancel" => at'[t1] = "cancel") /\ (at'[t1] = "insert" => at[t1] = "insert")
    BY <1>9 DEF Again, At, Goto, LockHeld, Pausing, Starting
  <2>3. SameStatus(rows')
    BY <1>9 DEF Again, SameStatus
  <2> QED BY <2>1, <2>2, <2>3, SessionsFrame
<1>10. ASSUME NEW l \in Loops, Beat(l) PROVE SessionsKept'
  <2>1. UNCHANGED <<sid, restarts>> /\ (enabled => enabled')
    BY <1>10 DEF Beat, local
  <2>2. \A t1 \in Threads : (at[t1] = "cancel" => at'[t1] = "cancel") /\ (at'[t1] = "insert" => at[t1] = "insert")
    BY <1>10 DEF Beat, At, Goto, Renewed, LockHeld, Pausing, Starting
  <2>3. SameStatus(rows')
    BY <1>10, RenewedStatus DEF Beat, SameStatus
  <2> QED BY <2>1, <2>2, <2>3, SessionsFrame
<1>11. ASSUME NEW l \in Loops, Arm(l) PROVE SessionsKept'
  <2>1. UNCHANGED <<sid, restarts>> /\ (enabled => enabled')
    BY <1>11 DEF Arm, local
  <2>2. \A t1 \in Threads : (at[t1] = "cancel" => at'[t1] = "cancel") /\ (at'[t1] = "insert" => at[t1] = "insert")
    BY <1>11 DEF Arm, At, Goto, LockHeld, Pausing, Starting
  <2>3. SameStatus(rows')
    BY <1>11 DEF Arm, SameStatus
  <2> QED BY <2>1, <2>2, <2>3, SessionsFrame
<1>12. ASSUME NEW a \in Actors, Enter(a) PROVE SessionsKept'
  <2>1. UNCHANGED <<sid, restarts>> /\ (enabled => enabled')
    BY <1>12 DEF Enter, local
  <2>2. \A t1 \in Threads : (at[t1] = "cancel" => at'[t1] = "cancel") /\ (at'[t1] = "insert" => at[t1] = "insert")
    BY <1>12 DEF Enter, At, Goto, AfterCycle, LockHeld, Pausing, Starting
  <2>3. SameStatus(rows')
    BY <1>12 DEF Enter, SameStatus
  <2> QED BY <2>1, <2>2, <2>3, SessionsFrame
<1>13. ASSUME NEW a \in Actors, Cycle(a) PROVE SessionsKept'
  <2>1. UNCHANGED <<sid, restarts>> /\ (enabled => enabled')
    BY <1>13 DEF Cycle, local
  <2>2. \A t1 \in Threads : (at[t1] = "cancel" => at'[t1] = "cancel") /\ (at'[t1] = "insert" => at[t1] = "insert")
    BY <1>13 DEF Cycle, At, Goto, Renewed, LockHeld, Pausing, Starting
  <2>3. SameStatus(rows')
    BY <1>13, RenewedStatus DEF Cycle, SameStatus
  <2> QED BY <2>1, <2>2, <2>3, SessionsFrame
<1>14. ASSUME NEW a \in Actors, Leave(a) PROVE SessionsKept'
  <2>1. UNCHANGED <<sid, restarts>> /\ (enabled => enabled')
    BY <1>14 DEF Leave, local
  <2>2. \A t1 \in Threads : (at[t1] = "cancel" => at'[t1] = "cancel") /\ (at'[t1] = "insert" => at[t1] = "insert")
    BY <1>14 DEF Leave, At, Goto, AfterCycle, LockHeld, Pausing, Starting
  <2>3. SameStatus(rows')
    BY <1>14 DEF Leave, SameStatus
  <2> QED BY <2>1, <2>2, <2>3, SessionsFrame
<1>15. ASSUME NEW i \in DOMAIN rows, Expire(i) PROVE SessionsKept'
  <2>1. UNCHANGED <<sid, restarts>> /\ (enabled => enabled')
    BY <1>15 DEF Expire, local
  <2>2. \A t1 \in Threads : (at[t1] = "cancel" => at'[t1] = "cancel") /\ (at'[t1] = "insert" => at[t1] = "insert")
    BY <1>15 DEF Expire, local, At, LockHeld, Pausing, Starting
  <2>3. SameStatus(rows')
    BY <1>15, LeaseOnly DEF Expire
  <2> QED BY <2>1, <2>2, <2>3, SessionsFrame
<1>16. ASSUME Restart PROVE SessionsKept'
  <2>1. UNCHANGED rows /\ restarts' = restarts + 1 /\ \A u \in Threads : at'[u] # "insert"
    BY <1>16 DEF Restart, Boot
  <2>2. \A i \in DOMAIN rows : rows[i].owner \in 0..restarts' /\ rows[i].owner # restarts'
    BY <2>1 DEF SessionsKept
  <2> QED BY <2>1, <2>2 DEF SessionsKept, Running
<1>17. CASE UNCHANGED vars
  <2>1. SameStatus(rows') /\ UNCHANGED <<sid, restarts, enabled, at>>
    BY <1>17 DEF vars, local, SameStatus
  <2> QED BY <2>1, SessionsFrame
<1> QED
  BY <1>1, <1>2, <1>3, <1>4, <1>5, <1>6, <1>7, <1>8, <1>9, <1>10, <1>11, <1>12, <1>13, <1>14, <1>15, <1>16, <1>17 DEF Next, Operation, LoopStep, Refresh

\* OneRunningSession: however often the worker dies, one row at most is running.
THEOREM OneSession == ASSUME WritesMayFail = FALSE PROVE Spec => []OneRunningSession
  <1>1. Init => SessionsKept
    BY EmptySeq, ActorAssumption DEF Init, SessionsKept, Boot, Actors
  <1>2. (Inv /\ RowsKept /\ SessionsKept) /\ [Next]_vars => (Inv /\ RowsKept /\ SessionsKept)'
    BY InvStep, RowsStep, SessionsStep DEF Inv
  <1>3. ASSUME SessionsKept PROVE OneRunningSession
    <2> DEFINE open == {i \in DOMAIN rows : rows[i].status = "running"}
    <2>1. CASE open = {}
      BY <2>1, FS_EmptySet DEF OneRunningSession
    <2>2. CASE open # {}
      <3>1. PICK i \in DOMAIN rows : open = {i}
        BY <1>3, <2>2 DEF SessionsKept, Running
      <3>2. Cardinality(open) = 1
        BY <3>1, FS_Singleton
      <3> QED BY <3>2 DEF OneRunningSession
    <2> QED BY <2>1, <2>2
  <1> QED BY <1>1, <1>2, <1>3, InitInv, InitRows, PTL DEF Spec
=============================================================================
