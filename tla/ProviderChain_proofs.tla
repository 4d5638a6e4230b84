------------------------- MODULE ProviderChain_proofs -------------------------
(***************************************************************************)
(* Proofs about ProviderChain, for every set of providers, every list of   *)
(* candidates, every policy and any number of concurrent probes:           *)
(*   ChainType         Spec => []TypeOK                                    *)
(*   CircuitsAgree     Spec => []CircuitConsistent                         *)
(*   OneTrial          Spec => []OneTrialPerCycle                          *)
(*   OneFailure        Spec => []OneFailurePerCycle                        *)
(* The two counts are not inductive.  The invariant adds what stops a      *)
(* second request: the provider is in _cycle_unavailable, or the first     *)
(* request is still pending, and the count of a closed circuit is zero.    *)
(***************************************************************************)
EXTENDS ProviderChain, TLAPS

\* The request, or the review of its answer, that a trial of p waits for.
Pending(p) == cycle.at \in {"wait", "review"} /\ cycle.trial /\ Candidate = p

\* A trial is pending or has taken p out of the cycle, unless p was closed.
TrialLearnt(p) == /\ trials[p] <= 1
                  /\ trials[p] = 1 => p \in unavailable \/ Pending(p)
                  /\ health[p].state = "closed" => trials[p] = 0

\* A failure has taken p out of the cycle.
FailureLearnt(p) == failures[p] <= 1 /\ (failures[p] = 1 => p \in unavailable)

\* The counts belong to the cycle that runs.
IdleCounts == cycle.at = "idle" => \A p \in Providers : trials[p] = 0 /\ failures[p] = 0

\* A request is sent only to a provider the cycle has learnt nothing about.
AskedInTime == cycle.at = "wait" => Candidate \notin unavailable

Learnt == /\ \A p \in Providers : TrialLearnt(p) /\ FailureLearnt(p)
          /\ IdleCounts /\ AskedInTime

IInv == TypeOK /\ CircuitConsistent /\ Learnt

----------------------------------------------------------------------------
(* The circuit                                                              *)

\* A new circuit is closed and consistent.
LEMMA HealthyCircuit == Healthy \in Circuit /\ Consistent(Healthy) /\ Healthy.state = "closed"
  BY PolicyAssumption DEF Healthy, Circuit, Consistent

\* record_success keeps a circuit's type and consistency.
LEMMA SucceededCircuit ==
    ASSUME NEW circuit \in Circuit, Consistent(circuit)
    PROVE  Succeeded(circuit) \in Circuit /\ Consistent(Succeeded(circuit))
  <1>1. CASE circuit.state = "closed"
    <2> DEFINE first == [circuit EXCEPT !.failures = 0]
               new   == [first EXCEPT !.recovered = 0]
    <2>1. Succeeded(circuit) = new
      BY <1>1 DEF Succeeded
    <2>2. /\ first.state = "closed" /\ first.failures = 0
          /\ first.opened = circuit.opened /\ first.cooldown = circuit.cooldown
      BY <1>1 DEF Circuit
    <2>3. first \in Circuit
      <3>1. 0 \in 0..FailureThreshold
        BY PolicyAssumption
      <3> QED BY <3>1 DEF Circuit
    <2> HIDE DEF first
    <2>4. /\ new \in Circuit /\ new.state = "closed" /\ new.failures = 0 /\ new.recovered = 0
          /\ new.opened = first.opened /\ new.cooldown = first.cooldown
      BY <2>2, <2>3, PolicyAssumption DEF Circuit
    <2> HIDE DEF new
    <2> QED BY <1>1, <2>1, <2>2, <2>4, PolicyAssumption DEF Consistent
  <1>2. CASE circuit.state # "closed" /\ circuit.recovered + 1 < SuccessThreshold
    <2> DEFINE first == [circuit EXCEPT !.state = "half_open"]
               new   == [first EXCEPT !.recovered = circuit.recovered + 1]
    <2>1. Succeeded(circuit) = new
      BY <1>2, PolicyAssumption DEF Succeeded, Circuit
    <2>2. /\ first \in Circuit /\ first.state = "half_open" /\ first.opened = circuit.opened
          /\ circuit.recovered \in Nat /\ circuit.state \in {"open", "half_open"}
      <3>1. circuit.recovered \in Nat
        BY PolicyAssumption DEF Circuit
      <3>2. circuit.state \in {"open", "half_open"}
        BY <1>2 DEF Circuit
      <3>3. first \in Circuit
        BY DEF Circuit
      <3>4. first.state = "half_open" /\ first.opened = circuit.opened
        BY DEF Circuit
      <3> HIDE DEF first
      <3> QED BY <3>1, <3>2, <3>3, <3>4
    <2> HIDE DEF first
    <2>3. /\ new \in Circuit /\ new.state = "half_open" /\ new.opened = first.opened
          /\ new.recovered = circuit.recovered + 1
      <3>1. circuit.recovered + 1 \in 0..(SuccessThreshold - 1)
        BY <1>2, <2>2, PolicyAssumption
      <3>2. new \in Circuit
        BY <2>2, <3>1 DEF Circuit
      <3>3. new.state = "half_open" /\ new.opened = first.opened
        BY <2>2 DEF Circuit
      <3>4. new.recovered = circuit.recovered + 1
        BY <2>2 DEF Circuit
      <3> HIDE DEF new
      <3> QED BY <3>2, <3>3, <3>4
    <2> HIDE DEF new
    <2>4. circuit.opened /\ new.recovered > 0
      BY <2>2, <2>3 DEF Consistent
    <2> QED BY <2>1, <2>2, <2>3, <2>4 DEF Consistent
  <1>3. CASE circuit.state # "closed" /\ circuit.recovered + 1 >= SuccessThreshold
    BY <1>3, HealthyCircuit DEF Succeeded
  <1> QED BY <1>1, <1>2, <1>3, PolicyAssumption DEF Circuit

\* record_failure does, and closes no circuit.
LEMMA FailedCircuit ==
    ASSUME NEW circuit \in Circuit, Consistent(circuit)
    PROVE  /\ Failed(circuit) \in Circuit /\ Consistent(Failed(circuit))
           /\ Failed(circuit).state = "closed" => circuit.state = "closed"
  <1> DEFINE more   == IF circuit.failures = FailureThreshold THEN circuit.failures
                       ELSE circuit.failures + 1
             reset  == [circuit EXCEPT !.recovered = 0]
             struck == [reset EXCEPT !.failures = more]
             longer == IF circuit.opened THEN 2 * circuit.cooldown ELSE circuit.cooldown
             capped == IF longer > MaxCooldown THEN MaxCooldown ELSE longer
             broken == [struck EXCEPT !.state = "open"]
             dated  == [broken EXCEPT !.opened = TRUE]
             shut   == [dated EXCEPT !.cooldown = capped]
  <1>1. Failed(circuit) = IF Opens(circuit) THEN shut ELSE struck
    BY DEF Failed
  <1>2. /\ more \in 0..FailureThreshold /\ more <= circuit.failures + 1
        /\ capped \in 1..MaxCooldown
    <2>1. circuit.failures \in 0..FailureThreshold /\ circuit.cooldown \in 1..MaxCooldown
      BY DEF Circuit
    <2>2. more \in 0..FailureThreshold /\ more <= circuit.failures + 1
      BY <2>1, PolicyAssumption
    <2>3. longer \in Nat \ {0}
      BY <2>1, PolicyAssumption
    <2> HIDE DEF more, longer
    <2>4. capped \in 1..MaxCooldown
      BY <2>3, PolicyAssumption
    <2> QED BY <2>2, <2>4
  <1> HIDE DEF more, capped
  <1>3. reset \in Circuit /\ reset.recovered = 0 /\ reset.state = circuit.state
        /\ reset.opened = circuit.opened /\ reset.cooldown = circuit.cooldown
    <2>1. 0 \in 0..(SuccessThreshold - 1)
      BY PolicyAssumption
    <2>2. reset \in Circuit
      BY <2>1 DEF Circuit
    <2>3. /\ reset.recovered = 0 /\ reset.state = circuit.state
          /\ reset.opened = circuit.opened /\ reset.cooldown = circuit.cooldown
      BY DEF Circuit
    <2> HIDE DEF reset
    <2> QED BY <2>2, <2>3
  <1> HIDE DEF reset
  <1>4. /\ struck \in Circuit /\ struck.recovered = 0 /\ struck.state = circuit.state
        /\ struck.failures = more
        /\ struck.opened = circuit.opened /\ struck.cooldown = circuit.cooldown
    BY <1>2, <1>3 DEF Circuit
  <1> HIDE DEF struck
  <1>5. CASE Opens(circuit)
    <2>1. broken \in Circuit /\ broken.state = "open" /\ broken.recovered = 0
      BY <1>4 DEF Circuit
    <2> HIDE DEF broken
    <2>2. dated \in Circuit /\ dated.state = "open" /\ dated.recovered = 0 /\ dated.opened
      BY <2>1 DEF Circuit
    <2> HIDE DEF dated
    <2>3. shut \in Circuit /\ shut.state = "open" /\ shut.recovered = 0 /\ shut.opened
      BY <1>2, <2>2 DEF Circuit
    <2> HIDE DEF shut
    <2> QED BY <1>1, <1>5, <2>3 DEF Consistent
  <1>6. CASE ~Opens(circuit)
    BY <1>1, <1>2, <1>4, <1>6, PolicyAssumption DEF Opens, Consistent, Circuit
  <1> QED BY <1>5, <1>6

\* What an outcome leaves behind, whoever asked.
LEMMA RecordKeeps ==
    ASSUME IInv, NEW p \in Providers,
           RecordSuccess(p) \/ (RecordFailure(p) /\ UNCHANGED trials)
    PROVE  /\ health' \in [Providers -> Circuit]
           /\ wait' \in [Providers -> 0..MaxCooldown]
           /\ recent' \subseteq Providers
           /\ trials' \in [Providers -> 0..2]
           /\ CircuitConsistent'
           /\ \A q \in Providers : trials'[q] \in {0, trials[q]}
           /\ \A q \in Providers : health'[q].state = "closed" => trials'[q] = 0
  <1>1. /\ health \in [Providers -> Circuit] /\ wait \in [Providers -> 0..MaxCooldown]
        /\ recent \subseteq Providers /\ trials \in [Providers -> 0..2]
        /\ \A q \in Providers : Consistent(health[q])
        /\ \A q \in Providers : health[q].state = "closed" => trials[q] = 0
    BY DEF IInv, TypeOK, CircuitConsistent, Learnt, TrialLearnt
  <1>2. CASE RecordSuccess(p)
    <2>1. health' = [health EXCEPT ![p] = Succeeded(health[p])]
      BY <1>2 DEF RecordSuccess
    <2>2. Succeeded(health[p]) \in Circuit /\ Consistent(Succeeded(health[p]))
      BY <1>1, SucceededCircuit
    <2>3. health' \in [Providers -> Circuit] /\ \A q \in Providers : Consistent(health'[q])
      BY <1>1, <2>1, <2>2
    <2>4. \A q \in Providers \ {p} : health'[q] = health[q]
      BY <1>1, <2>1
    <2>5. wait' \in [Providers -> 0..MaxCooldown] /\ recent' \subseteq Providers
      BY <1>1, <1>2, PolicyAssumption DEF RecordSuccess
    <2>6. \A q \in Providers :
            trials'[q] = IF q = p /\ health'[p].state = "closed" THEN 0 ELSE trials[q]
      BY <1>1, <1>2 DEF RecordSuccess
    <2>7. trials' \in [Providers -> 0..2]
      BY <1>1, <1>2 DEF RecordSuccess
    <2> QED BY <1>1, <2>3, <2>4, <2>5, <2>6, <2>7 DEF CircuitConsistent
  <1>3. CASE RecordFailure(p) /\ UNCHANGED trials
    <2>1. health' = [health EXCEPT ![p] = Failed(health[p])]
      BY <1>3 DEF RecordFailure
    <2>2. /\ Failed(health[p]) \in Circuit /\ Consistent(Failed(health[p]))
          /\ Failed(health[p]).state = "closed" => health[p].state = "closed"
      BY <1>1, FailedCircuit
    <2>3. /\ health' \in [Providers -> Circuit] /\ \A q \in Providers : Consistent(health'[q])
          /\ \A q \in Providers : health'[q].state = "closed" => health[q].state = "closed"
      BY <1>1, <2>1, <2>2
    <2>4. health'[p].cooldown \in 0..MaxCooldown
      BY <2>3, PolicyAssumption DEF Circuit
    <2>5. wait' \in [Providers -> 0..MaxCooldown] /\ recent' \subseteq Providers
      BY <1>1, <1>3, <2>4 DEF RecordFailure
    <2> QED BY <1>1, <1>3, <2>3, <2>5 DEF CircuitConsistent
  <1> QED BY <1>2, <1>3

----------------------------------------------------------------------------
(* The steps                                                                *)

\* All circuits closed, no cycle.
LEMMA InitHolds == Init => IInv
  <1> SUFFICES ASSUME Init PROVE IInv
    OBVIOUS
  <1>1. \A p \in Providers : health[p] = Healthy
    BY DEF Init
  <1>2. TypeOK
    BY HealthyCircuit, PolicyAssumption DEF Init, TypeOK, Fetch, NoFetch
  <1>3. CircuitConsistent
    BY <1>1, HealthyCircuit DEF CircuitConsistent
  <1>4. Learnt
    BY DEF Init, Learnt, TrialLearnt, FailureLearnt, IdleCounts, AskedInTime, NoFetch
  <1> QED BY <1>2, <1>3, <1>4 DEF IInv

\* The candidate of a pending request is a provider.
LEMMA CandidateType ==
    ASSUME cycle \in Fetch, cycle.i \in DOMAIN Chains, cycle.c \in DOMAIN Chains[cycle.i]
    PROVE  Candidate \in Providers
  BY PolicyAssumption DEF Candidate

\* The next candidate and the next path are positions.
LEMMA MoveType ==
    ASSUME cycle \in Fetch, ToNextCandidate \/ ToNextPath
    PROVE  cycle' \in Fetch /\ cycle'.at = "choose"
  <1>1. CASE ToNextCandidate
    <2> DEFINE free == [cycle EXCEPT !.at = "choose"]
               next == [free EXCEPT !.c = cycle.c + 1]
               new  == [next EXCEPT !.trial = FALSE]
    <2>1. free \in Fetch /\ free.at = "choose"
      BY DEF Fetch
    <2>2. cycle.c + 1 \in Nat \ {0}
      BY DEF Fetch
    <2>3. cycle' = new
      BY <1>1 DEF ToNextCandidate
    <2> HIDE DEF free
    <2>4. next \in Fetch /\ next.at = "choose"
      BY <2>1, <2>2 DEF Fetch
    <2> HIDE DEF next
    <2> QED BY <2>3, <2>4 DEF Fetch
  <1>2. CASE ToNextPath
    BY <1>2 DEF Fetch, ToNextPath
  <1> QED BY <1>1, <1>2

\* BeginCycle and EndCycle separate the counts of cycles.
LEMMA CycleKeeps == ASSUME IInv, BeginCycle \/ EndCycle PROVE IInv'
  <1> USE DEF IInv, CircuitConsistent, Learnt, TrialLearnt, FailureLearnt, IdleCounts,
              AskedInTime
  <1>1. CASE BeginCycle
    <2>1. cycle' \in Fetch /\ cycle'.at = "choose"
      BY <1>1 DEF BeginCycle, TypeOK, Fetch
    <2>2. TypeOK'
      BY <1>1, <2>1 DEF BeginCycle, TypeOK, learnt, counted
    <2> QED BY <1>1, <2>1, <2>2 DEF BeginCycle, learnt, counted
  <1>2. CASE EndCycle
    <2>1. cycle' \in Fetch /\ cycle'.at = "idle"
      BY <1>2 DEF EndCycle, NoFetch, Fetch
    <2>2. TypeOK'
      BY <1>2, <2>1 DEF EndCycle, NewCounts, TypeOK, learnt, counted
    <2> QED BY <1>2, <2>1, <2>2 DEF EndCycle, NewCounts, learnt, counted
  <1> QED BY <1>1, <1>2

\* A skipped candidate changes nothing that is counted.
LEMMA PassOverKeeps == ASSUME IInv, PassOver PROVE IInv'
  <1>1. cycle.at = "choose" /\ (ToNextCandidate \/ ToNextPath)
    BY DEF PassOver
  <1>2. cycle' \in Fetch /\ cycle'.at = "choose"
    BY <1>1, MoveType DEF IInv, TypeOK
  <1>3. TypeOK'
    BY <1>2 DEF IInv, TypeOK, PassOver, learnt, counted
  <1> QED BY <1>1, <1>2, <1>3
          DEF IInv, PassOver, learnt, counted, CircuitConsistent, Learnt, TrialLearnt, FailureLearnt,
              IdleCounts, AskedInTime, Pending

\* A trial begins only where none is pending and none has ended without closing.
LEMMA AskKeeps == ASSUME IInv, Ask PROVE IInv'
  <1> DEFINE p == Candidate
             trial == health[p].state # "closed"
  <1>1. /\ cycle.at = "choose" /\ HasCandidate /\ p \notin unavailable
        /\ cycle' = [cycle EXCEPT !.at = "wait", !.trial = trial]
        /\ trials' = IF trial THEN [trials EXCEPT ![p] = Twice(@)] ELSE trials
    BY DEF Ask, Skipped
  <1>2. p \in Providers
    BY <1>1, CandidateType DEF HasCandidate, IInv, TypeOK
  <1>3. /\ cycle' \in Fetch /\ cycle'.at = "wait" /\ cycle'.trial = trial
        /\ cycle'.i = cycle.i /\ cycle'.c = cycle.c
    BY <1>1 DEF IInv, TypeOK, Fetch
  <1>4. Candidate' = p
    BY <1>3 DEF Candidate
  <1>5. trials[p] = 0
    BY <1>1, <1>2 DEF IInv, TypeOK, Learnt, TrialLearnt, Pending
  <1>6. /\ trials' \in [Providers -> 0..2]
        /\ \A q \in Providers : trials'[q] = IF q = p /\ trial THEN 1 ELSE trials[q]
    BY <1>1, <1>2, <1>5 DEF IInv, TypeOK, Twice
  <1> HIDE DEF p, trial
  <1>7. TypeOK'
    BY <1>1, <1>3, <1>6 DEF IInv, TypeOK, Ask, HasCandidate, learnt
  <1>8. \A q \in Providers : TrialLearnt(q)'
    <2> TAKE q \in Providers
    <2>1. /\ trials[q] <= 1 /\ (trials[q] = 1 => q \in unavailable)
          /\ health[q].state = "closed" => trials[q] = 0
      BY <1>1 DEF IInv, Learnt, TrialLearnt, Pending
    <2>2. UNCHANGED <<health, unavailable>>
      BY DEF Ask, learnt
    <2>3. CASE q = p /\ trial
      <3>1. trials'[q] = 1 /\ Pending(q)'
        BY <1>3, <1>4, <1>6, <2>3 DEF Pending
      <3>2. health'[q].state # "closed"
        BY <2>2, <2>3 DEF trial, p
      <3> QED BY <3>1, <3>2 DEF TrialLearnt
    <2>4. CASE ~(q = p /\ trial)
      BY <1>6, <2>1, <2>2, <2>4 DEF TrialLearnt
    <2> QED BY <2>3, <2>4
  <1>9. (\A q \in Providers : FailureLearnt(q)') /\ IdleCounts' /\ AskedInTime'
    BY <1>1, <1>3, <1>4 DEF IInv, Learnt, FailureLearnt, IdleCounts, AskedInTime, Ask, learnt
  <1> QED BY <1>7, <1>8, <1>9 DEF IInv, Learnt, CircuitConsistent, Ask

----------------------------------------------------------------------------
\* An answer either closes the circuit or leaves its trial to be reviewed.
LEMMA AnswerKeeps == ASSUME IInv, Answer PROVE IInv'
  <1>1. /\ cycle.at = "wait" /\ Candidate \in Providers /\ Candidate \notin unavailable
        /\ cycle \in Fetch
    BY CandidateType DEF Answer, IInv, TypeOK, Learnt, AskedInTime
  <1>2. /\ health' \in [Providers -> Circuit]
        /\ wait' \in [Providers -> 0..MaxCooldown]
        /\ recent' \subseteq Providers
        /\ trials' \in [Providers -> 0..2]
        /\ CircuitConsistent'
        /\ \A q \in Providers : trials'[q] \in {0, trials[q]}
        /\ \A q \in Providers : health'[q].state = "closed" => trials'[q] = 0
    <2>1. CASE Candidate \in checked
      BY <2>1 DEF Answer, IInv, TypeOK, CircuitConsistent, Learnt, TrialLearnt
    <2>2. CASE Candidate \notin checked
      BY <2>2, <1>1, RecordKeeps DEF Answer
    <2> QED BY <2>1, <2>2
  <1>3. /\ cycle' \in Fetch
        /\ \/ cycle.trial /\ cycle'.at = "review" /\ cycle'.trial
              /\ cycle'.i = cycle.i /\ cycle'.c = cycle.c
           \/ ~cycle.trial /\ cycle'.at = "choose"
    <2>1. CASE cycle.trial
      BY <1>1, <2>1 DEF Answer, Fetch
    <2>2. CASE ~cycle.trial
      BY <1>1, <2>2, MoveType DEF Answer
    <2> QED BY <2>1, <2>2
  <1>4. TypeOK'
    BY <1>1, <1>2, <1>3 DEF Answer, IInv, TypeOK
  <1>5. \A q \in Providers : TrialLearnt(q)'
    <2> TAKE q \in Providers
    <2>1. Pending(q) => Pending(q)'
      BY <1>3 DEF Pending, Candidate
    <2> QED BY <1>2, <2>1 DEF IInv, TypeOK, Learnt, TrialLearnt, Answer
  <1>6. (\A q \in Providers : FailureLearnt(q)') /\ IdleCounts' /\ AskedInTime'
    BY <1>3 DEF IInv, Learnt, FailureLearnt, IdleCounts, AskedInTime, Answer
  <1> QED BY <1>2, <1>4, <1>5, <1>6 DEF IInv, Learnt

\* A circuit that is still recovering is left alone for the rest of the cycle.
LEMMA ReviewKeeps == ASSUME IInv, Review PROVE IInv'
  <1>1. /\ cycle.at = "review" /\ Candidate \in Providers
        /\ cycle' \in Fetch /\ cycle'.at = "choose"
    BY CandidateType, MoveType DEF Review, IInv, TypeOK
  <1>2. /\ unavailable \subseteq unavailable' /\ unavailable' \subseteq Providers
        /\ health[Candidate].state = "closed" \/ Candidate \in unavailable'
    BY <1>1 DEF Review, IInv, TypeOK
  <1>3. TypeOK'
    BY <1>1, <1>2 DEF Review, IInv, TypeOK, counted
  <1>4. \A q \in Providers : TrialLearnt(q)'
    BY <1>1, <1>2 DEF Review, IInv, Learnt, TrialLearnt, Pending, counted
  <1>5. (\A q \in Providers : FailureLearnt(q)') /\ IdleCounts' /\ AskedInTime'
    BY <1>1, <1>2 DEF Review, IInv, Learnt, FailureLearnt, IdleCounts, AskedInTime, counted
  <1> QED BY <1>3, <1>4, <1>5 DEF IInv, Learnt, CircuitConsistent, Review

\* A failure is the provider's first in the cycle, and takes it out of it.
LEMMA FailKeeps == ASSUME IInv, Fail PROVE IInv'
  <1>1. /\ cycle.at = "wait" /\ Candidate \in Providers /\ Candidate \notin unavailable
        /\ cycle' \in Fetch /\ cycle'.at = "choose"
    BY CandidateType, MoveType DEF Fail, IInv, TypeOK, Learnt, AskedInTime
  <1>2. /\ health' \in [Providers -> Circuit]
        /\ wait' \in [Providers -> 0..MaxCooldown]
        /\ recent' \subseteq Providers
        /\ CircuitConsistent'
        /\ \A q \in Providers : health'[q].state = "closed" => trials[q] = 0
    <2>1. CASE Candidate \in checked
      BY <2>1 DEF Fail, IInv, TypeOK, CircuitConsistent, Learnt, TrialLearnt
    <2>2. CASE Candidate \notin checked
      BY <2>2, <1>1, RecordKeeps DEF Fail
    <2> QED BY <2>1, <2>2
  <1>3. failures[Candidate] = 0
    BY <1>1 DEF IInv, TypeOK, Learnt, FailureLearnt
  <1>4. /\ failures' \in [Providers -> 0..2]
        /\ \A q \in Providers : failures'[q] = IF q = Candidate THEN 1 ELSE failures[q]
    BY <1>1, <1>3 DEF Fail, IInv, TypeOK, Twice
  <1>5. TypeOK'
    BY <1>1, <1>2, <1>4 DEF Fail, IInv, TypeOK
  <1>6. \A q \in Providers : TrialLearnt(q)'
    BY <1>1, <1>2 DEF Fail, IInv, Learnt, TrialLearnt, Pending
  <1>7. (\A q \in Providers : FailureLearnt(q)') /\ IdleCounts' /\ AskedInTime'
    BY <1>1, <1>4 DEF Fail, IInv, Learnt, FailureLearnt, IdleCounts, AskedInTime
  <1> QED BY <1>2, <1>5, <1>6, <1>7 DEF IInv, Learnt

----------------------------------------------------------------------------
\* A probe moves circuits, and no count but that of one it closes.
LEMMA ProbeKeeps ==
    ASSUME IInv, NEW t \in Probers, ProbeEnds(t) \/ \E p \in Providers : Probe(t, p)
    PROVE  IInv'
  <1>1. CASE \E p \in Providers : Probe(t, p)
    <2>1. probe' \in [Probers -> Providers \cup {NoProvider}]
      BY <1>1 DEF Probe, IInv, TypeOK
    <2>2. UNCHANGED <<health, wait, recent, stable, cycle, unavailable, checked, trials, failures,
                      restarts>>
      BY <1>1 DEF Probe, learnt, counted
    <2> QED BY <2>1, <2>2 DEF IInv, TypeOK, CircuitConsistent, Learnt, TrialLearnt, FailureLearnt,
               IdleCounts, AskedInTime, Pending, Candidate
  <1>2. CASE ProbeEnds(t)
    <2>1. probe[t] \in Providers
      BY <1>2 DEF ProbeEnds, IInv, TypeOK
    <2>2. /\ RecordSuccess(probe[t]) \/ (RecordFailure(probe[t]) /\ UNCHANGED trials)
          /\ probe' = [probe EXCEPT ![t] = NoProvider]
          /\ UNCHANGED <<stable, cycle, unavailable, checked, failures, restarts>>
      BY <1>2 DEF ProbeEnds, learnt
    <2>3. /\ health' \in [Providers -> Circuit]
          /\ wait' \in [Providers -> 0..MaxCooldown]
          /\ recent' \subseteq Providers
          /\ trials' \in [Providers -> 0..2]
          /\ CircuitConsistent'
          /\ \A q \in Providers : trials'[q] \in {0, trials[q]}
          /\ \A q \in Providers : health'[q].state = "closed" => trials'[q] = 0
      BY <2>1, <2>2, RecordKeeps
    <2>4. TypeOK'
      BY <2>2, <2>3 DEF IInv, TypeOK
    <2>5. Learnt'
      BY <2>2, <2>3 DEF IInv, TypeOK, Learnt, TrialLearnt, FailureLearnt, IdleCounts, AskedInTime,
                        Pending, Candidate
    <2> QED BY <2>3, <2>4, <2>5 DEF IInv
  <1> QED BY <1>1, <1>2

\* Time and the endpoints move no circuit.
LEMMA WorldKeeps ==
    ASSUME IInv, Tick \/ \E p \in Providers : Quiet(p) \/ Stabilise(p)
    PROVE  IInv'
  <1>1. /\ wait' \in [Providers -> 0..MaxCooldown]
        /\ recent' \subseteq Providers /\ stable' \subseteq Providers
        /\ UNCHANGED <<health, cycle, unavailable, checked, probe, trials, failures, restarts>>
    <2>1. CASE Tick
      BY <2>1, PolicyAssumption DEF Tick, IInv, TypeOK, learnt, counted
    <2>2. CASE \E p \in Providers : Quiet(p) \/ Stabilise(p)
      BY <2>2 DEF Quiet, Stabilise, IInv, TypeOK, learnt, counted
    <2> QED BY <2>1, <2>2
  <1> QED BY <1>1 DEF IInv, TypeOK, CircuitConsistent, Learnt, TrialLearnt, FailureLearnt,
             IdleCounts, AskedInTime, Pending, Candidate

\* A restart forgets the cycle and keeps the circuits.
LEMMA RestartKeeps == ASSUME IInv, Restart PROVE IInv'
  <1>1. cycle' = NoFetch /\ NoFetch \in Fetch /\ NoFetch.at = "idle"
    BY DEF Restart, NoFetch, Fetch
  <1>2. TypeOK'
    BY <1>1, PolicyAssumption DEF Restart, NewCounts, IInv, TypeOK
  <1>3. Learnt'
    BY <1>1 DEF Restart, NewCounts, Learnt, TrialLearnt, FailureLearnt, IdleCounts, AskedInTime
  <1> QED BY <1>2, <1>3 DEF IInv, Restart, CircuitConsistent

\* Every step keeps the invariant.
LEMMA NextKeeps == IInv /\ [Next]_vars => IInv'
  <1> SUFFICES ASSUME IInv, [Next]_vars PROVE IInv'
    OBVIOUS
  <1>1. CASE CycleStep
    BY <1>1, CycleKeeps, PassOverKeeps, AskKeeps, AnswerKeeps, ReviewKeeps, FailKeeps DEF CycleStep
  <1>2. CASE \E t \in Probers : ProbeEnds(t) \/ \E p \in Providers : Probe(t, p)
    BY <1>2, ProbeKeeps
  <1>3. CASE Tick \/ \E p \in Providers : Quiet(p) \/ Stabilise(p)
    BY <1>3, WorldKeeps
  <1>4. CASE Restart
    BY <1>4, RestartKeeps
  <1>5. CASE UNCHANGED vars
    BY <1>5 DEF vars, learnt, counted, IInv, TypeOK, CircuitConsistent, Learnt, TrialLearnt,
       FailureLearnt, IdleCounts, AskedInTime, Pending, Candidate
  <1> QED BY <1>1, <1>2, <1>3, <1>4, <1>5 DEF Next

----------------------------------------------------------------------------
\* Circuits, cycles and probes keep their types.
THEOREM ChainType == Spec => []TypeOK
  <1>1. IInv => TypeOK
    BY DEF IInv
  <1> QED BY InitHolds, NextKeeps, <1>1, PTL DEF Spec

\* The columns of every circuit agree with its state.
THEOREM CircuitsAgree == Spec => []CircuitConsistent
  <1>1. IInv => CircuitConsistent
    BY DEF IInv
  <1> QED BY InitHolds, NextKeeps, <1>1, PTL DEF Spec

\* A cycle sends one request to a circuit that recovers.
THEOREM OneTrial == Spec => []OneTrialPerCycle
  <1>1. IInv => OneTrialPerCycle
    BY DEF IInv, Learnt, TrialLearnt, OneTrialPerCycle
  <1> QED BY InitHolds, NextKeeps, <1>1, PTL DEF Spec

\* A cycle sees one failure of a provider.
THEOREM OneFailure == Spec => []OneFailurePerCycle
  <1>1. IInv => OneFailurePerCycle
    BY DEF IInv, Learnt, FailureLearnt, OneFailurePerCycle
  <1> QED BY InitHolds, NextKeeps, <1>1, PTL DEF Spec
=============================================================================
