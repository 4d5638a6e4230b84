---------------------------- MODULE ProviderChain ----------------------------
(***************************************************************************)
(* The circuit breaker of the quote providers (providers/health.py) and the *)
(* chain that asks them during a refresh cycle (providers/intraday_chain.py), *)
(* beside the administrator's health probes.                               *)
(*                                                                         *)
(* A circuit is a row of provider_health_records and survives a restart;   *)
(* what a cycle has learnt lives in the chain.  Each record_success and    *)
(* record_failure is one step, under BACKGROUND_WRITE_LOCK; the request of *)
(* which it is the outcome started in an earlier step, with what decision  *)
(* had read then.                                                         *)
(***************************************************************************)
EXTENDS Naturals, Sequences

CONSTANTS Providers,
          NoProvider,
          Chains,            \* the paths of a cycle: per path, its candidates by priority
          Probers,           \* concurrent probe requests
          FailureThreshold,  \* failure_threshold
          SuccessThreshold,  \* half_open_success_threshold
          BaseCooldown,      \* base_cooldown_seconds, in ticks
          MaxCooldown,       \* max_cooldown_seconds, in ticks
          MaxRestarts        \* bound on worker deaths

ASSUME PolicyAssumption ==
    /\ NoProvider \notin Providers
    /\ Chains \in Seq(Seq(Providers))
    /\ FailureThreshold \in Nat \ {0} /\ SuccessThreshold \in Nat \ {0}
    /\ BaseCooldown \in Nat \ {0} /\ MaxCooldown \in Nat /\ BaseCooldown <= MaxCooldown
    /\ MaxRestarts \in Nat

VARIABLES health,       \* provider_health_records
          wait,         \* ticks until next_probe_at
          recent,       \* last result younger than manual_probe_min_interval_seconds
          stable,       \* providers that answer every request from now on
          cycle,        \* the fetch that runs
          unavailable,  \* _cycle_unavailable
          checked,      \* _cycle_checked
          probe,        \* the provider each probe request waits for
          trials,       \* requests of this cycle to a circuit not closed since
          failures,     \* failed requests of this cycle
          restarts

learnt  == <<unavailable, checked>>
counted == <<trials, failures>>
vars == <<health, wait, recent, stable, cycle, learnt, probe, counted, restarts>>

\* failures counts up to the threshold, beyond which it makes no difference.
Circuit == [state: {"closed", "open", "half_open"}, failures: 0..FailureThreshold,
            recovered: 0..(SuccessThreshold - 1), cooldown: 1..MaxCooldown,
            opened: BOOLEAN]

Healthy == [state |-> "closed", failures |-> 0, recovered |-> 0,
            cooldown |-> BaseCooldown, opened |-> FALSE]

\* Path i with candidate c; trial: decision answered "half_open".
Fetch == [at: {"idle", "choose", "wait", "review"}, i: Nat \ {0}, c: Nat \ {0}, trial: BOOLEAN]

NoFetch == [at |-> "idle", i |-> 1, c |-> 1, trial |-> FALSE]

TypeOK == /\ health \in [Providers -> Circuit]
          /\ wait \in [Providers -> 0..MaxCooldown]
          /\ recent \subseteq Providers /\ stable \subseteq Providers
          /\ cycle \in Fetch
          /\ cycle.at \in {"wait", "review"} =>
                cycle.i \in DOMAIN Chains /\ cycle.c \in DOMAIN Chains[cycle.i]
          /\ unavailable \subseteq Providers /\ checked \subseteq Providers
          /\ probe \in [Probers -> Providers \cup {NoProvider}]
          /\ trials \in [Providers -> 0..2] /\ failures \in [Providers -> 0..2]
          /\ restarts \in 0..MaxRestarts

Init == /\ health = [p \in Providers |-> Healthy]
        /\ wait = [p \in Providers |-> 0]
        /\ recent = {} /\ stable = {}
        /\ cycle = NoFetch /\ unavailable = {} /\ checked = {}
        /\ probe = [t \in Probers |-> NoProvider]
        /\ trials = [p \in Providers |-> 0] /\ failures = [p \in Providers |-> 0]
        /\ restarts = 0

----------------------------------------------------------------------------
(* The circuit                                                              *)

\* Mutant: an open circuit stays shut, whenever it opened.
Blocked_Always(p) == health[p].state = "open"

\* decision(p) does not allow a request.
Blocked(p) == health[p].state = "open" /\ wait[p] > 0

\* Mutant: one success closes the circuit and leaves its counters alone.
Succeeded_AtOnce(circuit) == [circuit EXCEPT !.state = "closed"]

\* record_success
Succeeded(circuit) ==
    LET recovered == circuit.recovered + 1
    IN  IF circuit.state = "closed" THEN [circuit EXCEPT !.failures = 0, !.recovered = 0]
        ELSE IF recovered >= SuccessThreshold THEN Healthy
        ELSE [circuit EXCEPT !.state = "half_open", !.recovered = recovered]

Opens(circuit) == circuit.state = "half_open" \/ circuit.failures + 1 >= FailureThreshold

\* record_failure
Failed(circuit) ==
    LET doubled == IF circuit.opened THEN 2 * circuit.cooldown ELSE circuit.cooldown
        struck == [circuit EXCEPT !.recovered = 0,
                                  !.failures  = IF @ = FailureThreshold THEN @ ELSE @ + 1]
    IN  IF Opens(circuit)
        THEN [struck EXCEPT !.state = "open", !.opened = TRUE,
                            !.cooldown = IF doubled > MaxCooldown THEN MaxCooldown ELSE doubled]
        ELSE struck

RecordSuccess(p) == /\ health' = [health EXCEPT ![p] = Succeeded(@)]
                    /\ wait' = [wait EXCEPT ![p] = IF health'[p].opened THEN @ ELSE 0]
                    /\ trials' = [trials EXCEPT ![p] = IF health'[p].state = "closed" THEN 0 ELSE @]
                    /\ recent' = recent \cup {p}

RecordFailure(p) == /\ health' = [health EXCEPT ![p] = Failed(@)]
                    /\ wait' = [wait EXCEPT ![p] = IF Opens(health[p]) THEN health'[p].cooldown ELSE @]
                    /\ recent' = recent \cup {p}

\* What a request to p may come to.
Outcomes(p) == IF p \in stable THEN {TRUE} ELSE BOOLEAN

----------------------------------------------------------------------------
(* A refresh cycle                                                          *)
Candidate == Chains[cycle.i][cycle.c]

HasCandidate == cycle.i \in DOMAIN Chains /\ cycle.c \in DOMAIN Chains[cycle.i]

ToNextCandidate == cycle' = [cycle EXCEPT !.at = "choose", !.c = @ + 1, !.trial = FALSE]

ToNextPath == cycle' = [at |-> "choose", i |-> cycle.i + 1, c |-> 1, trial |-> FALSE]

\* begin_cycle
BeginCycle ==
    /\ cycle.at = "idle"
    /\ cycle' = [cycle EXCEPT !.at = "choose"]
    /\ unavailable' = {} /\ checked' = {}
    /\ UNCHANGED <<health, wait, recent, stable, probe, counted, restarts>>

\* The counts of a cycle end with it.
NewCounts == /\ trials' = [p \in Providers |-> 0] /\ failures' = [p \in Providers |-> 0]

EndCycle ==
    /\ cycle.at = "choose" /\ cycle.i \notin DOMAIN Chains
    /\ cycle' = NoFetch /\ NewCounts
    /\ UNCHANGED <<health, wait, recent, stable, learnt, probe, restarts>>

\* Mutant: what the cycle has learnt is not asked.
Skipped_CircuitOnly(p) == Blocked(p)

Skipped(p) == p \in unavailable \/ Blocked(p)

\* The next candidate is passed over, or there is none left (no_valid_fallback,
\* all_providers_unavailable) and the path fails.
PassOver ==
    /\ cycle.at = "choose" /\ cycle.i \in DOMAIN Chains
    /\ HasCandidate => Skipped(Candidate)
    /\ IF HasCandidate THEN ToNextCandidate ELSE ToNextPath
    /\ UNCHANGED <<health, wait, recent, stable, learnt, probe, counted, restarts>>

Twice(n) == IF n = 2 THEN 2 ELSE n + 1

\* fetch_intraday_snapshot sends a request to a candidate.
Ask ==
    /\ cycle.at = "choose" /\ HasCandidate /\ ~Skipped(Candidate)
    /\ LET trial == health[Candidate].state # "closed"
       IN  /\ cycle' = [cycle EXCEPT !.at = "wait", !.trial = trial]
           /\ trials' = IF trial THEN [trials EXCEPT ![Candidate] = Twice(@)] ELSE trials
    /\ UNCHANGED <<health, wait, recent, stable, learnt, probe, failures, restarts>>

\* A complete answer: only the first of a provider in a cycle is recorded.
Answer ==
    /\ cycle.at = "wait"
    /\ IF Candidate \in checked THEN UNCHANGED <<health, wait, recent, trials>>
                                ELSE RecordSuccess(Candidate)
    /\ checked' = checked \cup {Candidate}
    /\ IF cycle.trial THEN cycle' = [cycle EXCEPT !.at = "review"] ELSE ToNextPath
    /\ UNCHANGED <<stable, unavailable, probe, failures, restarts>>

\* Mutant: a circuit that has answered its trial is used on.
Review_Trusting ==
    /\ cycle.at = "review" /\ ToNextPath
    /\ UNCHANGED <<health, wait, recent, stable, learnt, probe, counted, restarts>>

\* After a trial the circuit is read again: until it is closed, the provider is
\* left alone for the rest of the cycle ("provider_recovery_pending").
Review ==
    /\ cycle.at = "review"
    /\ unavailable' = IF health[Candidate].state = "closed" THEN unavailable
                      ELSE unavailable \cup {Candidate}
    /\ ToNextPath
    /\ UNCHANGED <<health, wait, recent, stable, checked, probe, counted, restarts>>

\* A failure, or an answer without its four closes.
Fail ==
    /\ cycle.at = "wait" /\ FALSE \in Outcomes(Candidate)
    /\ IF Candidate \in checked THEN UNCHANGED <<health, wait, recent>>
                                ELSE RecordFailure(Candidate)
    /\ unavailable' = unavailable \cup {Candidate}
    /\ checked' = checked \cup {Candidate}
    /\ failures' = [failures EXCEPT ![Candidate] = Twice(@)]
    /\ ToNextCandidate
    /\ UNCHANGED <<stable, probe, trials, restarts>>

----------------------------------------------------------------------------
(* Probes of the administrator (probe_provider)                             *)
Probe(t, p) ==
    /\ probe[t] = NoProvider
    /\ ~Blocked(p) /\ p \notin recent
    /\ probe' = [probe EXCEPT ![t] = p]
    /\ UNCHANGED <<health, wait, recent, stable, cycle, learnt, counted, restarts>>

ProbeEnds(t) ==
    /\ probe[t] # NoProvider
    /\ \E ok \in Outcomes(probe[t]) :
         IF ok THEN RecordSuccess(probe[t])
               ELSE RecordFailure(probe[t]) /\ UNCHANGED trials
    /\ probe' = [probe EXCEPT ![t] = NoProvider]
    /\ UNCHANGED <<stable, cycle, learnt, failures, restarts>>

----------------------------------------------------------------------------
(* Time, the endpoints and the worker                                       *)
Tick ==
    /\ \E p \in Providers : wait[p] > 0
    /\ wait' = [p \in Providers |-> IF wait[p] = 0 THEN 0 ELSE wait[p] - 1]
    /\ UNCHANGED <<health, recent, stable, cycle, learnt, probe, counted, restarts>>

Quiet(p) ==
    /\ p \in recent /\ recent' = recent \ {p}
    /\ UNCHANGED <<health, wait, stable, cycle, learnt, probe, counted, restarts>>

\* The endpoint of p works again for good.
Stabilise(p) ==
    /\ p \notin stable /\ stable' = stable \cup {p}
    /\ UNCHANGED <<health, wait, recent, cycle, learnt, probe, counted, restarts>>

Restart ==
    /\ restarts < MaxRestarts /\ restarts' = restarts + 1
    /\ cycle' = NoFetch /\ unavailable' = {} /\ checked' = {} /\ NewCounts
    /\ probe' = [t \in Probers |-> NoProvider]
    /\ UNCHANGED <<health, wait, recent, stable>>

CycleStep == BeginCycle \/ EndCycle \/ PassOver \/ Ask \/ Answer \/ Review \/ Fail

Next == \/ CycleStep
        \/ \E t \in Probers : ProbeEnds(t) \/ \E p \in Providers : Probe(t, p)
        \/ Tick
        \/ \E p \in Providers : Quiet(p) \/ Stabilise(p)
        \/ Restart

Spec == Init /\ [][Next]_vars

\* Cycles follow each other, and time passes.
FairSpec == Spec /\ WF_vars(CycleStep) /\ WF_vars(Tick)

----------------------------------------------------------------------------
(* Properties                                                               *)

Consistent(circuit) ==
    /\ circuit.state = "closed" => /\ circuit.failures < FailureThreshold
                                   /\ circuit.recovered = 0 /\ ~circuit.opened
                                   /\ circuit.cooldown = BaseCooldown
    /\ circuit.state = "open" => circuit.opened /\ circuit.recovered = 0
    /\ circuit.state = "half_open" => circuit.opened /\ circuit.recovered > 0

\* The columns of a circuit agree with its state, whatever order the outcomes
\* of a cycle and of probes are recorded in: closed with its counters and its
\* cooldown reset, half open between one success and enough of them.
CircuitConsistent == \A p \in Providers : Consistent(health[p])

\* While a circuit recovers, a cycle sends it one request and not one per path,
\* even when a probe moves the circuit in the middle of the cycle; only a
\* circuit that has been closed in between may be tried once more.
OneTrialPerCycle == \A p \in Providers : trials[p] <= 1

\* A provider that is down costs a cycle one failed request ("one endpoint-family
\* failure suppresses fan-out for the rest of this cycle").
OneFailurePerCycle == \A p \in Providers : failures[p] <= 1

\* A provider that is some path's first choice and works again gets its circuit
\* closed: cooldowns end and trials are made, although the fallback serves.
PrimaryRecovers ==
    \A p \in {Chains[i][1] : i \in {j \in DOMAIN Chains : Chains[j] # <<>>}} :
        p \in stable ~> health[p].state = "closed"
=============================================================================
