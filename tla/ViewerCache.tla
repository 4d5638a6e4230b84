----------------------------- MODULE ViewerCache -----------------------------
(***************************************************************************)
(* The response cache in front of the anonymous Viewer pages                *)
(* (web/viewer_cache.py), with the requests that run through it.  The       *)
(* middleware is a coroutine on the event loop, so what it does between two *)
(* awaits is one step; the application behind it runs in the threadpool.    *)
(*                                                                         *)
(* What a page shows is abstracted to the version of the database its       *)
(* first SELECT saw.  A mutation may commit several times before it         *)
(* answers, may answer with an error after a commit, and has company that   *)
(* the middleware never sees: the market automation threads of the worker   *)
(* and the capture scripts of the host write the same database.             *)
(***************************************************************************)
EXTENDS Naturals, FiniteSets

CONSTANTS Keys,           \* path and query of the cached pages
          NoKey,
          Ttl,            \* their lifetime, in clock ticks
          Tasks,          \* concurrent requests
          MaxVersion,     \* bound on commits
          MaxGeneration   \* bound on mutations

ASSUME TtlAssumption == Ttl \in [Keys -> Nat \ {0}]
ASSUME BoundAssumption == MaxVersion \in Nat /\ MaxGeneration \in Nat

VARIABLES version,      \* commits so far
          acked,        \* newest commit whose mutation was answered with success
          cache,        \* _items: per key, the item and the ticks it has left
          generation,   \* _generation
          task          \* the requests

vars == <<version, acked, cache, generation, task>>

\* left = 0: expired, or no item.
Item == [low: Nat, left: Nat]
NoItem == [low |-> 0, left |-> 0]

\* A read has looked up its key ("read"), built its page ("send") or has it
\* from the cache ("hit"); need is what was acknowledged when it started.  A
\* mutation runs ("run") until its response passes the middleware ("ack"),
\* which has cleared the cache by then; low is its last commit.
Task == [at: {"idle", "read", "send", "put", "hit", "run", "ack"},
         key: Keys \cup {NoKey}, gen: Nat, low: Nat, need: Nat]
Idle == [at |-> "idle", key |-> NoKey, gen |-> 0, low |-> 0, need |-> 0]

TypeOK == /\ version \in Nat /\ acked \in Nat /\ generation \in Nat
          /\ cache \in [Keys -> Item]
          /\ \A k \in Keys : cache[k].left <= Ttl[k]
          /\ task \in [Tasks -> Task]

Init == /\ version = 0 /\ acked = 0 /\ generation = 0
        /\ cache = [k \in Keys |-> NoItem]
        /\ task = [t \in Tasks |-> Idle]

At(t, step) == task[t].at = step

Goto(t, step) ==
    task' = [task EXCEPT ![t] = IF step = "idle" THEN Idle ELSE [@ EXCEPT !.at = step]]

----------------------------------------------------------------------------
(* Anonymous GET of a cached page                                           *)

\* Mutant: an item that is used lives on.
Lookup_Renew(t, k) ==
    /\ At(t, "idle")
    /\ IF cache[k].left > 0
       THEN /\ task' = [task EXCEPT ![t] = [at |-> "hit", key |-> k, gen |-> generation,
                                            low |-> cache[k].low, need |-> acked]]
            /\ cache' = [cache EXCEPT ![k].left = Ttl[k]]
       ELSE /\ task' = [task EXCEPT ![t] = [at |-> "read", key |-> k, gen |-> generation,
                                            low |-> 0, need |-> acked]]
            /\ UNCHANGED cache
    /\ UNCHANGED <<version, acked, generation>>

\* get and, after a miss, generation: no await in between.
Lookup(t, k) ==
    /\ At(t, "idle")
    /\ task' = [task EXCEPT ![t] =
                  IF cache[k].left > 0
                  THEN [at |-> "hit", key |-> k, gen |-> generation,
                        low |-> cache[k].low, need |-> acked]
                  ELSE [at |-> "read", key |-> k, gen |-> generation,
                        low |-> 0, need |-> acked]]
    /\ UNCHANGED <<version, acked, cache, generation>>

\* The application's session reads.
Read(t) ==
    /\ At(t, "read")
    /\ task' = [task EXCEPT ![t].at = "send", ![t].low = version]
    /\ UNCHANGED <<version, acked, cache, generation>>

\* The response is sent; only a complete one with status 200 is kept.
Send(t) ==
    /\ At(t, "hit") \/ At(t, "send")
    /\ \E complete \in BOOLEAN : Goto(t, IF At(t, "send") /\ complete THEN "put" ELSE "idle")
    /\ UNCHANGED <<version, acked, cache, generation>>

\* Mutants: the generation is not compared; every page gets the longest life.
Put_Always(t) ==
    /\ At(t, "put")
    /\ cache' = [cache EXCEPT ![task[t].key] = [low |-> task[t].low, left |-> Ttl[task[t].key]]]
    /\ Goto(t, "idle")
    /\ UNCHANGED <<version, acked, generation>>
Put_Longest(t) ==
    /\ At(t, "put")
    /\ cache' = IF task[t].gen = generation
                THEN [cache EXCEPT ![task[t].key] =
                        [low |-> task[t].low,
                         left |-> CHOOSE l \in {Ttl[k] : k \in Keys} : \A k \in Keys : Ttl[k] <= l]]
                ELSE cache
    /\ Goto(t, "idle")
    /\ UNCHANGED <<version, acked, generation>>

\* put: dropped when a mutation has cleared the cache since the lookup.
Put(t) ==
    /\ At(t, "put")
    /\ cache' = IF task[t].gen = generation
                THEN [cache EXCEPT ![task[t].key] =
                        [low |-> task[t].low, left |-> Ttl[task[t].key]]]
                ELSE cache
    /\ Goto(t, "idle")
    /\ UNCHANGED <<version, acked, generation>>

\* Time passes for every item; an expired one is popped by the next get.
Tick ==
    /\ \E k \in Keys : cache[k].left > 0
    /\ cache' = [k \in Keys |-> IF cache[k].left > 1
                                THEN [cache[k] EXCEPT !.left = @ - 1] ELSE NoItem]
    /\ UNCHANGED <<version, acked, generation, task>>

----------------------------------------------------------------------------
(* Mutations and other writers                                              *)
Writers == {t \in Tasks : At(t, "run")}

Mutate(t) ==
    /\ At(t, "idle") /\ generation + Cardinality(Writers) < MaxGeneration
    /\ Goto(t, "run")
    /\ UNCHANGED <<version, acked, cache, generation>>

Commit(t) ==
    /\ At(t, "run") /\ version < MaxVersion
    /\ version' = version + 1
    /\ task' = [task EXCEPT ![t].low = version + 1]
    /\ UNCHANGED <<acked, cache, generation>>

\* An error answer leaves the cache alone, whatever was committed before it.
Fail(t) ==
    /\ At(t, "run") /\ Goto(t, "idle")
    /\ UNCHANGED <<version, acked, cache, generation>>

\* Mutant: the items go, the generation stays.
Clear_ItemsOnly(t) ==
    /\ At(t, "run")
    /\ cache' = [k \in Keys |-> NoItem]
    /\ Goto(t, "ack")
    /\ UNCHANGED <<version, acked, generation>>

\* clear, when the last part of a successful response passes.
Clear(t) ==
    /\ At(t, "run")
    /\ cache' = [k \in Keys |-> NoItem]
    /\ generation' = generation + 1
    /\ Goto(t, "ack")
    /\ UNCHANGED <<version, acked>>

\* The client has its answer.
Ack(t) ==
    /\ At(t, "ack")
    /\ acked' = IF task[t].low > acked THEN task[t].low ELSE acked
    /\ Goto(t, "idle")
    /\ UNCHANGED <<version, cache, generation>>

\* A commit of a background thread or of a host script.
External ==
    /\ version < MaxVersion
    /\ version' = version + 1
    /\ UNCHANGED <<acked, cache, generation, task>>

Step(t) == Read(t) \/ Send(t) \/ Put(t) \/ Fail(t) \/ Clear(t) \/ Ack(t)

Next == \/ \E t \in Tasks : Step(t) \/ Mutate(t) \/ Commit(t) \/ \E k \in Keys : Lookup(t, k)
        \/ Tick
        \/ External

Spec == Init /\ [][Next]_vars

\* Time passes, and a request that runs comes to its end.
FairSpec == Spec /\ WF_vars(Tick) /\ \A t \in Tasks : WF_vars(Step(t))

----------------------------------------------------------------------------
(* Properties                                                               *)

\* A page requested after a mutation was answered with success shows that
\* mutation, whether it comes from the cache or not ("every successful
\* mutation invalidates them").
AckedIsVisible ==
    \A t \in Tasks : At(t, "hit") \/ At(t, "send") \/ At(t, "put") => task[t].low >= task[t].need

\* What is served from the cache is never older than the newest acknowledged
\* mutation, although lookups, pages and mutations overlap in any order.
CacheNotStale == \A k \in Keys : cache[k].left > 0 => cache[k].low >= acked

\* Once the database stops changing, no page stays outdated, although nothing
\* tells the cache of external commits (the TTLs are "safety bounds for
\* non-HTTP database writers").
OutdatedExpires ==
    \A k \in Keys : <>[](cache[k].left > 0 => cache[k].low = version)
=============================================================================
