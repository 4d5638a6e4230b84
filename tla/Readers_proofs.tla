---------------------------- MODULE Readers_proofs ----------------------------
(***************************************************************************)
(* Proofs about the ways by which readers come to their data.               *)
(*                                                                         *)
(* ViewerCache, for every set of pages and lifetimes and any number of      *)
(* concurrent requests:                                                     *)
(*   CacheType     Spec => []TypeOK                                         *)
(*   NothingStale  Spec => []CacheNotStale                                  *)
(*   ReadYourAck   Spec => []AckedIsVisible                                 *)
(* CacheNotStale is not inductive: an item can be outdated by a mutation    *)
(* that has cleared the cache and is about to be acknowledged, or be put by *)
(* a request that read before a mutation.  The invariant says why neither   *)
(* happens: both are told apart by the generation.                          *)
(*                                                                         *)
(* PathHistory, for any finite set of reports, with any matrices, dates and *)
(* bindings, withdrawn, parsed again and refused in any order:              *)
(*   CanonicalLedger         LedgerSpec => []LedgerIsCanonical              *)
(*   ExactDayHolds           LedgerSpec => ExactDay                         *)
(*   SourceKeepsStatusHolds  LedgerSpec => SourceKeepsStatus                *)
(* The sync is a loop over the authorities.  What it has after each place   *)
(* is stated without the loop (AdoptedIs, CorrectedIs) and shown for the    *)
(* last place: a place where it failed first would follow one where it      *)
(* holds.                                                                   *)
(*                                                                         *)
(* QuoteCache, for any feeds, symbols, lifetimes and visits:                *)
(*   QuotesAdvanceHolds  QuotesSpec => []QuotesAdvance                      *)
(*   HonestQuotesHold    QuotesSpec => []HonestQuotes                       *)
(* Both stand on the lock of a feed: who asks holds it, so that no batch    *)
(* is stored over a newer one.                                              *)
(*                                                                         *)
(* ReportParsing, for any papers and whatever the extractions show:         *)
(*   UnattendedKnows     ParsingSpec => []UnattendedIsCertain               *)
(*                                                                         *)
(* ReadersApart: a behaviour of all the readers is one of each.             *)
(***************************************************************************)
EXTENDS Readers, FiniteSetTheorems, WellFoundedInduction, TLAPS

----------------------------------------------------------------------------
(* The cached pages                                                         *)

\* Nothing is acknowledged, or read, or counted before it happens.
Bounded == /\ acked <= version
           /\ \A k \in Keys : cache[k].low <= version
           /\ \A t \in Tasks : /\ task[t].low <= version
                               /\ task[t].need <= acked
                               /\ task[t].gen <= generation

\* A page that may still be stored, or is stored.
Recent(t) == At(t, "send") \/ At(t, "put")

\* low is not older than anything acknowledged or cleared for.
Fresh(low) == /\ low >= acked
              /\ \A w \in Tasks : At(w, "ack") => low >= task[w].low

\* Items are fresh, and so are the pages of requests that no mutation has
\* overtaken.
ItemsFresh == \A k \in Keys : cache[k].left > 0 => Fresh(cache[k].low)
PagesFresh == \A t \in Tasks : Recent(t) /\ task[t].gen = generation => Fresh(task[t].low)

CacheInv == TypeOK /\ Bounded /\ ItemsFresh /\ PagesFresh /\ AckedIsVisible

----------------------------------------------------------------------------
\* The empty cache and idle requests satisfy the invariant.
LEMMA InitHolds == Init => CacheInv
  BY TtlAssumption
     DEF Init, CacheInv, TypeOK, Bounded, ItemsFresh, PagesFresh, Fresh, Recent, AckedIsVisible,
         At, NoItem, Item, Idle, Task

\* A state of a request that agrees with the invariant.
Sound(new) == /\ new \in Task
              /\ new.low <= version /\ new.need <= acked /\ new.gen <= generation
              /\ new.at # "ack"
              /\ new.at \in {"hit", "send", "put"} => new.low >= new.need
              /\ new.at \in {"send", "put"} /\ new.gen = generation => Fresh(new.low)

\* A request that only changes its own state.
LEMMA MoveKeeps ==
    ASSUME CacheInv, NEW t \in Tasks, NEW new, Sound(new),
           task' = [task EXCEPT ![t] = new],
           UNCHANGED <<version, acked, cache, generation>>
    PROVE  CacheInv'
  <1> USE DEF Sound
  <1>1. \A u \in Tasks : task'[u] = IF u = t THEN new ELSE task[u]
    BY DEF CacheInv, TypeOK
  <1>2. TypeOK'
    BY DEF CacheInv, TypeOK
  <1>3. Bounded'
    BY <1>1 DEF CacheInv, Bounded
  <1>4. \A low \in Nat : Fresh(low) => Fresh(low)'
    BY <1>1 DEF Fresh, At
  <1>5. ItemsFresh'
    <2>1. \A k \in Keys : cache[k].low \in Nat
      BY DEF CacheInv, TypeOK, Item
    <2> QED BY <1>4, <2>1 DEF CacheInv, ItemsFresh, Fresh
  <1>6. PagesFresh'
    <2> SUFFICES ASSUME NEW u \in Tasks, Recent(u)', task'[u].gen = generation
                 PROVE  Fresh(task[u].low)'
      BY DEF PagesFresh
    <2>1. task'[u].low \in Nat
      BY <1>2 DEF TypeOK, Task
    <2>2. Fresh(task'[u].low)
      BY <1>1 DEF CacheInv, PagesFresh, Recent, At
    <2>3. \A w \in Tasks : task'[w].at = "ack" => task'[w] = task[w]
      BY <1>1
    <2> QED BY <2>2, <2>3 DEF Fresh, At
  <1>7. AckedIsVisible'
    BY <1>1 DEF CacheInv, AckedIsVisible, At
  <1> QED BY <1>2, <1>3, <1>5, <1>6, <1>7 DEF CacheInv

\* The steps of a reader that leave the cache alone, and a failed mutation.
LEMMA ReaderKeeps ==
    ASSUME CacheInv, NEW t \in Tasks,
           \/ \E k \in Keys : Lookup(t, k)
           \/ Read(t) \/ Send(t) \/ Mutate(t) \/ Fail(t)
    PROVE  CacheInv'
  <1>1. /\ task[t] \in Task /\ task[t].low <= version /\ task[t].need <= acked
        /\ task[t].gen <= generation /\ acked <= version
        /\ version \in Nat /\ acked \in Nat /\ generation \in Nat
    BY DEF CacheInv, TypeOK, Bounded
  <1>2. Idle \in Task /\ Idle.at = "idle" /\ Idle.low = 0 /\ Idle.need = 0 /\ Idle.gen = 0
    BY DEF Idle, Task
  <1>3. ASSUME NEW k \in Keys, Lookup(t, k) PROVE CacheInv'
    <2>1. cache[k] \in Item
      BY DEF CacheInv, TypeOK
    <2>2. CASE cache[k].left > 0
      <3> DEFINE new == [at |-> "hit", key |-> k, gen |-> generation,
                         low |-> cache[k].low, need |-> acked]
      <3>1. new \in Task /\ new.low = cache[k].low /\ new.need = acked /\ new.gen = generation
                         /\ new.at = "hit"
        BY <1>1, <2>1 DEF Task, Item
      <3>2. cache[k].low >= acked /\ cache[k].low <= version
        \* an item is no newer than the database
        <4>1. cache[k].low >= acked
          BY <2>2 DEF CacheInv, ItemsFresh, Fresh
        <4>2. cache[k].low <= version
          BY <2>2 DEF CacheInv, Bounded
        <4> QED BY <4>1, <4>2
      <3>3. task' = [task EXCEPT ![t] = new] /\ UNCHANGED <<version, acked, cache, generation>>
        BY <1>3, <2>2 DEF Lookup
      <3> HIDE DEF new
      <3>4. Sound(new)
        BY <1>1, <3>1, <3>2 DEF Sound
      <3> QED BY <3>3, <3>4, MoveKeeps
    <2>3. CASE ~(cache[k].left > 0)
      <3> DEFINE new == [at |-> "read", key |-> k, gen |-> generation, low |-> 0, need |-> acked]
      <3>1. new \in Task /\ new.low = 0 /\ new.need = acked /\ new.gen = generation
                         /\ new.at = "read"
        BY <1>1 DEF Task
      <3>2. task' = [task EXCEPT ![t] = new] /\ UNCHANGED <<version, acked, cache, generation>>
        BY <1>3, <2>3 DEF Lookup
      <3> HIDE DEF new
      <3>3. Sound(new)
        BY <1>1, <3>1 DEF Sound
      <3> QED BY <3>2, <3>3, MoveKeeps
    <2> QED BY <2>2, <2>3
  <1>4. CASE Read(t)
    <2> DEFINE new == [task[t] EXCEPT !.at = "send", !.low = version]
    <2>1. new \in Task /\ new.low = version /\ new.need = task[t].need /\ new.gen = task[t].gen
                       /\ new.at = "send"
      BY <1>1 DEF Task
    <2>2. task' = [task EXCEPT ![t] = new] /\ UNCHANGED <<version, acked, cache, generation>>
      BY <1>4 DEF Read
    <2>3. Fresh(version) /\ version >= task[t].need
      BY <1>1 DEF Fresh, CacheInv, TypeOK, Bounded, Task
    <2> HIDE DEF new
    <2>4. Sound(new)
      BY <1>1, <2>1, <2>3 DEF Sound
    <2> QED BY <2>2, <2>4, MoveKeeps
  <1>5. ASSUME Goto(t, "idle"), UNCHANGED <<version, acked, cache, generation>> PROVE CacheInv'
    <2>1. task' = [task EXCEPT ![t] = Idle]
      BY <1>5 DEF Goto
    <2>2. Sound(Idle)
      BY <1>1, <1>2 DEF Sound
    <2> QED BY <1>5, <2>1, <2>2, MoveKeeps
  <1>6. ASSUME NEW step \in {"put", "run"}, Goto(t, step),
               step = "put" => At(t, "send"),
               UNCHANGED <<version, acked, cache, generation>>
        PROVE  CacheInv'
    <2> DEFINE new == [task[t] EXCEPT !.at = step]
    <2>1. /\ new \in Task /\ new.low = task[t].low /\ new.need = task[t].need
          /\ new.gen = task[t].gen /\ new.at = step
      BY <1>1 DEF Task
    <2>2. task' = [task EXCEPT ![t] = new]
      BY <1>6 DEF Goto
    <2>3. step = "put" => /\ task[t].low >= task[t].need
                          /\ task[t].gen = generation => Fresh(task[t].low)
      BY <1>6 DEF CacheInv, AckedIsVisible, PagesFresh, Recent
    <2> HIDE DEF new
    <2>4. Sound(new)
      BY <1>1, <1>6, <2>1, <2>3 DEF Sound
    <2> QED BY <1>6, <2>2, <2>4, MoveKeeps
  <1>7. CASE Send(t)
    BY <1>5, <1>6, <1>7 DEF Send
  <1>8. CASE Mutate(t) \/ Fail(t)
    BY <1>5, <1>6, <1>8 DEF Mutate, Fail
  <1> QED BY <1>3, <1>4, <1>7, <1>8

\* Storing a page: it is fresh, or it is dropped.
LEMMA PutKeeps ==
    ASSUME CacheInv, NEW t \in Tasks, Put(t)
    PROVE  CacheInv'
  <1>1. /\ task' = [task EXCEPT ![t] = Idle] /\ At(t, "put")
        /\ UNCHANGED <<version, acked, generation>>
    BY DEF Put, Goto
  <1>2. \A u \in Tasks : task'[u] = IF u = t THEN Idle ELSE task[u]
    BY <1>1 DEF CacheInv, TypeOK
  <1>3. /\ task[t] \in Task /\ task[t].low <= version
        /\ task[t].gen = generation => Fresh(task[t].low)
    BY <1>1 DEF CacheInv, TypeOK, Bounded, PagesFresh, Recent
  <1>4. task[t].key \in Keys => Ttl[task[t].key] \in Nat
    BY TtlAssumption
  <1>5. \A k \in Keys : \/ cache'[k] = cache[k]
                        \/ /\ task[t].gen = generation /\ task[t].key = k
                           /\ cache'[k] = [low |-> task[t].low, left |-> Ttl[k]]
    BY DEF Put, CacheInv, TypeOK
  <1>6. Idle \in Task /\ Idle.at = "idle" /\ Idle.low = 0 /\ Idle.need = 0 /\ Idle.gen = 0
    BY DEF Idle, Task
  <1>7. \A k \in Keys : cache'[k] \in Item /\ cache'[k].left <= Ttl[k] /\ cache'[k].low <= version
    <2> SUFFICES ASSUME NEW k \in Keys
                 PROVE  cache'[k] \in Item /\ cache'[k].left <= Ttl[k] /\ cache'[k].low <= version
      OBVIOUS
    <2>1. cache[k] \in Item /\ cache[k].left <= Ttl[k] /\ cache[k].low <= version
      BY DEF CacheInv, TypeOK, Bounded
    <2>2. Ttl[k] \in Nat /\ task[t].low \in Nat
      BY <1>3, TtlAssumption DEF Task
    <2>3. [low |-> task[t].low, left |-> Ttl[k]] \in Item
      BY <2>2 DEF Item
    <2> QED BY <1>3, <1>5, <2>1, <2>2, <2>3
  <1>8. TypeOK'
    <2>1. cache' \in [Keys -> Item]
      <3>1. DOMAIN cache' = Keys /\ cache' = [k \in Keys |-> cache'[k]]
        BY DEF Put, CacheInv, TypeOK
      <3> QED BY <1>7, <3>1
    <2> QED BY <1>1, <1>6, <1>7, <2>1 DEF CacheInv, TypeOK
  <1>9. Bounded'
    BY <1>1, <1>2, <1>6, <1>7 DEF CacheInv, TypeOK, Bounded
  <1>10. ItemsFresh'
    <2> SUFFICES ASSUME NEW k \in Keys, cache'[k].left > 0
                 PROVE  Fresh(cache[k].low)'
      BY DEF ItemsFresh
    <2>1. Fresh(cache'[k].low)
      <3>1. CASE cache'[k] = cache[k]
        BY <3>1 DEF CacheInv, ItemsFresh
      <3>2. CASE task[t].gen = generation /\ cache'[k] = [low |-> task[t].low, left |-> Ttl[k]]
        <4>1. cache'[k].low = task[t].low
          BY <3>2
        <4> QED BY <1>3, <3>2, <4>1
      <3> QED BY <1>5, <3>1, <3>2
    <2> QED BY <1>1, <1>2, <1>6, <2>1 DEF Fresh, At
  <1>11. PagesFresh'
    <2> SUFFICES ASSUME NEW u \in Tasks, Recent(u)', task'[u].gen = generation'
                 PROVE  Fresh(task[u].low)'
      BY DEF PagesFresh
    <2>1. u # t /\ task'[u] = task[u] /\ Fresh(task[u].low)
      BY <1>1, <1>2, <1>6 DEF CacheInv, PagesFresh, Recent, At
    <2> QED BY <1>1, <1>2, <1>6, <2>1 DEF Fresh, At
  <1>12. AckedIsVisible'
    BY <1>2, <1>6 DEF CacheInv, AckedIsVisible, At
  <1> QED BY <1>8, <1>9, <1>10, <1>11, <1>12 DEF CacheInv

\* Time only removes items.
LEMMA TickKeeps ==
    ASSUME CacheInv, Tick
    PROVE  CacheInv'
  <1>1. \A k \in Keys : /\ cache'[k] \in Item /\ cache'[k].left <= Ttl[k]
                        /\ cache'[k].low <= version
                        /\ cache'[k].left > 0 => /\ cache[k].left > 0
                                                 /\ cache'[k].low = cache[k].low
    <2> SUFFICES ASSUME NEW k \in Keys
                 PROVE  /\ cache'[k] \in Item /\ cache'[k].left <= Ttl[k]
                        /\ cache'[k].low <= version
                        /\ cache'[k].left > 0 => /\ cache[k].left > 0
                                                 /\ cache'[k].low = cache[k].low
      OBVIOUS
    <2>1. /\ cache[k] \in Item /\ cache[k].left <= Ttl[k] /\ cache[k].low <= version
          /\ Ttl[k] \in Nat /\ version \in Nat
      BY TtlAssumption DEF CacheInv, TypeOK, Bounded
    <2>2. cache'[k] = IF cache[k].left > 1 THEN [cache[k] EXCEPT !.left = @ - 1] ELSE NoItem
      BY DEF Tick
    <2> QED BY <2>1, <2>2 DEF Item, NoItem
  <1>2. UNCHANGED <<version, acked, generation, task>>
    BY DEF Tick
  <1>3. TypeOK'
    <2>1. cache' \in [Keys -> Item]
      BY <1>1 DEF Tick
    <2> QED BY <1>1, <1>2, <2>1 DEF CacheInv, TypeOK
  <1>4. Bounded'
    BY <1>1, <1>2 DEF CacheInv, Bounded
  <1>5. ItemsFresh' /\ PagesFresh' /\ AckedIsVisible'
    BY <1>1, <1>2 DEF CacheInv, ItemsFresh, PagesFresh, Fresh, Recent, AckedIsVisible, At
  <1> QED BY <1>3, <1>4, <1>5 DEF CacheInv

\* Commits make nothing that is acknowledged newer.
LEMMA CommitKeeps ==
    ASSUME CacheInv, External \/ \E t \in Tasks : Commit(t)
    PROVE  CacheInv'
  <1>1. /\ version' = version + 1 /\ version \in Nat
        /\ UNCHANGED <<acked, cache, generation>>
    BY DEF External, Commit, CacheInv, TypeOK
  <1>2. \A u \in Tasks : /\ task'[u].at = task[u].at /\ task'[u].gen = task[u].gen
                         /\ task'[u].need = task[u].need
                         /\ task'[u].at # "run" => task'[u].low = task[u].low
                         /\ task'[u].low <= version + 1
                         /\ task'[u] \in Task
    <2>1. \A u \in Tasks : task[u] \in Task /\ task[u].low <= version
      BY DEF CacheInv, TypeOK, Bounded
    <2>2. CASE External
      BY <1>1, <2>1, <2>2 DEF External, Task
    <2>3. ASSUME NEW t \in Tasks, Commit(t)
          PROVE  \A u \in Tasks : /\ task'[u].at = task[u].at /\ task'[u].gen = task[u].gen
                                  /\ task'[u].need = task[u].need
                                  /\ task'[u].at # "run" => task'[u].low = task[u].low
                                  /\ task'[u].low <= version + 1
                                  /\ task'[u] \in Task
      <3>1. \A u \in Tasks : task'[u] = IF u = t THEN [task[t] EXCEPT !.low = version + 1]
                                        ELSE task[u]
        BY <2>3 DEF Commit, CacheInv, TypeOK
      <3>2. /\ [task[t] EXCEPT !.low = version + 1] \in Task
            /\ [task[t] EXCEPT !.low = version + 1].at = "run"
        BY <1>1, <2>1, <2>3 DEF Commit, At, Task
      <3> QED BY <1>1, <2>1, <2>3, <3>1, <3>2 DEF Commit, At, Task
    <2> QED BY <2>2, <2>3
  <1>3. task' \in [Tasks -> Task]
    <2>1. task' = [u \in Tasks |-> task'[u]]
      BY DEF External, Commit, CacheInv, TypeOK
    <2> QED BY <1>2, <2>1
  <1>4. TypeOK'
    BY <1>1, <1>3 DEF CacheInv, TypeOK
  <1>5. Bounded'
    <2>1. acked <= version /\ acked \in Nat /\ \A k \in Keys : cache[k].low \in Nat /\ cache[k].low <= version
      BY DEF CacheInv, TypeOK, Bounded, Item
    <2> QED BY <1>1, <1>2, <2>1 DEF CacheInv, Bounded
  <1>6. ItemsFresh' /\ PagesFresh' /\ AckedIsVisible'
    BY <1>1, <1>2 DEF CacheInv, ItemsFresh, PagesFresh, Fresh, Recent, AckedIsVisible, At
  <1> QED BY <1>4, <1>5, <1>6 DEF CacheInv

\* Clearing leaves no item, and no page of the new generation.
LEMMA ClearKeeps ==
    ASSUME CacheInv, NEW t \in Tasks, Clear(t)
    PROVE  CacheInv'
  <1> DEFINE new == [task[t] EXCEPT !.at = "ack"]
  <1>1. task' = [task EXCEPT ![t] = new]
    BY DEF Clear, Goto
  <1>2. /\ new \in Task /\ new.low = task[t].low /\ new.need = task[t].need
        /\ new.gen = task[t].gen /\ new.at = "ack"
    BY DEF CacheInv, TypeOK, Task
  <1> HIDE DEF new
  <1>3. \A u \in Tasks : task'[u] = IF u = t THEN new ELSE task[u]
    BY <1>1 DEF CacheInv, TypeOK
  <1>4. /\ UNCHANGED <<version, acked>> /\ generation' = generation + 1 /\ generation \in Nat
        /\ version \in Nat
        /\ \A k \in Keys : cache'[k] = NoItem
    BY DEF Clear, CacheInv, TypeOK
  <1>5. NoItem \in Item /\ NoItem.left = 0 /\ NoItem.low = 0
    BY DEF NoItem, Item
  <1>6. TypeOK'
    <2>1. cache' \in [Keys -> Item]
      BY <1>5 DEF Clear
    <2>2. task' \in [Tasks -> Task]
      BY <1>1, <1>2 DEF CacheInv, TypeOK
    <2> QED BY <1>4, <1>5, <2>1, <2>2, TtlAssumption DEF CacheInv, TypeOK
  <1>7. Bounded'
    <2>1. \A u \in Tasks : task[u].gen \in Nat /\ task[u].gen <= generation
      BY DEF CacheInv, TypeOK, Task, Bounded
    <2> QED BY <1>2, <1>3, <1>4, <1>5, <2>1 DEF CacheInv, Bounded
  <1>8. ItemsFresh'
    BY <1>4, <1>5 DEF ItemsFresh
  <1>9. PagesFresh'
    <2>1. \A u \in Tasks : task'[u].gen # generation'
      BY <1>2, <1>3, <1>4 DEF CacheInv, Bounded, TypeOK, Task
    <2> QED BY <2>1 DEF PagesFresh
  <1>10. AckedIsVisible'
    BY <1>2, <1>3 DEF CacheInv, AckedIsVisible, At
  <1> QED BY <1>6, <1>7, <1>8, <1>9, <1>10 DEF CacheInv

\* The acknowledgement asks of items and pages what they satisfy since the
\* cache was cleared.
LEMMA AckKeeps ==
    ASSUME CacheInv, NEW t \in Tasks, Ack(t)
    PROVE  CacheInv'
  <1>1. task' = [task EXCEPT ![t] = Idle] /\ task[t].at = "ack"
    BY DEF Ack, Goto, At
  <1>2. Idle \in Task /\ Idle.at = "idle" /\ Idle.low = 0 /\ Idle.need = 0 /\ Idle.gen = 0
    BY DEF Idle, Task
  <1>3. \A u \in Tasks : task'[u] = IF u = t THEN Idle ELSE task[u]
    BY <1>1 DEF CacheInv, TypeOK
  <1>4. /\ task[t].low \in Nat /\ acked \in Nat /\ version \in Nat /\ generation \in Nat
        /\ task[t].low <= version /\ acked <= version
        /\ acked' = IF task[t].low > acked THEN task[t].low ELSE acked
        /\ UNCHANGED <<version, cache, generation>>
    BY DEF Ack, CacheInv, TypeOK, Task, Bounded
  <1>5. acked' \in Nat /\ acked' <= version /\ acked' >= acked
    BY <1>4
  <1>6. TypeOK'
    BY <1>1, <1>2, <1>4, <1>5 DEF CacheInv, TypeOK
  <1>7. Bounded'
    <2>1. \A u \in Tasks : task[u].need \in Nat /\ task[u].need <= acked
      BY DEF CacheInv, TypeOK, Task, Bounded
    <2> QED BY <1>2, <1>3, <1>4, <1>5, <2>1 DEF CacheInv, Bounded
  <1>8. \A low \in Nat : Fresh(low) =>
           low >= acked' /\ \A w \in Tasks : task'[w].at = "ack" => low >= task'[w].low
    BY <1>1, <1>2, <1>3, <1>4 DEF Fresh, At
  <1>9. ItemsFresh'
    <2> SUFFICES ASSUME NEW k \in Keys, cache'[k].left > 0
                 PROVE  Fresh(cache[k].low)'
      BY DEF ItemsFresh
    <2>1. Fresh(cache[k].low) /\ cache[k].low \in Nat
      BY <1>4 DEF CacheInv, ItemsFresh, TypeOK, Item
    <2> QED BY <1>4, <1>8, <2>1 DEF Fresh, At
  <1>10. PagesFresh'
    <2> SUFFICES ASSUME NEW u \in Tasks, Recent(u)', task'[u].gen = generation'
                 PROVE  Fresh(task[u].low)'
      BY DEF PagesFresh
    <2>1. u # t /\ task'[u] = task[u]
      BY <1>2, <1>3 DEF Recent, At
    <2>2. Fresh(task[u].low) /\ task[u].low \in Nat
      BY <1>4, <2>1 DEF CacheInv, PagesFresh, Recent, At, TypeOK, Task
    <2> QED BY <1>4, <1>8, <2>1, <2>2 DEF Fresh, At
  <1>11. AckedIsVisible'
    BY <1>2, <1>3 DEF CacheInv, AckedIsVisible, At
  <1> QED BY <1>6, <1>7, <1>9, <1>10, <1>11 DEF CacheInv

\* Every step keeps the invariant.
LEMMA NextKeeps == CacheInv /\ [Next]_vars => CacheInv'
  <1> SUFFICES ASSUME CacheInv, [Next]_vars PROVE CacheInv'
    OBVIOUS
  <1>1. ASSUME NEW t \in Tasks,
               Step(t) \/ Mutate(t) \/ Commit(t) \/ \E k \in Keys : Lookup(t, k)
        PROVE  CacheInv'
    BY <1>1, ReaderKeeps, PutKeeps, CommitKeeps, ClearKeeps, AckKeeps DEF Step
  <1>2. CASE Tick \/ External
    BY <1>2, TickKeeps, CommitKeeps
  <1>3. CASE UNCHANGED vars
    BY <1>3 DEF vars, CacheInv, TypeOK, Bounded, ItemsFresh, PagesFresh, Fresh, Recent,
       AckedIsVisible, At
  <1> QED BY <1>1, <1>2, <1>3 DEF Next

----------------------------------------------------------------------------
\* Items, lifetimes and requests keep their types.
THEOREM CacheType == Spec => []TypeOK
  <1>1. CacheInv => TypeOK
    BY DEF CacheInv
  <1> QED BY InitHolds, NextKeeps, <1>1, PTL DEF Spec

\* The cache holds nothing older than the newest acknowledged mutation.
THEOREM NothingStale == Spec => []CacheNotStale
  <1>1. CacheInv => CacheNotStale
    BY DEF CacheInv, ItemsFresh, Fresh, CacheNotStale
  <1> QED BY InitHolds, NextKeeps, <1>1, PTL DEF Spec

\* A page shows every mutation that was acknowledged before it was requested.
THEOREM ReadYourAck == Spec => []AckedIsVisible
  <1>1. CacheInv => AckedIsVisible
    BY DEF CacheInv
  <1> QED BY InitHolds, NextKeeps, <1>1, PTL DEF Spec

----------------------------------------------------------------------------
(* The ledger: what a step does to an entry                                 *)

\* An entry has the columns of the table, whatever they say.
IsEntry(e) == e = [status |-> e.status, source |-> e.source, detail |-> e.detail,
                   market |-> e.market, data |-> e.data]

\* The detail report of an entry is a report of the entry's date.
DetailOfDate(c) == ledger[c].detail # NoReport =>
                      ledger[c].detail \in Reports /\ ReportDate[ledger[c].detail] = c.date

\* A snapshot was taken from bars, and bars stay.
SnapshotOfBars(r) == \A o \in frozen[r].objects : <<o, frozen[r].day>> \in bars

LedgerColumns ==
    /\ phase \in [Reports -> {"absent", "draft", "published", "rebuilding", "withdrawn"}]
    /\ bound \in [Reports -> MarketDays \cup {NoDay}]
    /\ frozen \in [Reports -> [day: MarketDays \cup {NoDay}, objects: SUBSET BaseKeys]]

LedgerInv ==
    /\ LedgerColumns
    /\ \A c \in Cells : IsEntry(ledger[c]) /\ DetailOfDate(c)
    /\ \A r \in Reports : SnapshotOfBars(r)

\* A market day that an entry of the cell may come to show.
IsExact(c, day) ==
    /\ day = c.date \/ \E r \in Reports : ReportDate[r] = c.date /\ bound[r] = day
    /\ <<c.object, day>> \in bars

\* What a step may do to an entry.
EntryMoves(c) ==
    /\ ledger'[c].market \in {NoDay, ledger[c].market} \/ IsExact(c, ledger'[c].market)
    /\ (ledger[c] # NoEntry /\ ledger'[c].source = ledger[c].source
        /\ ledger'[c].status # ledger[c].status) =>
           \E r \in Reports : phase[r] = "rebuilding" /\ phase'[r] = "published"

----------------------------------------------------------------------------
\* The market day of a payload, whatever it is taken from.
LEMMA ExactMarketDay ==
    ASSUME LedgerInv, NEW c \in Cells, NEW detail \in Reports \cup {NoReport},
           detail # NoReport => ReportDate[detail] = c.date
    PROVE  LET day == ExactMarket(c, detail).market IN day = NoDay \/ IsExact(c, day)
  <1> DEFINE want == Requested(c, detail)
  <1>1. want = c.date \/ \E r \in Reports : ReportDate[r] = c.date /\ bound[r] = want
    BY DEF Requested
  <1>2. CASE detail # NoReport /\ c.object \in frozen[detail].objects
    <2>1. ExactMarket(c, detail) = IF frozen[detail].day = want THEN Attached(want, "eod_complete")
                                   ELSE Unattached
      BY <1>2 DEF ExactMarket
    <2>2. <<c.object, frozen[detail].day>> \in bars
      BY <1>2 DEF LedgerInv, SnapshotOfBars
    <2> QED BY <1>1, <2>1, <2>2 DEF Attached, Unattached, IsExact
  <1>3. CASE ~(detail # NoReport /\ c.object \in frozen[detail].objects)
    <2>1. ExactMarket(c, detail) = IF <<c.object, want>> \in bars THEN Attached(want, "eod_complete")
                                   ELSE Unattached
      BY <1>3 DEF ExactMarket
    <2> QED BY <1>1, <2>1 DEF Attached, Unattached, IsExact
  <1> QED BY <1>2, <1>3

\* The market day a repair attaches.
LEMMA RepairedDay ==
    ASSUME LedgerInv, NEW c \in Cells
    PROVE  LET day == Repaired(c).market IN day = NoDay \/ IsExact(c, day)
  <1> DEFINE want == Requested(c, ledger[c].detail)
  <1>1. want = c.date \/ \E r \in Reports : ReportDate[r] = c.date /\ bound[r] = want
    BY DEF Requested, LedgerInv, DetailOfDate
  <1>2. Repaired(c) = IF <<c.object, want>> \in bars THEN Attached(want, "attached") ELSE Unattached
    BY DEF Repaired
  <1> QED BY <1>1, <1>2 DEF Attached, Unattached, IsExact

\* A sync writes entries of the table, with reports of their dates, and takes a
\* status over from the same source only where it found a difference.
LEMMA SyncedMoves ==
    ASSUME LedgerInv, LedgerAssumption, NEW r \in Reports, NEW claims, Synced(r, claims)
    PROVE  \A c \in Cells :
              /\ IsEntry(ledger'[c]) /\ DetailOfDate(c)'
              /\ ledger'[c].market \in {NoDay, ledger[c].market} \/ IsExact(c, ledger'[c].market)
              /\ (ledger[c] # NoEntry /\ ledger'[c].source = ledger[c].source
                  /\ ledger'[c].status # ledger[c].status) => Reliable(r) /\ Differences(claims) # {}
  <1> SUFFICES ASSUME NEW c \in Cells
               PROVE  /\ IsEntry(ledger'[c]) /\ DetailOfDate(c)'
                      /\ ledger'[c].market \in {NoDay, ledger[c].market} \/ IsExact(c, ledger'[c].market)
                      /\ (ledger[c] # NoEntry /\ ledger'[c].source = ledger[c].source
                          /\ ledger'[c].status # ledger[c].status) => Reliable(r) /\ Differences(claims) # {}
    OBVIOUS
  <1>1. PICK details \in DetailChoices' :
            ledger' = [d \in Cells |-> IF Reliable(r) /\ d \in DOMAIN claims
                                       THEN Rewritten(d, claims[d], details[d.date]) ELSE ledger[d]]
    BY DEF Synced
  <1> DEFINE detail == details[c.date]
  <1>2. detail \in Reports \cup {NoReport} /\ (detail # NoReport => ReportDate[detail] = c.date)
    BY DEF DetailChoices, Dated, Cells
  <1> HIDE DEF detail
  <1>3. IsEntry(ledger[c]) /\ DetailOfDate(c)
    BY DEF LedgerInv
  <1>4. CASE ~(Reliable(r) /\ c \in DOMAIN claims)
    <2>1. ledger'[c] = ledger[c]
      BY <1>1, <1>4
    <2> QED BY <1>3, <2>1 DEF DetailOfDate
  <1>5. CASE Reliable(r) /\ c \in DOMAIN claims
    <2>1. ledger'[c] = Rewritten(c, claims[c], detail)
      BY <1>1, <1>5 DEF detail
    <2>2. CASE ledger[c] = NoEntry
      <3> DEFINE exact == ExactMarket(c, detail)
      <3>1. exact.market = NoDay \/ IsExact(c, exact.market)
        BY <1>2, ExactMarketDay
      <3> HIDE DEF exact
      <3>2. ledger'[c] = [status |-> claims[c].status, source |-> claims[c].source, detail |-> detail,
                          market |-> exact.market, data |-> exact.data]
        BY <2>1, <2>2 DEF Rewritten, exact
      <3> QED BY <1>2, <2>2, <3>1, <3>2 DEF IsEntry, DetailOfDate
    <2>3. CASE ledger[c] # NoEntry
      <3> DEFINE old == ledger[c]
      <3>1. ledger'[c] = [old EXCEPT !.status = claims[c].status, !.source = claims[c].source,
                                     !.detail = IF @ = NoReport THEN detail ELSE @]
        BY <2>1, <2>3 DEF Rewritten
      <3>2. old = [status |-> old.status, source |-> old.source, detail |-> old.detail,
                   market |-> old.market, data |-> old.data]
        BY <1>3 DEF IsEntry
      <3> HIDE DEF old
      <3>3. ledger'[c] = [status |-> claims[c].status, source |-> claims[c].source,
                          detail |-> IF old.detail = NoReport THEN detail ELSE old.detail,
                          market |-> old.market, data |-> old.data]
        BY <3>1, <3>2
      <3>4. IsEntry(ledger'[c]) /\ DetailOfDate(c)' /\ ledger'[c].market = ledger[c].market
        BY <1>2, <1>3, <3>3 DEF IsEntry, DetailOfDate, old
      <3>5. (ledger'[c].source = ledger[c].source /\ ledger'[c].status # ledger[c].status)
               => Differs(c, claims)
        BY <2>3, <3>3 DEF Differs
      <3> QED BY <1>5, <3>4, <3>5 DEF Differences
    <2> QED BY <2>2, <2>3
  <1> QED BY <1>4, <1>5

\* A repair writes the market fields and nothing else.
LEMMA RepairMoves ==
    ASSUME LedgerInv, RepairMarketFields
    PROVE  \A c \in Cells :
              /\ IsEntry(ledger'[c]) /\ DetailOfDate(c)'
              /\ ledger'[c].market \in {NoDay, ledger[c].market} \/ IsExact(c, ledger'[c].market)
              /\ ledger[c] # NoEntry => ledger'[c].status = ledger[c].status
  <1> SUFFICES ASSUME NEW c \in Cells
               PROVE  /\ IsEntry(ledger'[c]) /\ DetailOfDate(c)'
                      /\ ledger'[c].market \in {NoDay, ledger[c].market} \/ IsExact(c, ledger'[c].market)
                      /\ ledger[c] # NoEntry => ledger'[c].status = ledger[c].status
    OBVIOUS
  <1>1. ledger'[c] = IF ledger[c] = NoEntry THEN NoEntry
                     ELSE [ledger[c] EXCEPT !.market = Repaired(c).market, !.data = Repaired(c).data]
    BY DEF RepairMarketFields
  <1>2. IsEntry(ledger[c]) /\ DetailOfDate(c)
    BY DEF LedgerInv
  <1>3. CASE ledger[c] = NoEntry
    BY <1>1, <1>2, <1>3 DEF DetailOfDate
  <1>4. CASE ledger[c] # NoEntry
    <2> DEFINE old == ledger[c]
               new == Repaired(c)
    <2>1. new.market = NoDay \/ IsExact(c, new.market)
      BY RepairedDay
    <2>2. ledger'[c] = [old EXCEPT !.market = new.market, !.data = new.data]
      BY <1>1, <1>4
    <2>3. old = [status |-> old.status, source |-> old.source, detail |-> old.detail,
                 market |-> old.market, data |-> old.data]
      BY <1>2 DEF IsEntry
    <2> HIDE DEF old, new
    <2>4. ledger'[c] = [status |-> old.status, source |-> old.source, detail |-> old.detail,
                        market |-> new.market, data |-> new.data]
      BY <2>2, <2>3
    <2> QED BY <1>2, <2>1, <2>4 DEF IsEntry, DetailOfDate, old
  <1> QED BY <1>3, <1>4

\* A sync after a report became published: where the source is the same, the
\* status is, unless its reconciliation ends.
LEMMA SyncKeeps ==
    ASSUME LedgerInv, LedgerAssumption, NEW r \in Reports, NEW claims, Synced(r, claims),
           NEW p \in {"draft", "rebuilding"}, phase[r] = p,
           p = "draft" => (Reliable(r) => Differences(claims) = {}),
           phase' = [phase EXCEPT ![r] = "published"], UNCHANGED <<bound, frozen, bars>>
    PROVE  LedgerInv' /\ \A c \in Cells : EntryMoves(c)
  <1>1. LedgerInv'
    <2>1. LedgerColumns'
      BY DEF LedgerInv, LedgerColumns
    <2>2. \A c \in Cells : IsEntry(ledger'[c]) /\ DetailOfDate(c)'
      BY SyncedMoves
    <2> QED BY <2>1, <2>2 DEF LedgerInv, SnapshotOfBars
  <1>2. phase'[r] = "published"
    BY DEF LedgerInv, LedgerColumns
  <1> QED BY <1>1, <1>2, SyncedMoves DEF EntryMoves

\* The empty ledger satisfies the invariant.
LEMMA LedgerInitHolds == LedgerAssumption /\ LedgerInit => LedgerInv
  <1> SUFFICES ASSUME LedgerInit PROVE LedgerInv
    OBVIOUS
  <1>1. LedgerColumns
    BY DEF LedgerInit, LedgerColumns, NoSnapshot
  <1>2. \A c \in Cells : IsEntry(ledger[c]) /\ DetailOfDate(c)
    BY DEF LedgerInit, NoEntry, IsEntry, DetailOfDate
  <1>3. \A r \in Reports : SnapshotOfBars(r)
    BY DEF LedgerInit, NoSnapshot, SnapshotOfBars
  <1> QED BY <1>1, <1>2, <1>3 DEF LedgerInv

\* Every step keeps it and moves the entries as said.
LEMMA LedgerStep ==
    LedgerInv /\ [LedgerNext]_ledgerVars => LedgerInv' /\ [\A c \in Cells : EntryMoves(c)]_ledgerVars
  <1> SUFFICES ASSUME LedgerInv, [LedgerNext]_ledgerVars
               PROVE  LedgerInv' /\ [\A c \in Cells : EntryMoves(c)]_ledgerVars
    OBVIOUS
  <1> USE LedgerAssumption
  \* A step that leaves the ledger alone.
  <1>1. ASSUME UNCHANGED ledger, LedgerColumns', (\A r \in Reports : SnapshotOfBars(r))'
        PROVE  LedgerInv' /\ \A c \in Cells : EntryMoves(c)
    <2>1. \A c \in Cells : IsEntry(ledger'[c]) /\ DetailOfDate(c)'
      BY <1>1 DEF LedgerInv, DetailOfDate
    <2> QED BY <1>1, <2>1 DEF LedgerInv, EntryMoves
  <1>2. ASSUME NEW r \in Reports, NEW matrix, Parse(r, matrix) \/ Rebuild(r, matrix)
        PROVE  LedgerInv' /\ \A c \in Cells : EntryMoves(c)
    <2>1. LedgerColumns' /\ (\A q \in Reports : SnapshotOfBars(q))'
      BY <1>2 DEF Parse, Rebuild, LedgerInv, LedgerColumns, SnapshotOfBars
    <2> QED BY <1>1, <1>2, <2>1 DEF Parse, Rebuild
  <1>3. ASSUME NEW r \in Reports, Publish(r) \/ Withdraw(r) \/ FailRebuild(r)
        PROVE  LedgerInv' /\ \A c \in Cells : EntryMoves(c)
    <2>1. LedgerColumns' /\ (\A q \in Reports : SnapshotOfBars(q))'
      BY <1>3 DEF Publish, BecomesPublished, Withdraw, FailRebuild, LedgerInv, LedgerColumns,
                  SnapshotOfBars
    <2> QED BY <1>1, <1>3, <2>1 DEF Publish, Withdraw, FailRebuild
  <1>4. ASSUME NEW r \in Reports, PublishStrict(r)
        PROVE  LedgerInv' /\ \A c \in Cells : EntryMoves(c)
    <2>1. PICK claims : Synced(r, claims) /\ (Reliable(r) => Differences(claims) = {})
      BY <1>4 DEF PublishStrict
    <2>2. /\ phase[r] = "draft" /\ phase' = [phase EXCEPT ![r] = "published"]
          /\ UNCHANGED <<bound, frozen, bars>>
      BY <1>4 DEF PublishStrict, BecomesPublished
    <2> QED BY <2>1, <2>2, SyncKeeps
  <1>5. ASSUME NEW r \in Reports, FinishRebuild(r)
        PROVE  LedgerInv' /\ \A c \in Cells : EntryMoves(c)
    <2>1. PICK claims : Synced(r, claims)
      BY <1>5 DEF FinishRebuild
    <2>2. /\ phase[r] = "rebuilding" /\ phase' = [phase EXCEPT ![r] = "published"]
          /\ UNCHANGED <<bound, frozen, bars>>
      BY <1>5 DEF FinishRebuild
    <2> QED BY <2>1, <2>2, SyncKeeps
  <1>6. ASSUME NEW r \in Reports, FreezeSnapshot(r)
        PROVE  LedgerInv' /\ \A c \in Cells : EntryMoves(c)
    <2> DEFINE objects == {o \in BaseKeys : <<o, bound[r]>> \in bars}
               new     == [day |-> bound[r], objects |-> objects]
    <2>1. frozen' = [frozen EXCEPT ![r] = new] /\ UNCHANGED <<phase, bound, bars, ledger>>
      BY <1>6 DEF FreezeSnapshot
    <2>2. new \in [day: MarketDays \cup {NoDay}, objects: SUBSET BaseKeys]
      BY DEF LedgerInv, LedgerColumns
    <2>3. \A o \in new.objects : <<o, new.day>> \in bars
      OBVIOUS
    <2> HIDE DEF new
    <2>4. LedgerColumns' /\ (\A q \in Reports : SnapshotOfBars(q))'
      BY <2>1, <2>2, <2>3 DEF LedgerInv, LedgerColumns, SnapshotOfBars
    <2> QED BY <1>1, <2>1, <2>4
  <1>7. ASSUME NEW r \in Reports, NEW day \in Bindings[r] \cup {NoDay}, BindMarketDate(r, day)
        PROVE  LedgerInv' /\ \A c \in Cells : EntryMoves(c)
    <2>1. day \in MarketDays \cup {NoDay}
      BY DEF LedgerAssumption
    <2>2. LedgerColumns' /\ (\A q \in Reports : SnapshotOfBars(q))'
      BY <1>7, <2>1 DEF BindMarketDate, LedgerInv, LedgerColumns, SnapshotOfBars
    <2> QED BY <1>1, <1>7, <2>2 DEF BindMarketDate
  <1>8. CASE StoreBar
    <2>1. LedgerColumns' /\ (\A q \in Reports : SnapshotOfBars(q))'
      BY <1>8 DEF StoreBar, LedgerInv, LedgerColumns, SnapshotOfBars
    <2> QED BY <1>1, <1>8, <2>1 DEF StoreBar
  <1>9. CASE RepairMarketFields
    <2>1. LedgerColumns' /\ (\A q \in Reports : SnapshotOfBars(q))'
      BY <1>9 DEF RepairMarketFields, LedgerInv, LedgerColumns, SnapshotOfBars
    <2> QED BY <1>9, <2>1, RepairMoves DEF LedgerInv, EntryMoves
  <1>10. CASE UNCHANGED ledgerVars
    BY <1>10 DEF ledgerVars, LedgerInv, LedgerColumns, DetailOfDate, SnapshotOfBars
  <1> QED BY <1>2, <1>3, <1>4, <1>5, <1>6, <1>7, <1>8, <1>9, <1>10 DEF LedgerNext

\* So every step of a behaviour does.
LEMMA LedgerReach == LedgerSpec => [][\A c \in Cells : EntryMoves(c)]_ledgerVars
  BY LedgerInitHolds, LedgerStep, LedgerAssumption, PTL DEF LedgerSpec

\* The market day of an entry is only ever set to the path date or to a day that
\* a report of this date is bound to, and only where the bar exists: a snapshot
\* taken for another day and a detail report of another date are never used
\* (_exact_market_payload, planned_repairs).
THEOREM ExactDayHolds == LedgerSpec => ExactDay
  <1>1. [\A c \in Cells : EntryMoves(c)]_ledgerVars =>
            [\A c \in Cells : LET day == ledger'[c].market IN day \notin {NoDay, ledger[c].market} =>
               /\ day = c.date \/ \E r \in Reports : ReportDate[r] = c.date /\ bound[r] = day
               /\ <<c.object, day>> \in bars]_ledgerVars
    BY DEF EntryMoves, IsExact
  <1> QED BY <1>1, LedgerReach, PTL DEF ExactDay

\* A source does not change its mind unnoticed: publish_strict is refused when
\* the ledger has another status from the same report, and a repair leaves the
\* status alone, so that only the end of a reconciliation changes it.
THEOREM SourceKeepsStatusHolds == LedgerSpec => SourceKeepsStatus
  <1>1. [\A c \in Cells : EntryMoves(c)]_ledgerVars =>
            [\A c \in Cells : ledger[c] # NoEntry /\ ledger'[c].source = ledger[c].source
                /\ ledger'[c].status # ledger[c].status =>
                   \E r \in Reports : phase[r] = "rebuilding" /\ phase'[r] = "published"]_ledgerVars
    BY DEF EntryMoves
  <1> QED BY <1>1, LedgerReach, PTL DEF SourceKeepsStatus

----------------------------------------------------------------------------
(* The ledger: who decides a cell                                           *)

\* Reports have an order.
LEMMA EarlierOrders ==
    /\ \A p \in Reports : Earlier(p, p)
    /\ \A p, q \in Reports : Earlier(p, q) \/ Earlier(q, p)
    /\ \A p, q \in Reports : Earlier(p, q) /\ Earlier(q, p) => p = q
    /\ \A p, q, s \in Reports : Earlier(p, q) /\ Earlier(q, s) => Earlier(p, s)
  <1>1. \A p \in Reports : ReportDate[p] \in Nat /\ Created[p] \in Nat
    BY LedgerAssumption
  <1>2. \A p, q \in Reports : Created[p] = Created[q] => p = q
    BY LedgerAssumption
  <1> QED BY <1>1, <1>2 DEF Earlier

\* Its places follow this order, one report to a place.
LEMMA PlacesOrder ==
    ASSUME NEW p \in Reports, NEW q \in Reports
    PROVE  /\ Places[q] \in 1..Cardinality(Reports)
           /\ Places[p] = Places[q] => p = q
           /\ Places[p] < Places[q] => Earlier(p, q)
  <1> DEFINE upTo(s) == {x \in Reports : Earlier(x, s)}
  <1>1. IsFiniteSet(Reports)
    BY LedgerAssumption
  <1>2. ASSUME NEW s \in Reports
        PROVE  /\ Places[s] = Cardinality(upTo(s)) /\ Places[s] \in 1..Cardinality(Reports)
               /\ IsFiniteSet(upTo(s)) /\ Cardinality(upTo(s)) \in Nat
    <2>1. Places[s] = Cardinality(upTo(s))
      BY DEF Places
    <2>2. upTo(s) \subseteq Reports /\ s \in upTo(s)
      BY EarlierOrders
    <2>3. IsFiniteSet(upTo(s)) /\ Cardinality(upTo(s)) <= Cardinality(Reports)
      BY <1>1, <2>2, FS_Subset
    <2>4. Cardinality(upTo(s)) \in Nat /\ Cardinality(Reports) \in Nat
      BY <1>1, <2>3, FS_CardinalityType
    <2>5. Cardinality(upTo(s)) # 0
      BY <2>2, <2>3, FS_EmptySet
    <2> QED BY <2>1, <2>3, <2>4, <2>5
  <1>3. ASSUME NEW x \in Reports, NEW y \in Reports, Earlier(x, y), x # y
        PROVE  Places[x] < Places[y]
    <2>1. upTo(x) \subseteq upTo(y) /\ y \in upTo(y) /\ y \notin upTo(x)
      BY <1>3, EarlierOrders
    <2>2. Cardinality(upTo(x)) <= Cardinality(upTo(y))
          /\ (Cardinality(upTo(x)) = Cardinality(upTo(y)) => upTo(x) = upTo(y))
      BY <1>2, <2>1, FS_Subset
    <2>3. upTo(x) # upTo(y)
      BY <2>1
    <2> HIDE DEF upTo
    <2> QED BY <1>2, <2>2, <2>3
  <1>4. /\ Places[p] \in Nat /\ Places[q] \in Nat
        /\ Earlier(p, q) /\ p # q => Places[p] < Places[q]
        /\ Earlier(q, p) /\ p # q => Places[q] < Places[p]
    BY <1>2, <1>3
  <1>5. p = q \/ (Earlier(p, q) /\ p # q) \/ (Earlier(q, p) /\ p # q)
    BY EarlierOrders
  <1>6. Places[q] \in 1..Cardinality(Reports)
    BY <1>2
  <1>7. /\ Places[p] = Places[q] => p = q
        /\ Places[p] < Places[q] => Earlier(p, q)
    BY <1>4, <1>5
  <1> QED BY <1>6, <1>7

----------------------------------------------------------------------------
\* A pass over the places up to n: the authorities adopt, or they correct.
Turn(claims, q, kind, r) == IF kind = "adopt" THEN Adopt(claims, q, r) ELSE Correct(claims, q)
IsSweep(f, n, turns, kind, r, base) ==
    f = [i \in 0..n |-> IF i = 0 THEN base
                        ELSE IF turns[i] = {} THEN f[i - 1]
                        ELSE Turn(f[i - 1], CHOOSE q \in turns[i] : TRUE, kind, r)]

\* A set of numbers has a least one: the first place where a loop goes wrong.
LEMMA LeastNatural ==
    ASSUME NEW S \in SUBSET Nat, S # {}
    PROVE  \E m \in S : \A n \in S : m <= n
  <1>1. PICK m \in S : \A n \in S : <<n, m>> \notin OpToRel(<, Nat)
    BY WFMin, NatLessThanWellFounded, Zenon
  <1>2. \A n \in S : ~(n < m)
    BY <1>1, Zenon DEF OpToRel
  <1> QED BY <1>2

\* There is one: were a place the first without, the pass up to the place before
\* it would extend to it.
LEMMA SweepExists ==
    ASSUME NEW turns, NEW kind, NEW r, NEW base
    PROVE  \A n \in Nat : \E f : IsSweep(f, n, turns, kind, r, base)
  <1> DEFINE bad == {n \in Nat : ~ \E f : IsSweep(f, n, turns, kind, r, base)}
             StepAt(b, i) == IF turns[i] = {} THEN b
                           ELSE Turn(b, CHOOSE q \in turns[i] : TRUE, kind, r)
  <1> SUFFICES ASSUME bad # {} PROVE FALSE
    OBVIOUS
  <1>1. PICK n \in bad : \A m \in bad : n <= m
    BY LeastNatural
  <1>2. CASE n = 0
    <2>1. IsSweep([i \in 0..0 |-> base], 0, turns, kind, r, base)
      BY DEF IsSweep
    <2> QED BY <1>1, <1>2, <2>1
  <1>3. CASE n # 0
    <2>1. n \in Nat /\ n - 1 \in Nat /\ n - 1 \notin bad
      BY <1>1, <1>3
    <2>2. PICK f : IsSweep(f, n - 1, turns, kind, r, base)
      BY <2>1
    <2>3. \A i \in 0..(n - 1) : f[i] = IF i = 0 THEN base ELSE StepAt(f[i - 1], i)
      BY <2>2 DEF IsSweep
    <2> DEFINE g == [i \in 0..n |-> IF i = n THEN StepAt(f[n - 1], n) ELSE f[i]]
               h == [i \in 0..n |-> IF i = 0 THEN base ELSE StepAt(g[i - 1], i)]
    <2>4. h = [i \in 0..n |-> IF i = 0 THEN base
                              ELSE IF turns[i] = {} THEN g[i - 1]
                              ELSE Turn(g[i - 1], CHOOSE q \in turns[i] : TRUE, kind, r)]
      OBVIOUS
    <2> HIDE DEF StepAt
    <2>5. ASSUME NEW i \in 0..n PROVE g[i] = h[i]
      <3>1. CASE i = n
        <4>1. i - 1 \in 0..n /\ i - 1 # n /\ i # 0
          BY <1>3, <2>1, <3>1
        <4>2. g[i - 1] = f[n - 1]
          BY <3>1, <4>1
        <4> QED BY <3>1, <4>1, <4>2
      <3>2. CASE i # n
        <4>1. i \in 0..(n - 1) /\ g[i] = f[i]
          BY <2>1, <3>2
        <4>2. f[i] = IF i = 0 THEN base ELSE StepAt(f[i - 1], i)
          BY <2>3, <4>1
        <4>3. CASE i = 0
          BY <4>1, <4>2, <4>3
        <4>4. CASE i # 0
          <5>1. i - 1 \in 0..n /\ i - 1 # n
            BY <2>1, <4>1, <4>4
          <5>2. g[i - 1] = f[i - 1]
            BY <5>1
          <5> QED BY <4>1, <4>2, <4>4, <5>2
        <4> QED BY <4>3, <4>4
      <3> QED BY <3>1, <3>2
    <2>6. g = h
      BY <2>5
    <2>7. IsSweep(g, n, turns, kind, r, base)
      BY <2>4, <2>6 DEF IsSweep
    <2> QED BY <1>1, <2>7
  <1> QED BY <1>2, <1>3


\* The pass of a sync, step by step.
Sweep(kind, r, base) ==
    CHOOSE f : IsSweep(f, Len(Authority(r)), Authority(r), kind, r, base)

\* One turn of the loop: the report at that place, if there is one.
LEMMA SweepStep ==
    ASSUME NEW r \in Reports, NEW kind, NEW base, NEW i \in 1..Cardinality(Reports)
    PROVE  LET f == Sweep(kind, r, base)
               turn == {q \in Formal \cup {r} : Places[q] = i}
           IN  f[i] = IF turn = {} THEN f[i - 1]
                      ELSE Turn(f[i - 1], CHOOSE q \in turn : TRUE, kind, r)
  <1> DEFINE n == Cardinality(Reports)
             turns == Authority(r)
             f == Sweep(kind, r, base)
  <1>1. n \in Nat
    BY LedgerAssumption, FS_CardinalityType
  <1>2. Len(turns) = n /\ turns[i] = {q \in Formal \cup {r} : Places[q] = i}
    BY <1>1 DEF Authority, ByDate
  <1>3. IsSweep(f, n, turns, kind, r, base)
    <2>1. \E g : IsSweep(g, n, turns, kind, r, base)
      BY <1>1, SweepExists
    <2> QED BY <1>2, <2>1 DEF Sweep
  <1>4. i \in 0..n /\ i # 0
    BY <1>1
  <1> HIDE DEF f, turns
  <1>5. f[i] = IF turns[i] = {} THEN f[i - 1]
               ELSE Turn(f[i - 1], CHOOSE q \in turns[i] : TRUE, kind, r)
    BY <1>3, <1>4 DEF IsSweep
  <1> QED BY <1>2, <1>5 DEF f

\* It begins with what it is given, and ends with what the sync takes from it.
LEMMA SweepEnds ==
    ASSUME NEW r \in Reports, NEW kind, NEW base
    PROVE  LET n == Cardinality(Reports)
           IN  /\ Sweep(kind, r, base)[0] = base /\ n \in Nat
               /\ Adopted(r) = Sweep("adopt", r, <<>>)[n]
               /\ Canonical(r) = Sweep("correct", r, Adopted(r))[n]
  <1> DEFINE n == Cardinality(Reports)
             turns == Authority(r)
             f == Sweep(kind, r, base)
  <1>1. n \in Nat
    BY LedgerAssumption, FS_CardinalityType
  <1>2. Len(turns) = n
    BY <1>1 DEF Authority, ByDate
  <1>3. Adopted(r) = Sweep("adopt", r, <<>>)[n]
    BY <1>2 DEF Adopted, Sweep, IsSweep, Turn
  <1>4. Canonical(r) = Sweep("correct", r, Adopted(r))[n]
    <2>1. "correct" # "adopt"
      OBVIOUS
    <2> QED BY <1>2, <2>1 DEF Canonical, Sweep, IsSweep, Turn
  <1>5. IsSweep(f, n, turns, kind, r, base)
    <2>1. \E g : IsSweep(g, n, turns, kind, r, base)
      BY <1>1, SweepExists
    <2> QED BY <1>2, <2>1 DEF Sweep
  <1>6. f[0] = base
    BY <1>1, <1>5 DEF IsSweep
  <1> QED BY <1>1, <1>3, <1>4, <1>6

----------------------------------------------------------------------------
\* The authorities up to a place, and those that speak of a cell.
UpTo(i, r) == {q \in Formal \cup {r} : Places[q] <= i}
SpeaksOf(q, c, r) == IsSource(q, r) /\ c \in DOMAIN Facts(q)
SpeakUpTo(i, c, r) == {q \in UpTo(i, r) : SpeaksOf(q, c, r)}
CorrectUpTo(i, c, r) == {q \in UpTo(i, r) : c \in Corrected(q)}

\* Report q decides the cell among S: its own day's report, or else the earliest.
Decides(q, S, c) == \A p \in S : IF Own(q, c) THEN Own(p, c) => Earlier(q, p)
                                 ELSE ~Own(p, c) /\ Earlier(q, p)

AdoptedIs(claims, i, r) ==
    \A c \in Cells :
        /\ c \in DOMAIN claims <=> SpeakUpTo(i, c, r) # {}
        /\ c \in DOMAIN claims => \E q \in SpeakUpTo(i, c, r) :
              claims[c] = Claim(Facts(q)[c], q) /\ Decides(q, SpeakUpTo(i, c, r), c)

CorrectedIs(claims, base, i, r) ==
    \A c \in Cells :
        /\ CorrectUpTo(i, c, r) = {} =>
              (c \in DOMAIN claims <=> c \in DOMAIN base) /\ (c \in DOMAIN claims => claims[c] = base[c])
        /\ CorrectUpTo(i, c, r) # {} => /\ c \in DOMAIN claims
              /\ \E q \in CorrectUpTo(i, c, r) :
                    /\ claims[c] = Claim(Correction(q, c), q)
                    /\ \A p \in CorrectUpTo(i, c, r) : Earlier(p, q)

\* The next place: nobody, or one more report, which all the others are before.
LEMMA NextPlace ==
    ASSUME NEW r \in Reports, NEW i \in Nat
    PROVE  LET turn == {q \in Formal \cup {r} : Places[q] = i + 1}
               next == CHOOSE q \in turn : TRUE
           IN /\ turn = {} => UpTo(i + 1, r) = UpTo(i, r)
              /\ turn # {} => /\ next \in Reports /\ next \in Formal \cup {r}
                              /\ UpTo(i + 1, r) = UpTo(i, r) \cup {next} /\ next \notin UpTo(i, r)
                              /\ \A p \in UpTo(i, r) : p \in Reports /\ Earlier(p, next) /\ p # next
  <1> DEFINE turn == {q \in Formal \cup {r} : Places[q] = i + 1}
             next == CHOOSE q \in turn : TRUE
  <1>1. \A q \in Formal \cup {r} : q \in Reports
    BY DEF Formal
  <1>2. \A q \in Formal \cup {r} : Places[q] \in Nat
    BY <1>1, PlacesOrder
  <1>3. \A q \in Formal \cup {r} : Places[q] <= i + 1 <=> Places[q] <= i \/ Places[q] = i + 1
    BY <1>2
  <1>4. CASE turn = {}
    BY <1>3, <1>4 DEF UpTo
  <1>5. CASE turn # {}
    <2>1. next \in turn
      BY <1>5
    <2> HIDE DEF next
    <2>2. next \in Reports /\ next \in Formal \cup {r} /\ Places[next] = i + 1
      BY <1>1, <2>1
    <2>3. \A q \in Formal \cup {r} : Places[q] = i + 1 => q = next
      BY <1>1, <2>2, PlacesOrder
    <2>4. UpTo(i + 1, r) = UpTo(i, r) \cup {next}
      BY <1>3, <2>2, <2>3 DEF UpTo
    <2>5. ~(i + 1 <= i)
      OBVIOUS
    <2>6. next \notin UpTo(i, r)
      BY <2>2, <2>5 DEF UpTo
    <2>7. ASSUME NEW p \in UpTo(i, r) PROVE p \in Reports /\ Earlier(p, next) /\ p # next
      <3>1. p \in Formal \cup {r} /\ p \in Reports /\ Places[p] <= i /\ Places[p] \in Nat
        BY <1>1, <1>2 DEF UpTo
      <3>2. Places[p] < Places[next] /\ p # next
        <4> DEFINE a == Places[p]
                   b == Places[next]
        <4>1. a \in Nat /\ a <= i /\ b = i + 1
          BY <2>2, <3>1
        <4> HIDE DEF a, b
        <4>2. a < b
          BY <4>1
        <4>3. p # next
          BY <2>6
        <4> QED BY <4>2, <4>3 DEF a, b
      <3>3. Earlier(p, next)
        BY <2>2, <3>1, <3>2, PlacesOrder
      <3> QED BY <3>1, <3>2, <3>3
    <2> DEFINE before == UpTo(i, r)
               after == UpTo(i + 1, r)
    <2>8. /\ next \in Reports /\ next \in Formal \cup {r}
          /\ after = before \cup {next} /\ next \notin before
          /\ \A p \in before : p \in Reports /\ Earlier(p, next) /\ p # next
      BY <2>2, <2>4, <2>6, <2>7
    <2> HIDE DEF before, after
    <2> QED BY <1>5, <2>8 DEF before, after, next
  <1> QED BY <1>4, <1>5

\* One more source.
LEMMA AdoptStep ==
    ASSUME NEW r \in Reports, NEW i \in Nat, NEW claims, AdoptedIs(claims, i, r), NEW next \in Reports,
           UpTo(i + 1, r) = UpTo(i, r) \cup {next},
           \A p \in UpTo(i, r) : p \in Reports /\ Earlier(p, next) /\ p # next
    PROVE  AdoptedIs(Adopt(claims, next, r), i + 1, r)
  <1> DEFINE facts == IF IsSource(next, r) THEN Facts(next) ELSE <<>>
             Takes(c) == c \in DOMAIN facts /\
                            (c \notin DOMAIN claims \/ (Own(next, c) /\ ~Own(claims[c].source, c)))
             new == Adopt(claims, next, r)
  <1>1. new = [c \in DOMAIN claims \cup DOMAIN facts |->
                  IF Takes(c) THEN Claim(facts[c], next) ELSE claims[c]]
    BY DEF Adopt
  <1>2. \A c \in Cells : c \in DOMAIN facts <=> SpeaksOf(next, c, r)
    <2>1. \A c \in Cells : c \notin DOMAIN <<>>
      BY DEF Cells
    <2> QED BY <2>1 DEF SpeaksOf
  <1>3. \A c \in Cells : c \in DOMAIN facts => facts[c] = Facts(next)[c]
    BY <1>2 DEF SpeaksOf
  <1>4. \A c \in Cells : SpeakUpTo(i + 1, c, r) = SpeakUpTo(i, c, r)
                             \cup (IF SpeaksOf(next, c, r) THEN {next} ELSE {})
    BY DEF SpeakUpTo
  <1>5. Earlier(next, next)
    BY EarlierOrders
  <1> SUFFICES ASSUME NEW c \in Cells
               PROVE  /\ c \in DOMAIN new <=> SpeakUpTo(i + 1, c, r) # {}
                      /\ c \in DOMAIN new => \E q \in SpeakUpTo(i + 1, c, r) :
                            new[c] = Claim(Facts(q)[c], q) /\ Decides(q, SpeakUpTo(i + 1, c, r), c)
    BY DEF AdoptedIs
  <1> DEFINE S == SpeakUpTo(i, c, r)
             S2 == SpeakUpTo(i + 1, c, r)
  <1>6. /\ c \in DOMAIN claims <=> S # {}
        /\ c \in DOMAIN claims => \E q \in S : claims[c] = Claim(Facts(q)[c], q) /\ Decides(q, S, c)
    BY DEF AdoptedIs
  <1>7. c \in DOMAIN new <=> c \in DOMAIN claims \/ c \in DOMAIN facts
    BY <1>1
  <1>8. \A p \in S : Earlier(p, next) /\ p # next
    BY DEF SpeakUpTo
  <1>9. S2 = S \cup (IF SpeaksOf(next, c, r) THEN {next} ELSE {})
    BY <1>4
  <1> HIDE DEF new, facts, S, S2
  <1>10. CASE c \notin DOMAIN facts
    <2>1. S2 = S
      BY <1>2, <1>9, <1>10
    <2>2. c \in DOMAIN claims => new[c] = claims[c]
      BY <1>1, <1>10
    <2> QED BY <1>6, <1>7, <1>10, <2>1, <2>2 DEF S, S2
  <1>11. CASE c \in DOMAIN facts
    <2>1. S2 = S \cup {next}
      BY <1>2, <1>9, <1>11
    <2>2. CASE Takes(c)
      <3>1. new[c] = Claim(Facts(next)[c], next)
        BY <1>1, <1>3, <1>11, <2>2
      <3>2. Decides(next, S2, c)
        <4>1. CASE c \notin DOMAIN claims
          BY <1>5, <1>6, <2>1, <4>1 DEF Decides
        <4>2. CASE c \in DOMAIN claims
          <5>1. PICK q \in S : claims[c] = Claim(Facts(q)[c], q) /\ Decides(q, S, c)
            BY <1>6, <4>2
          <5>2. Own(next, c) /\ ~Own(q, c)
            BY <2>2, <4>2, <5>1 DEF Claim
          <5>3. \A p \in S : ~Own(p, c)
            BY <5>1, <5>2 DEF Decides
          <5> QED BY <1>5, <2>1, <5>2, <5>3 DEF Decides
        <4> QED BY <4>1, <4>2
      <3> QED BY <1>7, <1>11, <2>1, <3>1, <3>2 DEF S, S2
    <2>3. CASE ~Takes(c)
      <3>1. c \in DOMAIN claims /\ new[c] = claims[c]
        BY <1>1, <1>11, <2>3
      <3>2. PICK q \in S : claims[c] = Claim(Facts(q)[c], q) /\ Decides(q, S, c)
        BY <1>6, <3>1
      <3>3. Own(next, c) => Own(q, c)
        BY <1>11, <2>3, <3>1, <3>2 DEF Claim
      <3>4. Decides(q, S2, c)
        BY <1>8, <2>1, <3>2, <3>3 DEF Decides
      <3> QED BY <1>7, <2>1, <3>1, <3>2, <3>4 DEF S, S2
    <2> QED BY <2>2, <2>3
  <1> QED BY <1>10, <1>11

\* One more report's corrections.
LEMMA CorrectStep ==
    ASSUME NEW r \in Reports, NEW i \in Nat, NEW claims, NEW base, CorrectedIs(claims, base, i, r),
           NEW next \in Reports, UpTo(i + 1, r) = UpTo(i, r) \cup {next},
           \A p \in UpTo(i, r) : p \in Reports /\ Earlier(p, next) /\ p # next
    PROVE  CorrectedIs(Correct(claims, next), base, i + 1, r)
  <1> DEFINE new == Correct(claims, next)
  <1>1. new = [c \in DOMAIN claims \cup Corrected(next) |->
                  IF c \in Corrected(next) THEN Claim(Correction(next, c), next) ELSE claims[c]]
    BY DEF Correct
  <1>2. Earlier(next, next)
    BY EarlierOrders
  <1> SUFFICES ASSUME NEW c \in Cells
               PROVE  /\ CorrectUpTo(i + 1, c, r) = {} =>
                           (c \in DOMAIN new <=> c \in DOMAIN base) /\ (c \in DOMAIN new => new[c] = base[c])
                      /\ CorrectUpTo(i + 1, c, r) # {} => /\ c \in DOMAIN new
                           /\ \E q \in CorrectUpTo(i + 1, c, r) :
                                 /\ new[c] = Claim(Correction(q, c), q)
                                 /\ \A p \in CorrectUpTo(i + 1, c, r) : Earlier(p, q)
    BY DEF CorrectedIs
  <1> DEFINE S == CorrectUpTo(i, c, r)
             S2 == CorrectUpTo(i + 1, c, r)
  <1>3. /\ S = {} => (c \in DOMAIN claims <=> c \in DOMAIN base) /\ (c \in DOMAIN claims => claims[c] = base[c])
        /\ S # {} => /\ c \in DOMAIN claims
                     /\ \E q \in S : /\ claims[c] = Claim(Correction(q, c), q)
                                     /\ \A p \in S : Earlier(p, q)
    BY DEF CorrectedIs
  <1>4. \A p \in S : Earlier(p, next)
    BY DEF CorrectUpTo
  <1>5. S2 = S \cup (IF c \in Corrected(next) THEN {next} ELSE {})
    BY DEF CorrectUpTo
  <1>6. c \in DOMAIN new <=> c \in DOMAIN claims \/ c \in Corrected(next)
    BY <1>1
  <1> HIDE DEF new, S, S2
  <1>7. CASE c \notin Corrected(next)
    <2>1. S2 = S
      BY <1>5, <1>7
    <2>2. c \in DOMAIN claims => new[c] = claims[c]
      BY <1>1, <1>7
    <2> QED BY <1>3, <1>6, <1>7, <2>1, <2>2 DEF S, S2
  <1>8. CASE c \in Corrected(next)
    <2>1. S2 = S \cup {next}
      BY <1>5, <1>8
    <2>2. new[c] = Claim(Correction(next, c), next)
      BY <1>1, <1>8
    <2> QED BY <1>2, <1>4, <1>6, <1>8, <2>1, <2>2 DEF S2
  <1> QED BY <1>7, <1>8

\* A place at a time, from none to the last: what the reports there have adopted,
LEMMA AdoptedThroughout ==
    ASSUME NEW r \in Reports
    PROVE  AdoptedIs(Adopted(r), Cardinality(Reports), r)
  <1> DEFINE n == Cardinality(Reports)
             f == Sweep("adopt", r, <<>>)
             bad == {i \in 0..n : ~AdoptedIs(f[i], i, r)}
  <1>1. /\ f[0] = <<>> /\ n \in Nat /\ Adopted(r) = f[n]
        /\ \A i \in 1..n : LET turn == {q \in Formal \cup {r} : Places[q] = i}
                           IN f[i] = IF turn = {} THEN f[i - 1]
                                     ELSE Adopt(f[i - 1], CHOOSE q \in turn : TRUE, r)
    <2>1. \A b, q : Turn(b, q, "adopt", r) = Adopt(b, q, r)
      BY DEF Turn
    <2>2. f[0] = <<>> /\ n \in Nat /\ Adopted(r) = f[n]
      BY SweepEnds
    <2>3. ASSUME NEW i \in 1..n
          PROVE  LET turn == {q \in Formal \cup {r} : Places[q] = i}
                 IN  f[i] = IF turn = {} THEN f[i - 1]
                            ELSE Turn(f[i - 1], CHOOSE q \in turn : TRUE, "adopt", r)
      BY SweepStep
    <2> HIDE DEF f
    <2> QED BY <2>1, <2>2, <2>3
  <1> HIDE DEF f
  <1> SUFFICES ASSUME bad # {} PROVE FALSE
    BY <1>1
  <1>2. PICK i \in bad : \A j \in bad : i <= j
    <2>1. bad \in SUBSET Nat
      OBVIOUS
    <2> QED BY <2>1, LeastNatural
  <1>3. CASE i = 0
    <2>1. \A q \in Formal \cup {r} : ~(Places[q] <= 0)
      BY PlacesOrder DEF Formal
    <2>2. \A c \in Cells : SpeakUpTo(0, c, r) = {} /\ c \notin DOMAIN <<>>
      BY <2>1 DEF SpeakUpTo, UpTo, Cells
    <2> QED BY <1>1, <1>2, <1>3, <2>2 DEF AdoptedIs
  <1>4. CASE i # 0
    <2> DEFINE j == i - 1
               turn == {q \in Formal \cup {r} : Places[q] = i}
               next == CHOOSE q \in turn : TRUE
    <2>1. j \in Nat /\ j + 1 = i /\ j \in 0..n /\ ~(i <= j) /\ i \in 1..n
      BY <1>1, <1>2, <1>4
    <2>2. AdoptedIs(f[j], j, r)
      BY <1>2, <2>1
    <2>3. f[i] = IF turn = {} THEN f[j] ELSE Adopt(f[j], next, r)
      BY <1>1, <2>1
    <2>4. /\ turn = {} => UpTo(i, r) = UpTo(j, r)
          /\ turn # {} => /\ next \in Reports /\ UpTo(i, r) = UpTo(j, r) \cup {next}
                          /\ \A p \in UpTo(j, r) : p \in Reports /\ Earlier(p, next) /\ p # next
      <3> DEFINE turn2 == {q \in Formal \cup {r} : Places[q] = j + 1}
                 next2 == CHOOSE q \in turn2 : TRUE
      <3>1. /\ turn2 = {} => UpTo(j + 1, r) = UpTo(j, r)
            /\ turn2 # {} => /\ next2 \in Reports /\ UpTo(j + 1, r) = UpTo(j, r) \cup {next2}
                             /\ \A p \in UpTo(j, r) : p \in Reports /\ Earlier(p, next2) /\ p # next2
        BY <2>1, NextPlace
      <3>2. turn2 = turn /\ next2 = next /\ j + 1 = i
        BY <2>1
      <3> HIDE DEF turn2, next2, turn, next, j
      <3> QED BY <3>1, <3>2
    <2> HIDE DEF j, turn, next
    <2>5. CASE turn = {}
      BY <1>2, <2>2, <2>3, <2>4, <2>5 DEF AdoptedIs, SpeakUpTo
    <2>6. CASE turn # {}
      <3>1. AdoptedIs(Adopt(f[j], next, r), j + 1, r)
        BY <2>1, <2>2, <2>4, <2>6, AdoptStep
      <3> QED BY <1>2, <2>1, <2>3, <2>6, <3>1
    <2> QED BY <2>5, <2>6
  <1> QED BY <1>3, <1>4

\* and then what they have corrected.
LEMMA CorrectedThroughout ==
    ASSUME NEW r \in Reports
    PROVE  CorrectedIs(Canonical(r), Adopted(r), Cardinality(Reports), r)
  <1> DEFINE n == Cardinality(Reports)
             base == Adopted(r)
             f == Sweep("correct", r, base)
             bad == {i \in 0..n : ~CorrectedIs(f[i], base, i, r)}
  <1>1. /\ f[0] = base /\ n \in Nat /\ Canonical(r) = f[n]
        /\ \A i \in 1..n : LET turn == {q \in Formal \cup {r} : Places[q] = i}
                           IN f[i] = IF turn = {} THEN f[i - 1]
                                     ELSE Correct(f[i - 1], CHOOSE q \in turn : TRUE)
    <2>1. \A b, q : Turn(b, q, "correct", r) = Correct(b, q)
      BY DEF Turn
    <2>2. f[0] = base /\ n \in Nat /\ Canonical(r) = f[n]
      BY SweepEnds
    <2> HIDE DEF base
    <2>3. ASSUME NEW i \in 1..n
          PROVE  LET turn == {q \in Formal \cup {r} : Places[q] = i}
                 IN  f[i] = IF turn = {} THEN f[i - 1]
                            ELSE Turn(f[i - 1], CHOOSE q \in turn : TRUE, "correct", r)
      BY SweepStep
    <2> HIDE DEF f
    <2> QED BY <2>1, <2>2, <2>3
  <1> HIDE DEF f, base
  <1> SUFFICES ASSUME bad # {} PROVE FALSE
    BY <1>1 DEF base
  <1>2. PICK i \in bad : \A j \in bad : i <= j
    <2>1. bad \in SUBSET Nat
      OBVIOUS
    <2> QED BY <2>1, LeastNatural
  <1>3. CASE i = 0
    <2>1. \A q \in Formal \cup {r} : ~(Places[q] <= 0)
      BY PlacesOrder DEF Formal
    <2>2. \A c \in Cells : CorrectUpTo(0, c, r) = {}
      BY <2>1 DEF CorrectUpTo, UpTo
    <2> QED BY <1>1, <1>2, <1>3, <2>2 DEF CorrectedIs
  <1>4. CASE i # 0
    <2> DEFINE j == i - 1
               turn == {q \in Formal \cup {r} : Places[q] = i}
               next == CHOOSE q \in turn : TRUE
    <2>1. j \in Nat /\ j + 1 = i /\ j \in 0..n /\ ~(i <= j) /\ i \in 1..n
      BY <1>1, <1>2, <1>4
    <2>2. CorrectedIs(f[j], base, j, r)
      BY <1>2, <2>1
    <2>3. f[i] = IF turn = {} THEN f[j] ELSE Correct(f[j], next)
      BY <1>1, <2>1
    <2>4. /\ turn = {} => UpTo(i, r) = UpTo(j, r)
          /\ turn # {} => /\ next \in Reports /\ UpTo(i, r) = UpTo(j, r) \cup {next}
                          /\ \A p \in UpTo(j, r) : p \in Reports /\ Earlier(p, next) /\ p # next
      <3> DEFINE turn2 == {q \in Formal \cup {r} : Places[q] = j + 1}
                 next2 == CHOOSE q \in turn2 : TRUE
      <3>1. /\ turn2 = {} => UpTo(j + 1, r) = UpTo(j, r)
            /\ turn2 # {} => /\ next2 \in Reports /\ UpTo(j + 1, r) = UpTo(j, r) \cup {next2}
                             /\ \A p \in UpTo(j, r) : p \in Reports /\ Earlier(p, next2) /\ p # next2
        BY <2>1, NextPlace
      <3>2. turn2 = turn /\ next2 = next /\ j + 1 = i
        BY <2>1
      <3> HIDE DEF turn2, next2, turn, next, j
      <3> QED BY <3>1, <3>2
    <2> HIDE DEF j, turn, next
    <2>5. CASE turn = {}
      BY <1>2, <2>2, <2>3, <2>4, <2>5 DEF CorrectedIs, CorrectUpTo
    <2>6. CASE turn # {}
      <3>1. CorrectedIs(Correct(f[j], next), base, j + 1, r)
        BY <2>1, <2>2, <2>4, <2>6, CorrectStep
      <3> QED BY <1>2, <2>1, <2>3, <2>6, <3>1
    <2> QED BY <2>5, <2>6
  <1> QED BY <1>3, <1>4

\* What a sync of a verified authority computes is what the reference says.
CanonicalIsReference ==
    \A r \in Formal : edition[r].verified =>
        \A c \in Cells : Sources(c) \cup Correctors(c) # {} =>
            c \in DOMAIN Canonical(r) /\ Canonical(r)[c] = Reference(c)

\* The two loops come to the reference: the corrections over the adopted facts.
LEMMA CanonicalHolds == CanonicalIsReference
  <1> SUFFICES ASSUME NEW r \in Formal, edition[r].verified, NEW c \in Cells,
                      Sources(c) \cup Correctors(c) # {}
               PROVE  c \in DOMAIN Canonical(r) /\ Canonical(r)[c] = Reference(c)
    BY DEF CanonicalIsReference
  <1> DEFINE n == Cardinality(Reports)
  <1>1. r \in Reports /\ Formal \cup {r} = Formal /\ Formal \subseteq Reports
    BY DEF Formal
  <1>2. UpTo(n, r) = Formal
    <2>1. \A q \in Formal : Places[q] <= n
      BY <1>1, PlacesOrder
    <2> QED BY <1>1, <2>1 DEF UpTo
  <1>3. SpeakUpTo(n, c, r) = Sources(c)
    BY <1>2 DEF SpeakUpTo, SpeaksOf, Sources, IsSource
  <1>4. CorrectUpTo(n, c, r) = Correctors(c)
    BY <1>2 DEF CorrectUpTo, Correctors
  <1>5. Sources(c) \subseteq Reports /\ Correctors(c) \subseteq Reports
    BY <1>1 DEF Sources, Correctors
  <1>6. CASE Correctors(c) # {}
    <2>1. c \in DOMAIN Canonical(r)
          /\ \E q \in Correctors(c) : /\ Canonical(r)[c] = Claim(Correction(q, c), q)
                                      /\ \A p \in Correctors(c) : Earlier(p, q)
      BY <1>1, <1>4, <1>6, CorrectedThroughout DEF CorrectedIs
    <2>2. PICK q \in Correctors(c) : /\ Canonical(r)[c] = Claim(Correction(q, c), q)
                                     /\ \A p \in Correctors(c) : Earlier(p, q)
      BY <2>1
    <2>3. \A p \in Correctors(c) : (\A s \in Correctors(c) : Earlier(s, p)) => p = q
      BY <1>5, <2>2, EarlierOrders
    <2>4. Final(Correctors(c)) = q
      BY <2>2, <2>3 DEF Final
    <2> QED BY <1>6, <2>1, <2>2, <2>4 DEF Reference
  <1>7. CASE Correctors(c) = {}
    <2>1. /\ c \in DOMAIN Canonical(r) <=> c \in DOMAIN Adopted(r)
          /\ c \in DOMAIN Canonical(r) => Canonical(r)[c] = Adopted(r)[c]
      BY <1>1, <1>4, <1>7, CorrectedThroughout DEF CorrectedIs
    <2>2. c \in DOMAIN Adopted(r)
          /\ \E q \in Sources(c) : Adopted(r)[c] = Claim(Facts(q)[c], q) /\ Decides(q, Sources(c), c)
      BY <1>1, <1>3, <1>7, AdoptedThroughout DEF AdoptedIs
    <2>3. PICK q \in Sources(c) : Adopted(r)[c] = Claim(Facts(q)[c], q) /\ Decides(q, Sources(c), c)
      BY <2>2
    <2> DEFINE S == IF OwnSources(c) # {} THEN OwnSources(c) ELSE Sources(c)
    <2>4. q \in S /\ S \subseteq Reports /\ \A p \in S : Earlier(q, p)
      <3>1. CASE OwnSources(c) # {}
        <4>1. Own(q, c)
          BY <2>3, <3>1 DEF Decides, OwnSources
        <4> QED BY <1>5, <2>3, <3>1, <4>1 DEF Decides, OwnSources
      <3>2. CASE OwnSources(c) = {}
        <4>1. ~Own(q, c)
          BY <3>2 DEF OwnSources
        <4> QED BY <1>5, <2>3, <3>2, <4>1 DEF Decides
      <3> QED BY <3>1, <3>2
    <2>5. \A p \in S : (\A s \in S : Earlier(p, s)) => p = q
      BY <2>4, EarlierOrders
    <2>6. First(S) = q
      BY <2>4, <2>5 DEF First
    <2>7. Reference(c) = Claim(Facts(q)[c], q)
      BY <1>7, <2>6 DEF Reference
    <2> QED BY <2>1, <2>2, <2>3, <2>7
  <1> QED BY <1>6, <1>7

\* And do so in the next state.
LEMMA CanonicalHoldsNext == CanonicalIsReference'
  BY CanonicalHolds, PTL

----------------------------------------------------------------------------
\* A sync that settles leaves every cell as the reference says.
LEMMA SyncSettles ==
    ASSUME LedgerInv, NEW r \in Reports, r \in Formal', edition' = edition,
           Settles(r), Synced(r, Canonical(r)')
    PROVE  LedgerIsCanonical'
  <1> SUFFICES ASSUME NEW c \in Cells, (Sources(c) \cup Correctors(c) # {})'
               PROVE  (Claim(ledger[c].status, ledger[c].source) = Reference(c))'
    BY DEF LedgerIsCanonical
  <1> DEFINE claims == Canonical(r)'
  <1>1. edition'[r].verified /\ Reliable(r)
    BY DEF Settles
  <1>2. c \in DOMAIN claims /\ claims[c] = Reference(c)'
    BY <1>1, CanonicalHoldsNext DEF CanonicalIsReference
  <1>3. \E status, source : Reference(c)' = [status |-> status, source |-> source]
    <2>1. \A status, source : Claim(status, source) = [status |-> status, source |-> source]
      BY DEF Claim
    <2>2. \E status, source : Reference(c)' = Claim(status, source)
      <3>1. CASE (Correctors(c) # {})'
        BY <3>1 DEF Reference
      <3>2. CASE ~(Correctors(c) # {})'
        BY <3>2 DEF Reference
      <3> QED BY <3>1, <3>2
    <2> QED BY <2>1, <2>2
  <1> HIDE DEF claims
  <1>4. PICK details : ledger'[c] = Rewritten(c, claims[c], details[c.date])
    BY <1>1, <1>2 DEF Synced, claims
  <1>5. ledger'[c].status = claims[c].status /\ ledger'[c].source = claims[c].source
    <2>1. CASE ledger[c] = NoEntry
      BY <1>4, <2>1 DEF Rewritten
    <2>2. CASE ledger[c] # NoEntry
      <3> DEFINE old == ledger[c]
      <3>1. old = [status |-> old.status, source |-> old.source, detail |-> old.detail,
                   market |-> old.market, data |-> old.data]
        BY DEF LedgerInv, IsEntry
      <3>2. ledger'[c] = [old EXCEPT !.status = claims[c].status, !.source = claims[c].source,
                                     !.detail = IF @ = NoReport THEN details[c.date] ELSE @]
        BY <1>4, <2>2 DEF Rewritten
      <3> HIDE DEF old
      <3> QED BY <3>1, <3>2
    <2> QED BY <2>1, <2>2
  <1>6. claims[c] = [status |-> claims[c].status, source |-> claims[c].source]
    BY <1>2, <1>3
  <1> QED BY <1>2, <1>5, <1>6 DEF Claim

\* A report of a set comes first in it, and one comes last.
LEMMA FirstAndFinal ==
    ASSUME NEW S \in SUBSET Reports, S # {}
    PROVE  First(S) \in S /\ Final(S) \in S
  <1> DEFINE n == Cardinality(Reports)
             places == {Places[q] : q \in S}
             fromEnd == {n - Places[q] : q \in S}
  <1>1. n \in Nat /\ \A q \in S : q \in Reports /\ Places[q] \in 1..n
    BY LedgerAssumption, FS_CardinalityType, PlacesOrder
  <1>2. \A p, q \in S : Places[p] <= Places[q] => Earlier(p, q)
    <2> SUFFICES ASSUME NEW p \in S, NEW q \in S, Places[p] <= Places[q] PROVE Earlier(p, q)
      OBVIOUS
    <2>1. Places[p] < Places[q] \/ Places[p] = Places[q]
      BY <1>1
    <2> QED BY <1>1, <2>1, PlacesOrder, EarlierOrders
  <1>3. First(S) \in S
    <2>1. PICK m \in places : \A k \in places : m <= k
      <3>1. places \in SUBSET Nat /\ places # {}
        BY <1>1
      <3> QED BY <3>1, LeastNatural
    <2>2. PICK q \in S : Places[q] = m
      BY <2>1
    <2>3. \A p \in S : Earlier(q, p)
      BY <1>2, <2>1, <2>2
    <2> QED BY <2>3 DEF First
  <1>4. Final(S) \in S
    <2>1. PICK m \in fromEnd : \A k \in fromEnd : m <= k
      <3>1. fromEnd \in SUBSET Nat /\ fromEnd # {}
        BY <1>1
      <3> QED BY <3>1, LeastNatural
    <2>2. PICK q \in S : n - Places[q] = m
      BY <2>1
    <2>3. \A p \in S : Earlier(p, q)
      <3> SUFFICES ASSUME NEW p \in S PROVE Places[p] <= Places[q]
        BY <1>2
      <3>1. m <= n - Places[p]
        BY <2>1
      <3> QED BY <1>1, <2>2, <3>1
    <2> QED BY <2>3 DEF Final
  <1> QED BY <1>3, <1>4

\* Where no authority changes, nor the status and source of a cell, nothing does.
LEMMA SettledStays ==
    ASSUME LedgerIsCanonical, Formal' = Formal, \A q \in Formal : edition'[q] = edition[q],
           settled' => settled,
           \A c \in Cells : /\ ledger'[c].status = ledger[c].status
                            /\ ledger'[c].source = ledger[c].source
    PROVE  LedgerIsCanonical'
  <1> SUFFICES ASSUME settled, NEW c \in Cells, (Sources(c) \cup Correctors(c) # {})'
               PROVE  (Claim(ledger[c].status, ledger[c].source) = Reference(c))'
    BY DEF LedgerIsCanonical
  <1>1. Sources(c)' = Sources(c) /\ \A q \in Formal : Facts(q)' = Facts(q)
    BY DEF Sources, IsSource, Facts, Complete
  <1>2. Correctors(c)' = Correctors(c) /\ \A q \in Formal : Correction(q, c)' = Correction(q, c)
    BY DEF Correctors, Corrected, Correction
  <1>3. OwnSources(c)' = OwnSources(c)
    BY <1>1 DEF OwnSources
  <1>4. Reference(c)' = Reference(c)
    <2>1. Formal \subseteq Reports /\ Sources(c) \subseteq Formal /\ Correctors(c) \subseteq Formal
          /\ OwnSources(c) \subseteq Formal
      BY DEF Formal, Sources, Correctors, OwnSources
    <2>2. CASE Correctors(c) # {}
      <3> DEFINE r == Final(Correctors(c))
      <3>1. r \in Formal /\ r' = r
        <4>1. Correctors(c) \in SUBSET Reports
          BY <2>1
        <4>2. r \in Correctors(c)
          BY <2>2, <4>1, FirstAndFinal
        <4>3. r' = r
          BY <1>2 DEF Final, Earlier
        <4> QED BY <2>1, <4>2, <4>3
      <3>2. Correction(r, c)' = Correction(r, c)
        BY <1>2, <3>1 DEF Correction
      <3> HIDE DEF r
      <3>3. Reference(c) = Claim(Correction(r, c), r) /\ Reference(c)' = Claim(Correction(r, c)', r')
        BY <1>2, <2>2 DEF Reference, r, Claim
      <3> QED BY <3>1, <3>2, <3>3
    <2>3. CASE Correctors(c) = {}
      <3> DEFINE S == IF OwnSources(c) # {} THEN OwnSources(c) ELSE Sources(c)
                 r == First(S)
      <3>1. S # {} /\ S \subseteq Formal /\ S' = S
        BY <1>1, <1>2, <1>3, <2>1, <2>3
      <3>2. r \in Formal /\ r' = r
        <4>1. S \in SUBSET Reports
          BY <2>1, <3>1
        <4>2. First(S) \in S
          BY <3>1, <4>1, FirstAndFinal
        <4>3. First(S)' = First(S)
          BY <3>1 DEF First, Earlier
        <4> QED BY <3>1, <4>2, <4>3
      <3>3. Facts(r)' = Facts(r)
        BY <1>1, <3>2
      <3>4. Reference(c) = Claim(Facts(r)[c], r)
        BY <2>3 DEF Reference
      <3>5. Reference(c)' = Claim(Facts(r)'[c], r')
        BY <1>2, <2>3 DEF Reference, Claim
      <3> HIDE DEF r, S
      <3> QED BY <3>2, <3>3, <3>4, <3>5
    <2> QED BY <2>2, <2>3
  <1> QED BY <1>1, <1>2, <1>4 DEF LedgerIsCanonical, Claim

\* What makes reports authorities has a value for each report.
LedgerFlags ==
    /\ phase \in [Reports -> {"absent", "draft", "published", "rebuilding", "withdrawn"}]
    /\ current \in [Reports -> BOOLEAN] /\ kept \in [Reports -> BOOLEAN]
    /\ edition = [r \in Reports |-> edition[r]]

\* The columns stay functions over the reports.
LEMMA FlagsStep == LedgerFlags /\ [LedgerNext]_ledgerVars => LedgerFlags'
  <1> SUFFICES ASSUME LedgerFlags, [LedgerNext]_ledgerVars PROVE LedgerFlags'
    OBVIOUS
  <1>1. ASSUME NEW r \in Reports, NEW matrix, Parse(r, matrix) \/ Rebuild(r, matrix)
        PROVE  LedgerFlags'
    BY <1>1 DEF Parse, Rebuild, LedgerFlags
  <1>2. ASSUME NEW r \in Reports, BecomesPublished(r) PROVE LedgerFlags'
    BY <1>2 DEF BecomesPublished, LedgerFlags
  <1>3. ASSUME NEW r \in Reports, Withdraw(r) \/ FinishRebuild(r) \/ FailRebuild(r)
        PROVE  LedgerFlags'
    BY <1>3 DEF Withdraw, FinishRebuild, FailRebuild, LedgerFlags
  <1>4. CASE UNCHANGED <<phase, current, kept, edition>>
    BY <1>4 DEF LedgerFlags
  <1> QED BY <1>1, <1>2, <1>3, <1>4 DEF LedgerNext, ledgerVars, Publish, PublishStrict, FreezeSnapshot,
                                        BindMarketDate, StoreBar, RepairMarketFields

\* Every step: the syncs settle, changes of an authority unsettle, and the other
\* steps touch no authority.
LEMMA CanonicalStep ==
    ASSUME LedgerInv, LedgerFlags, LedgerIsCanonical, [LedgerNext]_ledgerVars
    PROVE  LedgerIsCanonical'
  <1> SUFFICES ASSUME settled' PROVE LedgerIsCanonical'
    BY DEF LedgerIsCanonical
  <1>1. ASSUME NEW r \in Reports, PublishStrict(r) PROVE LedgerIsCanonical'
    <2>1. phase'[r] = "published" /\ current'[r]
      BY <1>1 DEF PublishStrict, BecomesPublished, LedgerFlags, Same
    <2>2. r \in Formal'
      BY <2>1 DEF Formal
    <2> QED BY <1>1, <2>2, SyncSettles DEF PublishStrict, BecomesPublished
  <1>2. ASSUME NEW r \in Reports, FinishRebuild(r) PROVE LedgerIsCanonical'
    <2>1. Settles(r) /\ kept[r]
      BY <1>2 DEF FinishRebuild
    <2>2. r \in Formal'
      BY <1>2, <2>1 DEF FinishRebuild, Formal, LedgerFlags
    <2> QED BY <1>2, <2>1, <2>2, SyncSettles DEF FinishRebuild
  <1>3. ASSUME NEW r \in Reports, NEW matrix, Parse(r, matrix) PROVE LedgerIsCanonical'
    <2>1. Formal' = Formal /\ \A q \in Formal : edition'[q] = edition[q]
      BY <1>3 DEF Parse, Formal, LedgerFlags
    <2> QED BY <1>3, <2>1, SettledStays DEF Parse
  <1>4. ASSUME NEW r \in Reports, FailRebuild(r) PROVE LedgerIsCanonical'
    <2>1. Formal' = Formal
      BY <1>4 DEF FailRebuild, Formal, LedgerFlags
    <2> QED BY <1>4, <2>1, SettledStays DEF FailRebuild
  <1>5. CASE UNCHANGED <<phase, current, edition, ledger, settled>>
    <2>1. Formal' = Formal
      BY <1>5 DEF Formal
    <2> QED BY <1>5, <2>1, SettledStays
  <1>6. CASE RepairMarketFields
    <2>1. Formal' = Formal
      BY <1>6 DEF Formal, RepairMarketFields
    <2>2. ASSUME NEW c \in Cells
          PROVE  ledger'[c].status = ledger[c].status /\ ledger'[c].source = ledger[c].source
      <3> DEFINE old == ledger[c]
                 fix == Repaired(c)
      <3>1. ledger'[c] = IF old = NoEntry THEN NoEntry
                         ELSE [old EXCEPT !.market = fix.market, !.data = fix.data]
        BY <1>6 DEF RepairMarketFields
      <3>2. old = [status |-> old.status, source |-> old.source, detail |-> old.detail,
                   market |-> old.market, data |-> old.data]
        BY DEF LedgerInv, IsEntry
      <3> HIDE DEF old, fix
      <3>3. ledger'[c].status = old.status /\ ledger'[c].source = old.source
        BY <3>1, <3>2
      <3> QED BY <3>3 DEF old
    <2> QED BY <1>6, <2>1, <2>2, SettledStays DEF RepairMarketFields
  <1>7. ASSUME NEW r \in Reports, Publish(r) \/ Withdraw(r) \/ \E matrix : Rebuild(r, matrix)
        PROVE  FALSE
    BY <1>7 DEF Publish, Withdraw, Rebuild
  <1> QED BY <1>1, <1>2, <1>3, <1>4, <1>5, <1>6, <1>7 DEF LedgerNext, ledgerVars, FreezeSnapshot,
                                                          BindMarketDate, StoreBar

\* LedgerIsCanonical: after a sync that no change of an authority followed, each
\* cell has the status and the source of the latest correction, or else of the
\* date's own report, or else of the earliest report that speaks of it, in whatever
\* order the reports came and went (sync_path_history).
THEOREM CanonicalLedger == LedgerSpec => []LedgerIsCanonical
  <1>1. LedgerInit => LedgerInv /\ LedgerFlags /\ LedgerIsCanonical
    BY LedgerAssumption, LedgerInitHolds DEF LedgerInit, LedgerFlags, LedgerIsCanonical
  <1>2. (LedgerInv /\ LedgerFlags /\ LedgerIsCanonical) /\ [LedgerNext]_ledgerVars
           => (LedgerInv /\ LedgerFlags /\ LedgerIsCanonical)'
    BY LedgerStep, FlagsStep, CanonicalStep
  <1> QED BY <1>1, <1>2, PTL DEF LedgerSpec

----------------------------------------------------------------------------
(* The quotes                                                               *)

Batch == [Symbols -> Nat]
Stations == {"rest", "want", "ask", "store", "have", "page"}
Visit == [at: Stations, feed: Feeds \cup {NoFeed}, from: Nat, batch: Batch, seen: Batch,
          label: [Symbols -> {"none", "live", "session_latest", "dated"}]]

QuoteTypes ==
    /\ clock \in Instants
    /\ market \in Batch
    /\ entry \in [Feeds -> [until: Nat, batch: Batch]]
    /\ flight \in [Feeds -> Visits \cup {NoVisit}]
    /\ visit \in [Visits -> Visit]
    /\ newest \in [Feeds -> Batch]

\* A visit that is under way is about a feed.
OfFeed == \A v \in Visits : visit[v].at # "rest" => visit[v].feed \in Feeds

\* Who asks holds the feed's lock.
LockedWhileAsking == \A v \in Visits : visit[v].at \in {"ask", "store"} => flight[visit[v].feed] = v

\* No batch has a quote that the exchange has not made.
Within(batch) == \A s \in Symbols : batch[s] <= market[s]
OfMarket == /\ \A f \in Feeds : Within(entry[f].batch) /\ Within(newest[f])
            /\ \A v \in Visits : Within(visit[v].batch)

\* No quote of later precedes the one that earlier has of the same symbol.
NotBehind(later, earlier) == \A s \in Symbols : later[s] # None => later[s] >= earlier[s]

Holds(v) == visit[v].at \in {"have", "page"}

\* The batch is not behind anything a reader of the feed has, or has been shown.
Leads(batch, f) == /\ NotBehind(batch, newest[f])
                   /\ \A w \in Visits : Holds(w) /\ visit[w].feed = f => NotBehind(batch, visit[w].batch)

\* What is stored leads its feed, and what is about to be stored leads it too
\* and is not behind what is stored.
EntriesLead == \A f \in Feeds : Leads(entry[f].batch, f)
AnswersLead == \A v \in Visits : visit[v].at = "store" =>
                  /\ Leads(visit[v].batch, visit[v].feed)
                  /\ NotBehind(visit[v].batch, entry[visit[v].feed].batch)

\* What a visit compares with has been shown before it began; what it holds
\* is not behind that.
SeenBefore == \A v \in Visits :
    /\ visit[v].at \in {"want", "ask", "store"} =>
          \A s \in Symbols : visit[v].seen[s] <= newest[visit[v].feed][s]
    /\ Holds(v) => NotBehind(visit[v].batch, visit[v].seen)

QuoteInv == /\ QuoteTypes /\ OfFeed /\ LockedWhileAsking /\ OfMarket
            /\ EntriesLead /\ AnswersLead /\ SeenBefore /\ HonestQuotes

----------------------------------------------------------------------------
\* The first instant is one.
LEMMA FirstInstant ==
    LET first == CHOOSE t \in Instants : \A u \in Instants : t <= u IN first \in Instants
  <1>1. PICK m \in Instants : \A n \in Instants : <<n, m>> \notin OpToRel(<, Nat)
    BY InstantAssumption, WFMin, NatLessThanWellFounded, Zenon
  <1>2. \A n \in Instants : ~(n < m)
    BY <1>1, InstantAssumption, Zenon DEF OpToRel
  <1>3. \A n \in Instants : m <= n
    BY <1>2, InstantAssumption
  <1> QED BY <1>3

\* A visit that has not begun.
LEMMA RestIsVisit == Rest \in Visit /\ Rest.at = "rest" /\ NoBatch \in Batch
  BY DEF Rest, Visit, NoBatch, Batch, None, Stations

\* A visit, column by column.
Page(at, feed, from, batch, seen, label) ==
    [at |-> at, feed |-> feed, from |-> from, batch |-> batch, seen |-> seen, label |-> label]

Unlabelled == [s \in Symbols |-> "none"]
\* The labels of a page that is not shown yet.
LEMMA UnlabelledType == Unlabelled \in [Symbols -> {"none", "live", "session_latest", "dated"}]
  BY DEF Unlabelled

\* A visit is made of its columns.
LEMMA PageIsVisit ==
    ASSUME NEW at \in Stations, NEW feed \in Feeds \cup {NoFeed}, NEW from \in Nat,
           NEW batch \in Batch, NEW seen \in Batch,
           NEW label \in [Symbols -> {"none", "live", "session_latest", "dated"}]
    PROVE  LET new == Page(at, feed, from, batch, seen, label)
           IN  /\ new \in Visit /\ new.at = at /\ new.feed = feed /\ new.from = from
               /\ new.batch = batch /\ new.seen = seen /\ new.label = label
  BY DEF Page, Visit

\* Before the first visit the invariant holds.
LEMMA QuotesInitHolds == QuotesInit => QuoteInv
  <1> SUFFICES ASSUME QuotesInit PROVE QuoteInv
    OBVIOUS
  <1>1. clock \in Instants /\ clock \in Nat
    BY FirstInstant, InstantAssumption DEF QuotesInit
  <1>2. /\ \A v \in Visits : visit[v] = Rest
        /\ \A f \in Feeds : entry[f].batch = NoBatch /\ newest[f] = NoBatch
    BY DEF QuotesInit
  <1>3. QuoteTypes
    BY <1>1, RestIsVisit DEF QuotesInit, QuoteTypes, Batch
  <1>4. OfFeed /\ LockedWhileAsking /\ AnswersLead /\ SeenBefore /\ HonestQuotes
    <2>1. \A v \in Visits : visit[v].at = "rest"
      BY <1>2, RestIsVisit
    <2> QED BY <2>1 DEF OfFeed, LockedWhileAsking, AnswersLead, SeenBefore, HonestQuotes, Holds
  <1>5. OfMarket
    <2>1. Rest.batch = NoBatch
      BY DEF Rest
    <2>2. Within(NoBatch)
      BY <1>1 DEF QuotesInit, Within, NoBatch, None
    <2>3. \A v \in Visits : visit[v].batch = NoBatch
      BY <1>2, <2>1
    <2> QED BY <1>2, <2>2, <2>3 DEF OfMarket
  <1>6. EntriesLead
    BY <1>2 DEF EntriesLead, Leads, NotBehind, NoBatch, None
  <1> QED BY <1>3, <1>4, <1>5, <1>6 DEF QuoteInv

\* What the invariant says of one visit and its feed.
LEMMA VisitFacts ==
    ASSUME QuoteInv, NEW v \in Visits
    PROVE  /\ visit[v] \in Visit /\ visit[v].batch \in Batch /\ visit[v].seen \in Batch
           /\ visit[v].from \in Nat /\ Within(visit[v].batch)
           /\ visit[v].at # "rest" =>
                 visit[v].feed \in Feeds /\ newest[visit[v].feed] \in Batch
                 /\ entry[visit[v].feed] \in [until: Nat, batch: Batch]
                 /\ entry[visit[v].feed].batch \in Batch
           /\ clock \in Nat /\ market \in Batch
  BY InstantAssumption DEF QuoteInv, QuoteTypes, OfFeed, OfMarket, Visit

\* A visit's own step, which leaves clock, market, tables and locks alone.
LEMMA LookKeeps ==
    ASSUME QuoteInv, NEW v \in Visits, NEW f \in Feeds, Look(v, f)
    PROVE  QuoteInv'
  <1> DEFINE new == visit'[v]
  <1>1. /\ clock \in Nat /\ newest[f] \in Batch /\ entry[f].batch \in Batch
        /\ Rest \in Visit /\ NoBatch \in Batch /\ Within(entry[f].batch)
        /\ UNCHANGED <<clock, market, entry, flight, newest>>
    BY VisitFacts, RestIsVisit, InstantAssumption DEF QuoteInv, QuoteTypes, OfMarket, Look
  <1>2. /\ new \in Visit /\ new.feed = f /\ new.seen = newest[f]
        /\ \/ new.at = "have" /\ new.batch = entry[f].batch
           \/ new.at = "want" /\ new.batch = NoBatch
        /\ visit' = [visit EXCEPT ![v] = new]
    <2>1. CASE Unexpired(f)
      <3>1. visit' = [visit EXCEPT ![v] = [Rest EXCEPT !.at = "have", !.feed = f,
                                             !.batch = entry[f].batch, !.seen = newest[f]]]
        BY <2>1 DEF Look, Given
      <3>2. new = [Rest EXCEPT !.at = "have", !.feed = f, !.batch = entry[f].batch, !.seen = newest[f]]
        BY <3>1 DEF QuoteInv, QuoteTypes
      <3>3. new = Page("have", f, 0, entry[f].batch, newest[f], Unlabelled)
        BY <3>2 DEF Rest, Page, Unlabelled
      <3> HIDE DEF new
      <3>4. /\ new \in Visit /\ new.at = "have" /\ new.feed = f
            /\ new.seen = newest[f] /\ new.batch = entry[f].batch
        BY <1>1, <3>3, PageIsVisit, UnlabelledType DEF Stations
      <3> QED BY <3>1, <3>2, <3>4
    <2>2. CASE ~Unexpired(f)
      <3>1. visit' = [visit EXCEPT ![v] = [Rest EXCEPT !.at = "want", !.feed = f, !.seen = newest[f]]]
        BY <2>2 DEF Look
      <3>2. new = [Rest EXCEPT !.at = "want", !.feed = f, !.seen = newest[f]]
        BY <3>1 DEF QuoteInv, QuoteTypes
      <3>3. new = Page("want", f, 0, NoBatch, newest[f], Unlabelled)
        BY <3>2 DEF Rest, Page, Unlabelled
      <3> HIDE DEF new
      <3>4. /\ new \in Visit /\ new.at = "want" /\ new.feed = f
            /\ new.seen = newest[f] /\ new.batch = NoBatch
        BY <1>1, <3>3, PageIsVisit, UnlabelledType DEF Stations
      <3> QED BY <3>1, <3>2, <3>4
    <2> QED BY <2>1, <2>2
  <1> HIDE DEF new
  <1>3. \A w \in Visits : visit'[w] = IF w = v THEN new ELSE visit[w]
    BY <1>2 DEF QuoteInv, QuoteTypes
  <1>4. QuoteTypes'
    BY <1>1, <1>2 DEF QuoteInv, QuoteTypes
  <1>5. OfFeed' /\ LockedWhileAsking' /\ HonestQuotes'
    BY <1>1, <1>2, <1>3 DEF QuoteInv, OfFeed, LockedWhileAsking, HonestQuotes
  <1>6. OfMarket'
    <2>1. Within(new.batch)
      BY <1>1, <1>2, VisitFacts DEF Within, NoBatch, None, Batch
    <2> QED BY <1>1, <1>3, <2>1 DEF QuoteInv, OfMarket, Within
  <1>7. NotBehind(entry[f].batch, entry[f].batch)
    BY <1>1 DEF NotBehind, Batch
  <1>8. EntriesLead'
    BY <1>1, <1>2, <1>3, <1>7 DEF QuoteInv, EntriesLead, Leads, Holds, NotBehind
  <1>9. AnswersLead'
    BY <1>1, <1>2, <1>3 DEF QuoteInv, AnswersLead, Leads, Holds, NotBehind
  <1>10. SeenBefore'
    <2>1. NotBehind(entry[f].batch, newest[f])
      BY DEF QuoteInv, EntriesLead, Leads
    <2>2. \A s \in Symbols : newest[f][s] <= newest[f][s]
      BY <1>1 DEF Batch
    <2> QED BY <1>1, <1>2, <1>3, <2>1, <2>2 DEF QuoteInv, SeenBefore, Holds, NotBehind
  <1> QED BY <1>4, <1>5, <1>6, <1>8, <1>9, <1>10 DEF QuoteInv

\* The second look: another visit's answer, or a request under the lock.
LEMMA EnterKeeps ==
    ASSUME QuoteInv, NEW v \in Visits, Enter(v)
    PROVE  QuoteInv'
  <1> DEFINE f == visit[v].feed
             new == visit'[v]
  <1>1. /\ f \in Feeds /\ visit[v] \in Visit /\ newest[f] \in Batch /\ entry[f].batch \in Batch
        /\ visit[v].batch \in Batch /\ visit[v].seen \in Batch /\ clock \in Nat
        /\ Within(entry[f].batch) /\ Within(visit[v].batch)
        /\ UNCHANGED <<clock, market, entry, newest>>
        /\ visit[v].at = "want" /\ flight[f] = NoVisit
    BY VisitFacts DEF Enter, QuoteInv, OfMarket
  <1>2. /\ new \in Visit /\ new.feed = f /\ new.seen = visit[v].seen
        /\ visit' = [visit EXCEPT ![v] = new]
        /\ \/ new.at = "have" /\ new.batch = entry[f].batch /\ flight' = flight
           \/ new.at = "ask" /\ new.batch = visit[v].batch /\ flight' = [flight EXCEPT ![f] = v]
    <2>1. CASE Unexpired(f)
      <3>1. /\ visit' = [visit EXCEPT ![v] = [Rest EXCEPT !.at = "have", !.feed = f,
                                      !.batch = entry[f].batch, !.seen = visit[v].seen]]
            /\ flight' = flight
        BY <2>1 DEF Enter, Given
      <3>2. new = Page("have", f, 0, entry[f].batch, visit[v].seen, Unlabelled)
        BY <3>1 DEF QuoteInv, QuoteTypes, Rest, Page, Unlabelled
      <3>3. visit' = [visit EXCEPT ![v] = new]
        BY <3>1 DEF QuoteInv, QuoteTypes
      <3> HIDE DEF new
      <3>4. /\ new \in Visit /\ new.at = "have" /\ new.feed = f
            /\ new.seen = visit[v].seen /\ new.batch = entry[f].batch
        BY <1>1, <3>2, PageIsVisit, UnlabelledType DEF Stations
      <3> QED BY <3>1, <3>3, <3>4
    <2>2. CASE ~Unexpired(f)
      <3>1. /\ visit' = [visit EXCEPT ![v].at = "ask", ![v].from = clock]
            /\ flight' = [flight EXCEPT ![f] = v]
        BY <2>2 DEF Enter
      <3>2. /\ new = [visit[v] EXCEPT !.at = "ask", !.from = clock]
            /\ visit' = [visit EXCEPT ![v] = new]
        BY <3>1 DEF QuoteInv, QuoteTypes
      <3> HIDE DEF new
      <3>3. /\ new \in Visit /\ new.at = "ask" /\ new.feed = f
            /\ new.seen = visit[v].seen /\ new.batch = visit[v].batch
        BY <1>1, <3>2 DEF Visit, Stations
      <3> QED BY <3>1, <3>2, <3>3
    <2> QED BY <2>1, <2>2
  <1> HIDE DEF new
  <1>3. \A w \in Visits : visit'[w] = IF w = v THEN new ELSE visit[w]
    BY <1>2 DEF QuoteInv, QuoteTypes
  <1>4. /\ \A g \in Feeds \ {f} : flight'[g] = flight[g]
        /\ new.at = "ask" => flight'[f] = v
        /\ flight' \in [Feeds -> Visits \cup {NoVisit}]
    <2>1. CASE flight' = flight /\ new.at = "have"
      BY <2>1 DEF QuoteInv, QuoteTypes
    <2>2. CASE flight' = [flight EXCEPT ![f] = v]
      BY <1>1, <2>2 DEF QuoteInv, QuoteTypes
    <2> QED BY <1>2, <2>1, <2>2
  <1>5. QuoteTypes'
    <2>1. visit' \in [Visits -> Visit]
      BY <1>2 DEF QuoteInv, QuoteTypes
    <2> QED BY <1>1, <1>4, <2>1 DEF QuoteInv, QuoteTypes
  <1>6. OfFeed' /\ HonestQuotes'
    BY <1>1, <1>2, <1>3 DEF QuoteInv, OfFeed, HonestQuotes
  <1>7. LockedWhileAsking'
    <2> SUFFICES ASSUME NEW w \in Visits, visit'[w].at \in {"ask", "store"}
                 PROVE  flight'[visit'[w].feed] = w
      BY DEF LockedWhileAsking
    <2>1. CASE w = v
      BY <1>2, <1>3, <1>4, <2>1
    <2>2. CASE w # v
      <3>1. visit'[w] = visit[w] /\ visit[w].feed \in Feeds /\ flight[visit[w].feed] = w
        BY <1>3, <2>2 DEF QuoteInv, LockedWhileAsking, OfFeed
      <3>2. visit[w].feed # f
        BY <1>1, <3>1, VisitAssumption
      <3> QED BY <1>4, <3>1, <3>2
    <2> QED BY <2>1, <2>2
  <1>8. OfMarket'
    BY <1>1, <1>2, <1>3 DEF QuoteInv, OfMarket, Within
  <1>9. NotBehind(entry[f].batch, entry[f].batch)
    BY <1>1 DEF NotBehind, Batch
  <1>10. EntriesLead'
    BY <1>1, <1>2, <1>3, <1>9 DEF QuoteInv, EntriesLead, Leads, Holds, NotBehind
  <1>11. AnswersLead'
    <2> SUFFICES ASSUME NEW w \in Visits, visit'[w].at = "store"
                 PROVE  (/\ Leads(visit[w].batch, visit[w].feed)
                         /\ NotBehind(visit[w].batch, entry[visit[w].feed].batch))'
      BY DEF AnswersLead
    <2>1. w # v /\ visit'[w] = visit[w] /\ visit[w].feed # f
      BY <1>1, <1>2, <1>3, VisitAssumption DEF QuoteInv, LockedWhileAsking
    <2> QED BY <1>1, <1>2, <1>3, <2>1 DEF QuoteInv, AnswersLead, Leads, Holds, NotBehind
  <1>12. SeenBefore'
    <2>1. NotBehind(entry[f].batch, visit[v].seen)
      <3>1. NotBehind(entry[f].batch, newest[f])
        BY <1>1 DEF QuoteInv, EntriesLead, Leads
      <3>2. \A s \in Symbols : visit[v].seen[s] <= newest[f][s]
        BY <1>1 DEF QuoteInv, SeenBefore
      <3> QED BY <1>1, <3>1, <3>2 DEF NotBehind, Batch
    <2> QED BY <1>1, <1>2, <1>3, <2>1 DEF QuoteInv, SeenBefore, Holds, NotBehind
  <1> QED BY <1>5, <1>6, <1>7, <1>8, <1>10, <1>11, <1>12 DEF QuoteInv

\* The provider's answer is of the market as it is: nothing of the feed is newer.
LEMMA AnswerKeeps ==
    ASSUME QuoteInv, NEW v \in Visits, Answer(v)
    PROVE  QuoteInv'
  <1> DEFINE f == visit[v].feed
             new == visit'[v]
  <1>1. /\ f \in Feeds /\ visit[v] \in Visit /\ newest[f] \in Batch /\ entry[f].batch \in Batch
        /\ visit[v].seen \in Batch /\ market \in Batch
        /\ UNCHANGED <<clock, market, entry, flight, newest>>
        /\ visit[v].at = "ask"
    BY VisitFacts DEF Answer
  <1>2. PICK failed \in SUBSET Symbols :
          visit' = [visit EXCEPT ![v].at = "store",
                                 ![v].batch = [s \in Symbols |->
                                    IF s \notin failed /\ Accepted(market[s]) THEN market[s] ELSE None]]
    BY DEF Answer
  <1> DEFINE batch == [s \in Symbols |->
                          IF s \notin failed /\ Accepted(market[s]) THEN market[s] ELSE None]
  <1>3. batch \in Batch /\ \A s \in Symbols : batch[s] \in {None, market[s]}
    BY <1>1 DEF Batch, None
  <1>a. visit' = [visit EXCEPT ![v].at = "store", ![v].batch = batch]
    BY <1>2
  <1> HIDE DEF batch
  <1>4. /\ new = [visit[v] EXCEPT !.at = "store", !.batch = batch]
        /\ visit' = [visit EXCEPT ![v] = new]
    BY <1>a DEF QuoteInv, QuoteTypes
  <1> HIDE DEF new
  <1>5. /\ new \in Visit /\ new.at = "store" /\ new.feed = f
        /\ new.seen = visit[v].seen /\ new.batch = batch
    BY <1>1, <1>3, <1>4 DEF Visit, Stations
  <1>6. \A w \in Visits : visit'[w] = IF w = v THEN new ELSE visit[w]
    BY <1>4 DEF QuoteInv, QuoteTypes
  <1>7. QuoteTypes'
    BY <1>1, <1>4, <1>5 DEF QuoteInv, QuoteTypes
  <1>8. OfFeed' /\ HonestQuotes' /\ LockedWhileAsking'
    BY <1>1, <1>5, <1>6 DEF QuoteInv, OfFeed, HonestQuotes, LockedWhileAsking
  <1>9. OfMarket'
    <2>1. Within(batch)
      BY <1>1, <1>3 DEF Within, Batch, None
    <2> QED BY <1>1, <1>5, <1>6, <2>1 DEF QuoteInv, OfMarket, Within
  <1>10. \A earlier \in Batch : Within(earlier) => NotBehind(batch, earlier)
    BY <1>1, <1>3 DEF NotBehind, Within, Batch, None
  <1>11. EntriesLead'
    BY <1>1, <1>5, <1>6 DEF QuoteInv, EntriesLead, Leads, Holds, NotBehind
  <1>12. AnswersLead'
    <2>1. NotBehind(batch, newest[f]) /\ NotBehind(batch, entry[f].batch)
      BY <1>1, <1>10 DEF QuoteInv, OfMarket
    <2>2. \A w \in Visits : NotBehind(batch, visit[w].batch)
      BY <1>10, VisitFacts
    <2> QED BY <1>1, <1>5, <1>6, <2>1, <2>2 DEF QuoteInv, AnswersLead, Leads, Holds, NotBehind
  <1>13. SeenBefore'
    BY <1>1, <1>5, <1>6 DEF QuoteInv, SeenBefore, Holds, NotBehind
  <1> QED BY <1>7, <1>8, <1>9, <1>11, <1>12, <1>13 DEF QuoteInv

\* The answer becomes the feed's value, and its visit is the lock's last user.
LEMMA StoreKeeps ==
    ASSUME QuoteInv, NEW v \in Visits, Store(v)
    PROVE  QuoteInv'
  <1> DEFINE f == visit[v].feed
             new == visit'[v]
             batch == visit[v].batch
             until == visit[v].from + (IF Useful(batch) THEN TtlUseful[f] ELSE TtlUseless[f])
  <1>1. /\ f \in Feeds /\ visit[v] \in Visit /\ newest[f] \in Batch /\ entry[f].batch \in Batch
        /\ batch \in Batch /\ visit[v].seen \in Batch /\ visit[v].from \in Nat
        /\ Within(batch)
        /\ UNCHANGED <<clock, market, newest>>
        /\ visit[v].at = "store" /\ flight[f] = v
    BY VisitFacts DEF Store, QuoteInv, LockedWhileAsking
  <1>2. /\ entry' = [entry EXCEPT ![f] = [until |-> until, batch |-> batch]]
        /\ flight' = [flight EXCEPT ![f] = NoVisit]
        /\ visit' = [visit EXCEPT ![v] = [Rest EXCEPT !.at = "have", !.feed = f,
                                      !.batch = batch, !.seen = visit[v].seen]]
    BY DEF Store, Given
  <1>3. until \in Nat
    BY <1>1, LifeAssumption
  <1> HIDE DEF until
  <1>4. /\ new = Page("have", f, 0, batch, visit[v].seen, Unlabelled)
        /\ visit' = [visit EXCEPT ![v] = new]
    BY <1>2 DEF QuoteInv, QuoteTypes, Rest, Page, Unlabelled
  <1> HIDE DEF new
  <1>5. /\ new \in Visit /\ new.at = "have" /\ new.feed = f
        /\ new.seen = visit[v].seen /\ new.batch = batch
    BY <1>1, <1>4, PageIsVisit, UnlabelledType DEF Stations
  <1> HIDE DEF batch
  <1>6. \A w \in Visits : visit'[w] = IF w = v THEN new ELSE visit[w]
    BY <1>4 DEF QuoteInv, QuoteTypes
  <1>7. \A g \in Feeds : /\ entry'[g].batch = IF g = f THEN batch ELSE entry[g].batch
                         /\ g # f => flight'[g] = flight[g]
    BY <1>2 DEF QuoteInv, QuoteTypes
  <1>8. QuoteTypes'
    <2>1. entry' \in [Feeds -> [until: Nat, batch: Batch]]
      BY <1>1, <1>2, <1>3 DEF QuoteInv, QuoteTypes
    <2>2. flight' \in [Feeds -> Visits \cup {NoVisit}]
      BY <1>2 DEF QuoteInv, QuoteTypes
    <2>3. visit' \in [Visits -> Visit]
      BY <1>4, <1>5 DEF QuoteInv, QuoteTypes
    <2> QED BY <1>1, <2>1, <2>2, <2>3 DEF QuoteInv, QuoteTypes
  <1>9. OfFeed' /\ HonestQuotes'
    BY <1>1, <1>5, <1>6 DEF QuoteInv, OfFeed, HonestQuotes
  <1>10. \A w \in Visits : visit'[w].at \in {"ask", "store"} => w # v /\ visit[w].feed # f
    BY <1>1, <1>5, <1>6 DEF QuoteInv, LockedWhileAsking
  <1>11. LockedWhileAsking'
    BY <1>6, <1>7, <1>10 DEF QuoteInv, LockedWhileAsking, OfFeed
  <1>12. OfMarket'
    BY <1>1, <1>5, <1>6, <1>7 DEF QuoteInv, OfMarket, Within
  <1>13. NotBehind(batch, batch)
    BY <1>1 DEF NotBehind, Batch
  <1>14. Leads(batch, f)
    BY <1>1 DEF QuoteInv, AnswersLead, batch
  <1>15. EntriesLead'
    <2> SUFFICES ASSUME NEW g \in Feeds PROVE Leads(entry[g].batch, g)'
      BY DEF EntriesLead
    <2>1. CASE g = f
      BY <1>1, <1>5, <1>6, <1>7, <1>13, <1>14, <2>1 DEF Leads, Holds, NotBehind
    <2>2. CASE g # f
      BY <1>1, <1>5, <1>6, <1>7, <2>2 DEF QuoteInv, EntriesLead, Leads, Holds, NotBehind
    <2> QED BY <2>1, <2>2
  <1>16. AnswersLead'
    <2> SUFFICES ASSUME NEW w \in Visits, visit'[w].at = "store"
                 PROVE  (/\ Leads(visit[w].batch, visit[w].feed)
                         /\ NotBehind(visit[w].batch, entry[visit[w].feed].batch))'
      BY DEF AnswersLead
    <2>1. /\ w # v /\ visit'[w] = visit[w] /\ visit[w].feed # f /\ visit[w].feed \in Feeds
          /\ visit[w].at = "store"
      BY <1>6, <1>10 DEF QuoteInv, OfFeed
    <2>2. entry'[visit[w].feed].batch = entry[visit[w].feed].batch
      BY <1>7, <2>1
    <2> QED BY <1>1, <1>5, <1>6, <2>1, <2>2 DEF QuoteInv, AnswersLead, Leads, Holds, NotBehind
  <1>17. SeenBefore'
    <2>1. NotBehind(batch, visit[v].seen)
      <3>1. \A s \in Symbols : visit[v].seen[s] <= newest[f][s]
        BY <1>1 DEF QuoteInv, SeenBefore
      <3> QED BY <1>1, <1>14, <3>1 DEF Leads, NotBehind, Batch
    <2> QED BY <1>1, <1>5, <1>6, <2>1 DEF QuoteInv, SeenBefore, Holds, NotBehind
  <1> QED BY <1>8, <1>9, <1>11, <1>12, <1>15, <1>16, <1>17 DEF QuoteInv

\* The sessions follow each other.
LEMMA HoursOfDay ==
    /\ Hour(9, 30) \in Nat /\ Hour(11, 30) \in Nat /\ Hour(13, 0) \in Nat /\ Hour(15, 0) \in Nat
    /\ Hour(9, 30) < Hour(11, 30) /\ Hour(11, 30) < Hour(13, 0) /\ Hour(13, 0) < Hour(15, 0)
  BY DEF Hour

\* A minute of one session is of no other and not before the opening.
LEMMA InOneSpan ==
    ASSUME NEW m \in Nat, NEW a \in Nat, NEW b \in Nat, NEW c \in Nat, NEW d \in Nat,
           a < b, b < c, c < d
    PROVE  /\ m \in a..b - 1 => ~(m < a) /\ m \notin b..c - 1 /\ m \notin c..d - 1
           /\ m \in c..d - 1 => ~(m < a) /\ m \notin a..b - 1 /\ m \notin b..c - 1
  OBVIOUS

\* A label that calls a quote current is right when the page is put together:
\* a pause of the exchange is not continuous trading.
LEMMA LabelsAreHonest ==
    ASSUME NEW q \in Nat, NEW t \in Nat
    PROVE  /\ Display(q, t) \in {"live", "session_latest"} =>
                 t - q <= MaxAge \/ (~Trading(t) /\ SameDay(t, q))
           /\ BoardDisplay(q, t) \in {"live", "session_latest"} => t - q <= MaxAge
           /\ {Display(q, t), BoardDisplay(q, t), ReportDisplay(q)}
                 \subseteq {"none", "live", "session_latest", "dated"}
  <1>1. OfDay(t) \in Nat
    BY DEF OfDay
  <1>2. Trading(t) => Session(t) \in {"morning_trading", "afternoon_trading"}
    <2> DEFINE m == OfDay(t)
    <2> SUFFICES ASSUME Trading(t) PROVE Session(t) \in {"morning_trading", "afternoon_trading"}
      OBVIOUS
    <2>1. Day(t) \in TradingDays
          /\ (m \in Hour(9, 30)..Hour(11, 30) - 1 \/ m \in Hour(13, 0)..Hour(15, 0) - 1)
      BY DEF Trading
    <2>2. CASE m \in Hour(9, 30)..Hour(11, 30) - 1
      <3>1. /\ ~(m < Hour(9, 30)) /\ m \notin Hour(11, 30)..Hour(13, 0) - 1
            /\ m \notin Hour(13, 0)..Hour(15, 0) - 1
        BY <1>1, <2>2, HoursOfDay, InOneSpan
      <3> QED BY <2>1, <2>2, <3>1 DEF Session
    <2>3. CASE m \in Hour(13, 0)..Hour(15, 0) - 1
      <3>1. /\ ~(m < Hour(9, 30)) /\ m \notin Hour(9, 30)..Hour(11, 30) - 1
            /\ m \notin Hour(11, 30)..Hour(13, 0) - 1
        BY <1>1, <2>3, HoursOfDay, InOneSpan
      <3> QED BY <2>1, <2>3, <3>1 DEF Session
    <2> QED BY <2>1, <2>2, <2>3
  <1>3. SameDayAllowed(q, t) => ~Trading(t) /\ SameDay(t, q)
    BY <1>2 DEF SameDayAllowed, SameDay
  <1>4. Display(q, t) \in {"live", "session_latest"} =>
           t - q <= MaxAge \/ (~Trading(t) /\ SameDay(t, q))
    <2>1. t - q \in 0..MaxAge => t - q <= MaxAge
      BY LifeAssumption
    <2>2. Display(q, t) = "live" => t - q \in 0..MaxAge
      BY Zenon DEF Display
    <2>3. Display(q, t) = "session_latest" => SameDayAllowed(q, t)
      BY Zenon DEF Display
    <2> QED BY <1>3, <2>1, <2>2, <2>3
  <1>5. BoardDisplay(q, t) \in {"live", "session_latest"} => t - q <= MaxAge
    BY DEF BoardDisplay
  <1>6. /\ Display(q, t) \in {"none", "live", "session_latest"}
        /\ BoardDisplay(q, t) \in {"none", "live"} /\ ReportDisplay(q) \in {"none", "dated"}
    BY DEF Display, BoardDisplay, ReportDisplay
  <1> QED BY <1>4, <1>5, <1>6

\* The page labels its quotes and tells the reader how new they are.
LEMMA ShowKeeps ==
    ASSUME QuoteInv, NEW v \in Visits, Show(v)
    PROVE  QuoteInv'
  <1> DEFINE f == visit[v].feed
             new == visit'[v]
             batch == visit[v].batch
  <1>1. /\ f \in Feeds /\ visit[v] \in Visit /\ newest[f] \in Batch
        /\ batch \in Batch /\ visit[v].seen \in Batch /\ clock \in Nat
        /\ Within(batch)
        /\ UNCHANGED <<clock, market, entry, flight>>
        /\ visit[v].at = "have"
    BY VisitFacts DEF Show
  <1>2. PICK label \in [Symbols -> {"none", "live", "session_latest", "dated"}] :
          /\ visit' = [visit EXCEPT ![v].at = "page", ![v].from = clock, ![v].label = label]
          /\ \A s \in Symbols : label[s] \in {"live", "session_latest"} =>
                clock - batch[s] <= MaxAge \/ (~Trading(clock) /\ SameDay(clock, batch[s]))
    <2>1. PICK form \in {"core", "board", "report"} :
            visit' = [visit EXCEPT ![v].at = "page", ![v].from = clock,
                        ![v].label = [s \in Symbols |->
                            CASE form = "core"   -> Display(batch[s], clock)
                              [] form = "board"  -> BoardDisplay(batch[s], clock)
                              [] form = "report" -> ReportDisplay(batch[s])]]
      BY DEF Show
    <2>2. \A s \in Symbols : batch[s] \in Nat
      BY <1>1 DEF Batch
    <2> HIDE DEF batch
    <2>3. CASE form = "core"
      <3> DEFINE label == [s \in Symbols |-> Display(batch[s], clock)]
      <3>1. visit' = [visit EXCEPT ![v].at = "page", ![v].from = clock, ![v].label = label]
        BY <2>1, <2>3
      <3>2. \A s \in Symbols :
               /\ Display(batch[s], clock) \in {"none", "live", "session_latest", "dated"}
               /\ Display(batch[s], clock) \in {"live", "session_latest"} =>
                     clock - batch[s] <= MaxAge \/ (~Trading(clock) /\ SameDay(clock, batch[s]))
        BY <1>1, <2>2, LabelsAreHonest
      <3>3. /\ label \in [Symbols -> {"none", "live", "session_latest", "dated"}]
            /\ \A s \in Symbols : label[s] = Display(batch[s], clock)
        BY <3>2
      <3> HIDE DEF label
      <3> QED BY <3>1, <3>2, <3>3
    <2>4. CASE form = "board"
      <3> DEFINE label == [s \in Symbols |-> BoardDisplay(batch[s], clock)]
      <3>1. visit' = [visit EXCEPT ![v].at = "page", ![v].from = clock, ![v].label = label]
        BY <2>1, <2>4
      <3>2. \A s \in Symbols :
               /\ BoardDisplay(batch[s], clock) \in {"none", "live", "session_latest", "dated"}
               /\ BoardDisplay(batch[s], clock) \in {"live", "session_latest"} =>
                     clock - batch[s] <= MaxAge
        BY <1>1, <2>2, LabelsAreHonest
      <3>3. /\ label \in [Symbols -> {"none", "live", "session_latest", "dated"}]
            /\ \A s \in Symbols : label[s] = BoardDisplay(batch[s], clock)
        BY <3>2
      <3> HIDE DEF label
      <3> QED BY <3>1, <3>2, <3>3
    <2>5. CASE form = "report"
      <3> DEFINE label == [s \in Symbols |-> ReportDisplay(batch[s])]
      <3>1. visit' = [visit EXCEPT ![v].at = "page", ![v].from = clock, ![v].label = label]
        BY <2>1, <2>5
      <3>2. label \in [Symbols -> {"none", "live", "session_latest", "dated"}]
        BY DEF ReportDisplay
      <3>3. \A s \in Symbols : label[s] \in {"live", "session_latest"} =>
                clock - batch[s] <= MaxAge \/ (~Trading(clock) /\ SameDay(clock, batch[s]))
        BY DEF ReportDisplay
      <3> HIDE DEF label
      <3> QED BY <3>1, <3>2, <3>3
    <2> QED BY <2>3, <2>4, <2>5
  <1>3. /\ new = [visit[v] EXCEPT !.at = "page", !.from = clock, !.label = label]
        /\ visit' = [visit EXCEPT ![v] = new]
    BY <1>2 DEF QuoteInv, QuoteTypes
  <1> HIDE DEF new
  <1>4. /\ new \in Visit /\ new.at = "page" /\ new.feed = f /\ new.from = clock
        /\ new.seen = visit[v].seen /\ new.batch = batch /\ new.label = label
    BY <1>1, <1>2, <1>3 DEF Visit, Stations
  <1>5. \A w \in Visits : visit'[w] = IF w = v THEN new ELSE visit[w]
    BY <1>3 DEF QuoteInv, QuoteTypes
  <1> DEFINE shown == [s \in Symbols |-> IF label[s] = "none" THEN None ELSE batch[s]]
             later == [s \in Symbols |-> IF shown[s] > newest[f][s] THEN shown[s] ELSE newest[f][s]]
  <1>6. newest' = [newest EXCEPT ![f] = later]
    <2>1. \A s \in Symbols : PrintedQuote(v, s)' = shown[s]
      BY <1>4, <1>5 DEF PrintedQuote
    <2>2. newest' = [newest EXCEPT ![f] = [s \in Symbols |->
                        IF PrintedQuote(v, s)' > @[s] THEN PrintedQuote(v, s)' ELSE @[s]]]
      BY DEF Show
    <2> HIDE DEF shown
    <2> QED BY <2>1, <2>2
  <1>7. \A s \in Symbols : shown[s] \in {None, batch[s]}
    OBVIOUS
  <1> HIDE DEF shown
  <1>8. /\ later \in Batch
        /\ \A s \in Symbols : later[s] \in {newest[f][s], batch[s]} /\ newest[f][s] <= later[s]
    BY <1>1, <1>7 DEF Batch, None
  <1> HIDE DEF later, batch
  <1>9. \A g \in Feeds : newest'[g] = IF g = f THEN later ELSE newest[g]
    BY <1>6 DEF QuoteInv, QuoteTypes
  <1>10. QuoteTypes'
    <2>1. newest' \in [Feeds -> Batch]
      BY <1>6, <1>8 DEF QuoteInv, QuoteTypes
    <2>2. visit' \in [Visits -> Visit]
      BY <1>3, <1>4 DEF QuoteInv, QuoteTypes
    <2> QED BY <1>1, <2>1, <2>2 DEF QuoteInv, QuoteTypes
  <1>11. OfFeed' /\ LockedWhileAsking'
    BY <1>1, <1>4, <1>5 DEF QuoteInv, OfFeed, LockedWhileAsking
  <1>12. OfMarket'
    <2>1. Within(newest[f]) /\ Within(batch)
      BY <1>1 DEF QuoteInv, OfMarket
    <2>2. Within(later)
      BY <1>8, <2>1 DEF Within
    <2> QED BY <1>1, <1>4, <1>5, <1>9, <2>2 DEF QuoteInv, OfMarket, Within
  <1>13. \A other : NotBehind(other, newest[f]) /\ NotBehind(other, batch) => NotBehind(other, later)
    BY <1>8 DEF NotBehind
  <1>14. EntriesLead'
    <2> SUFFICES ASSUME NEW g \in Feeds PROVE Leads(entry[g].batch, g)'
      BY DEF EntriesLead
    <2>1. Leads(entry[g].batch, g)
      BY DEF QuoteInv, EntriesLead
    <2>2. NotBehind(entry[g].batch, newest'[g])
      <3>1. CASE g = f
        BY <1>1, <1>9, <1>13, <2>1, <3>1 DEF Leads, Holds, batch
      <3>2. CASE g # f
        BY <1>9, <2>1, <3>2 DEF Leads
      <3> QED BY <3>1, <3>2
    <2>3. \A w \in Visits : Holds(w)' /\ visit'[w].feed = g => NotBehind(entry[g].batch, visit'[w].batch)
      BY <1>1, <1>4, <1>5, <2>1 DEF Leads, Holds, batch
    <2> QED BY <1>1, <2>2, <2>3 DEF Leads, NotBehind
  <1>15. AnswersLead'
    <2> SUFFICES ASSUME NEW w \in Visits, visit'[w].at = "store"
                 PROVE  (/\ Leads(visit[w].batch, visit[w].feed)
                         /\ NotBehind(visit[w].batch, entry[visit[w].feed].batch))'
      BY DEF AnswersLead
    <2> DEFINE g == visit[w].feed
    <2>1. w # v /\ visit'[w] = visit[w] /\ g \in Feeds
      BY <1>4, <1>5 DEF QuoteInv, OfFeed
    <2>2. Leads(visit[w].batch, g) /\ NotBehind(visit[w].batch, entry[g].batch)
      BY <2>1 DEF QuoteInv, AnswersLead
    <2>3. NotBehind(visit[w].batch, newest'[g])
      <3>1. CASE g = f
        BY <1>1, <1>9, <1>13, <2>2, <3>1 DEF Leads, Holds, batch
      <3>2. CASE g # f
        BY <1>9, <2>1, <2>2, <3>2 DEF Leads
      <3> QED BY <3>1, <3>2
    <2>4. \A u \in Visits : Holds(u)' /\ visit'[u].feed = g => NotBehind(visit[w].batch, visit'[u].batch)
      BY <1>1, <1>4, <1>5, <2>2 DEF Leads, Holds, batch
    <2> QED BY <1>1, <2>1, <2>2, <2>3, <2>4 DEF Leads, NotBehind
  <1>16. SeenBefore'
    <2>1. NotBehind(batch, visit[v].seen)
      BY <1>1 DEF QuoteInv, SeenBefore, Holds, batch
    <2>2. ASSUME NEW w \in Visits, visit'[w].at \in {"want", "ask", "store"}, NEW s \in Symbols
          PROVE  visit'[w].seen[s] <= newest'[visit'[w].feed][s]
      <3>1. /\ visit'[w] = visit[w] /\ visit[w].feed \in Feeds
            /\ visit[w].seen[s] <= newest[visit[w].feed][s]
        BY <1>4, <1>5, <2>2 DEF QuoteInv, OfFeed, SeenBefore
      <3>2. /\ newest[visit[w].feed] \in Batch /\ newest'[visit[w].feed] \in Batch
            /\ visit[w].seen \in Batch
        BY <1>10, <3>1, VisitFacts DEF QuoteInv, QuoteTypes
      <3>3. newest[visit[w].feed][s] <= newest'[visit[w].feed][s]
        BY <1>8, <1>9, <3>1, <3>2 DEF Batch
      <3> QED BY <3>1, <3>2, <3>3 DEF Batch
    <2>3. ASSUME NEW w \in Visits, Holds(w)'
          PROVE  NotBehind(visit'[w].batch, visit'[w].seen)
      BY <1>4, <1>5, <2>1, <2>3 DEF QuoteInv, SeenBefore, Holds
    <2> QED BY <2>2, <2>3 DEF SeenBefore, NotBehind
  <1>17. HonestQuotes'
    <2> SUFFICES ASSUME NEW w \in Visits, NEW s \in Symbols, visit'[w].at = "page",
                        visit'[w].label[s] \in {"live", "session_latest"}
                 PROVE  \/ visit'[w].from - visit'[w].batch[s] <= MaxAge
                        \/ ~Trading(visit'[w].from) /\ SameDay(visit'[w].from, visit'[w].batch[s])
      BY DEF HonestQuotes
    <2>1. CASE w = v
      <3>1. /\ visit'[w].from = clock /\ visit'[w].batch = batch /\ visit'[w].label = label
        BY <1>4, <1>5, <2>1
      <3> HIDE DEF batch
      <3> QED BY <1>2, <3>1
    <2>2. CASE w # v
      <3>1. visit'[w] = visit[w]
        BY <1>5, <2>2
      <3> QED BY <3>1 DEF QuoteInv, HonestQuotes
    <2> QED BY <2>1, <2>2
  <1> QED BY <1>10, <1>11, <1>12, <1>14, <1>15, <1>16, <1>17 DEF QuoteInv

\* The reader leaves.
LEMMA LeaveKeeps ==
    ASSUME QuoteInv, NEW v \in Visits, Leave(v)
    PROVE  QuoteInv'
  <1>1. /\ UNCHANGED <<clock, market, entry, flight, newest>>
        /\ \A w \in Visits : visit'[w] = IF w = v THEN Rest ELSE visit[w]
        /\ visit' \in [Visits -> Visit]
    <2>1. visit \in [Visits -> Visit]
      BY DEF QuoteInv, QuoteTypes
    <2>2. /\ UNCHANGED <<clock, market, entry, flight, newest>>
          /\ visit' = [visit EXCEPT ![v] = Rest]
      BY DEF Leave
    <2> HIDE DEF Visit, Rest
    <2> QED BY <2>1, <2>2, RestIsVisit
  <1>2. Rest.at = "rest" /\ Rest.batch = NoBatch
    BY DEF Rest
  <1>3. Within(NoBatch)
    BY VisitFacts DEF Within, NoBatch, None, Batch
  <1>4. QuoteTypes'
    BY <1>1 DEF QuoteInv, QuoteTypes
  <1>5. OfFeed' /\ LockedWhileAsking' /\ HonestQuotes'
    BY <1>1, <1>2 DEF QuoteInv, OfFeed, LockedWhileAsking, HonestQuotes
  <1>6. OfMarket'
    BY <1>1, <1>2, <1>3 DEF QuoteInv, OfMarket, Within
  <1>7. EntriesLead' /\ AnswersLead'
    BY <1>1, <1>2 DEF QuoteInv, EntriesLead, AnswersLead, Leads, Holds, NotBehind
  <1>8. SeenBefore'
    BY <1>1, <1>2 DEF QuoteInv, SeenBefore, Holds, NotBehind
  <1> QED BY <1>4, <1>5, <1>6, <1>7, <1>8 DEF QuoteInv

\* Time passes.
LEMMA PassKeeps ==
    ASSUME QuoteInv, Pass
    PROVE  QuoteInv'
  <1>1. UNCHANGED <<market, entry, flight, visit, newest>> /\ clock' \in Instants
    BY DEF Pass
  <1>2. QuoteTypes' /\ OfFeed' /\ LockedWhileAsking' /\ HonestQuotes'
    BY <1>1 DEF QuoteInv, QuoteTypes, OfFeed, LockedWhileAsking, HonestQuotes
  <1>3. OfMarket' /\ EntriesLead' /\ AnswersLead' /\ SeenBefore'
    BY <1>1 DEF QuoteInv, OfMarket, EntriesLead, AnswersLead, SeenBefore, Within, Leads, Holds, NotBehind
  <1> QED BY <1>2, <1>3 DEF QuoteInv

\* The exchange makes a quote: newer than the one it replaces.
LEMMA TradeKeeps ==
    ASSUME QuoteInv, Trade
    PROVE  QuoteInv'
  <1>1. PICK s \in Symbols, q \in Instants : market[s] < q /\ market' = [market EXCEPT ![s] = q]
    BY DEF Trade
  <1>2. UNCHANGED <<clock, entry, flight, visit, newest>>
    BY DEF Trade
  <1>3. market \in Batch /\ q \in Nat
    BY InstantAssumption DEF QuoteInv, QuoteTypes
  <1>4. market' \in Batch /\ \A r \in Symbols : market[r] <= market'[r]
    BY <1>1, <1>3 DEF Batch
  <1>5. QuoteTypes' /\ OfFeed' /\ LockedWhileAsking' /\ HonestQuotes'
    BY <1>2, <1>4 DEF QuoteInv, QuoteTypes, OfFeed, LockedWhileAsking, HonestQuotes
  <1>6. \A batch \in Batch : Within(batch) => \A r \in Symbols : batch[r] <= market'[r]
    BY <1>3, <1>4 DEF Within, Batch
  <1>7. OfMarket'
    <2>1. /\ \A f \in Feeds : entry[f].batch \in Batch /\ newest[f] \in Batch
          /\ \A v \in Visits : visit[v].batch \in Batch
      BY VisitFacts DEF QuoteInv, QuoteTypes
    <2>2. /\ \A f \in Feeds : Within(entry[f].batch) /\ Within(newest[f])
          /\ \A v \in Visits : Within(visit[v].batch)
      BY DEF QuoteInv, OfMarket
    <2>3. \A f \in Feeds, r \in Symbols : entry[f].batch[r] <= market'[r] /\ newest[f][r] <= market'[r]
      BY <1>6, <2>1, <2>2
    <2>4. \A v \in Visits, r \in Symbols : visit[v].batch[r] <= market'[r]
      BY <1>6, <2>1, <2>2
    <2> QED BY <1>2, <2>3, <2>4 DEF OfMarket, Within
  <1>8. EntriesLead' /\ AnswersLead' /\ SeenBefore'
    BY <1>2 DEF QuoteInv, EntriesLead, AnswersLead, SeenBefore, Leads, Holds, NotBehind
  <1> QED BY <1>5, <1>7, <1>8 DEF QuoteInv

\* Every step keeps the invariant.
LEMMA QuotesNextKeeps == QuoteInv /\ [QuotesNext]_quoteVars => QuoteInv'
  <1> SUFFICES ASSUME QuoteInv, [QuotesNext]_quoteVars PROVE QuoteInv'
    OBVIOUS
  <1>1. CASE \E v \in Visits, f \in Feeds : Look(v, f)
    BY <1>1, LookKeeps
  <1>2. CASE \E v \in Visits : Enter(v)
    BY <1>2, EnterKeeps
  <1>3. CASE \E v \in Visits : Answer(v)
    BY <1>3, AnswerKeeps
  <1>4. CASE \E v \in Visits : Store(v)
    BY <1>4, StoreKeeps
  <1>5. CASE \E v \in Visits : Show(v)
    BY <1>5, ShowKeeps
  <1>6. CASE \E v \in Visits : Leave(v)
    BY <1>6, LeaveKeeps
  <1>7. CASE Pass
    BY <1>7, PassKeeps
  <1>8. CASE Trade
    BY <1>8, TradeKeeps
  <1>9. CASE UNCHANGED quoteVars
    <2>1. UNCHANGED <<clock, market, entry, flight, visit, newest>>
      BY <1>9 DEF quoteVars
    <2>2. QuoteTypes' /\ OfFeed' /\ LockedWhileAsking' /\ HonestQuotes'
      BY <2>1 DEF QuoteInv, QuoteTypes, OfFeed, LockedWhileAsking, HonestQuotes
    <2>3. OfMarket' /\ EntriesLead' /\ AnswersLead' /\ SeenBefore'
      BY <2>1 DEF QuoteInv, OfMarket, EntriesLead, AnswersLead, SeenBefore, Within, Leads, Holds, NotBehind
    <2> QED BY <2>2, <2>3 DEF QuoteInv
  <1> QED BY <1>1, <1>2, <1>3, <1>4, <1>5, <1>6, <1>7, <1>8, <1>9 DEF QuotesNext

\* So the invariant holds throughout.
LEMMA QuotesReach == QuotesSpec => []QuoteInv
  BY QuotesInitHolds, QuotesNextKeeps, PTL DEF QuotesSpec

\* What a page prints is not behind what the visit compares with.
LEMMA PrintedIsNotBehind == QuoteInv => QuotesAdvance
  <1> SUFFICES ASSUME QuoteInv, NEW v \in Visits, NEW s \in Symbols,
                      visit[v].at = "page", PrintedQuote(v, s) # None
               PROVE  PrintedQuote(v, s) >= visit[v].seen[s]
    BY DEF QuotesAdvance
  <1>1. PrintedQuote(v, s) = visit[v].batch[s]
    BY DEF PrintedQuote
  <1> QED BY <1>1 DEF QuoteInv, SeenBefore, Holds, NotBehind

\* Whoever comes after a page sees quotes at least as new as that page's
\* (get_or_fetch), whatever the lifetimes, and however slow an answer is.
THEOREM QuotesAdvanceHolds == QuotesSpec => []QuotesAdvance
  BY QuotesReach, PrintedIsNotBehind, PTL

\* No page calls a quote current that is older than fifteen minutes while the
\* exchange trades, or that is of another day (reader_quote_display,
\* _instrument_payload).
THEOREM HonestQuotesHold == QuotesSpec => []HonestQuotes
  <1>1. QuoteInv => HonestQuotes
    BY DEF QuoteInv
  <1> QED BY <1>1, QuotesReach, PTL

----------------------------------------------------------------------------
(* The interpretation of a PDF                                              *)

\* The one element of a set.
LEMMA TheOne ==
    ASSUME NEW S, IsFiniteSet(S), Single(S) PROVE The(S) \in S
  BY FS_Singleton DEF Single, The

\* A date that is trusted is a date of the text, the file name or the calendar, and
\* not one against the file name.
LEMMA TrustedDate ==
    ASSUME NEW d, NoDate \notin Calendar,
           \A dates \in {d.heading, d.top, d.body, d.file} : IsFiniteSet(dates) /\ NoDate \notin dates,
           DetectReportDate(d).confidence # "low"
    PROVE  /\ DetectReportDate(d).value # NoDate
           /\ d.file # {} => DetectReportDate(d).value \in d.file
  <1> DEFINE years == {Year(date) : date \in d.body}
             named == {date \in Calendar : d.monthDay # 0 /\ Single(years)
                                           /\ date = The(years) * 10000 + d.monthDay}
             found == DetectReportDate(d)
  <1>1. ASSUME NEW dates \in {d.heading, d.top}, Single(dates), found = Titled(The(dates), d.file)
        PROVE  found.value # NoDate /\ (d.file # {} => found.value \in d.file)
    <2>1. The(dates) # NoDate
      BY <1>1, TheOne
    <2> QED BY <1>1, <2>1 DEF Titled, Detected
  <1>2. CASE Single(d.heading)
    BY <1>1, <1>2 DEF DetectReportDate
  <1>3. CASE ~Single(d.heading) /\ Single(d.top)
    BY <1>1, <1>3 DEF DetectReportDate
  <1>4. CASE ~Single(d.heading) /\ ~Single(d.top) /\ Single(d.file)
    <2>1. found = Detected(The(d.file), "filename", "medium", FALSE)
      BY <1>4 DEF DetectReportDate
    <2> QED BY <2>1, <1>4, TheOne DEF Detected
  <1>5. CASE ~Single(d.heading) /\ ~Single(d.top) /\ ~Single(d.file)
    <2>1. d.file = {}
      BY <1>5 DEF DetectReportDate, Detected
    <2> DEFINE latest   == CHOOSE date \in d.body : \A other \in d.body : other <= date
               earliest == CHOOSE date \in d.file : \A other \in d.file : date <= other
               deeper   == IF named # {} THEN Detected(The(named), "filename_cross_checked", "medium", FALSE)
                           ELSE IF Single(d.body) THEN Detected(The(d.body), "pdf_body", "high", FALSE)
                           ELSE IF d.body # {} THEN Detected(latest, "date_conflict", "low", TRUE)
                           ELSE Detected(NoDate, "unavailable", "low", FALSE)
    <2>2. found = deeper
      <3>1. found = IF Single(d.heading) THEN Titled(The(d.heading), d.file)
                    ELSE IF Single(d.top) THEN Titled(The(d.top), d.file)
                    ELSE IF Single(d.file) THEN Detected(The(d.file), "filename", "medium", FALSE)
                    ELSE IF d.file # {} THEN Detected(earliest, "date_conflict", "low", TRUE)
                    ELSE deeper
        BY DEF DetectReportDate
      <3> HIDE DEF deeper, earliest, found
      <3> QED BY <1>5, <2>1, <3>1
    <2>3. named # {} => The(named) \in named
      <3> DEFINE some == named
      <3>1. some # {} => The(some) \in some
        <4> HIDE DEF some
        <4> QED BY DEF The
      <3> QED BY <3>1
    <2>4. NoDate \notin named
      OBVIOUS
    <2>5. found.confidence # "low"
      OBVIOUS
    <2> HIDE DEF named, found, latest
    <2>6. CASE named # {}
      BY <2>1, <2>2, <2>3, <2>4, <2>6 DEF Detected, found
    <2>7. CASE named = {}
      <3>1. Single(d.body) /\ found.value = The(d.body)
        BY <2>2, <2>5, <2>7 DEF Detected
      <3> QED BY <2>1, <3>1, TheOne DEF found
    <2> QED BY <2>6, <2>7
  <1> QED BY <1>2, <1>3, <1>4, <1>5

\* Where the text leaves one core line only, a line that was moved is that one: a
\* move is strong evidence.
LEMMA MovedLine ==
    ASSUME NEW statements, NEW n \in Nat, DOMAIN statements = 1..n,
           NEW i \in 1..n, statements[i].kind = "moved", statements[i].value \in Nat,
           ~DefenseLines(statements).conflict
    PROVE  DefenseLines(statements).primary = statements[i].value
  <1> DEFINE clue(at) == Candidates(statements[at[1]])[at[2]]
             evidence == {at \in (DOMAIN statements) \X {1, 2} :
                             at[2] \in DOMAIN Candidates(statements[at[1]]) /\ clue(at).role = "primary"}
             strong   == {at \in evidence : clue(at).confidence = "high"}
             taken    == IF strong = {} THEN evidence ELSE strong
             values   == {clue(at).value : at \in taken}
             count(v) == Cardinality({at \in taken : clue(at).value = v})
             before(v, w) == count(v) < count(w) \/ (count(v) = count(w) /\ v <= w)
             value    == statements[i].value
             line     == DefenseLine(statements, "primary")
  <1>1. line.value = IF values = {} THEN NoLine
                     ELSE CHOOSE v \in values : \A w \in values : before(w, v)
    BY DEF DefenseLine
  <1>2. line.conflict = (Cardinality(values) > 1)
    BY DEF DefenseLine
  <1>3. <<i, 1>> \in strong /\ clue(<<i, 1>>).value = value
    <2>1. Candidates(statements[i]) = << Evidence(value, "primary", "high"),
                                         Evidence(statements[i].from, "secondary", "high") >>
      BY DEF Candidates
    <2>2. clue(<<i, 1>>) = Evidence(value, "primary", "high") /\ 1 \in DOMAIN Candidates(statements[i])
      BY <2>1
    <2>3. <<i, 1>> \in (DOMAIN statements) \X {1, 2} /\ <<i, 1>>[1] = i /\ <<i, 1>>[2] = 1
      OBVIOUS
    <2> HIDE DEF clue
    <2> QED BY <2>2, <2>3 DEF Evidence
  <1>4. strong # {} /\ taken = strong /\ taken \subseteq (1..n) \X {1, 2}
    <2>1. strong # {}
      BY <1>3
    <2>2. evidence \subseteq (1..n) \X {1, 2} /\ strong \subseteq evidence
      OBVIOUS
    <2> HIDE DEF strong, evidence
    <2> QED BY <2>1, <2>2
  <1> HIDE DEF clue, strong, evidence
  <1>5. value \in values /\ IsFiniteSet(values)
    <2>1. IsFiniteSet({1} \cup {2})
      BY FS_Singleton, FS_AddElement
    <2>2. IsFiniteSet((1..n) \X {1, 2})
      <3>1. IsFiniteSet(1..n) /\ {1, 2} = {1} \cup {2}
        BY FS_Interval
      <3> QED BY <2>1, <3>1, FS_Product
    <2> HIDE DEF taken
    <2>3. IsFiniteSet(taken)
      BY <1>4, <2>2, FS_Subset
    <2> DEFINE f == [at \in taken |-> clue(at).value]
    <2>4. f \in Surjection(taken, values)
      BY DEF Surjection
    <2>5. value \in values
      BY <1>3, <1>4
    <2> HIDE DEF f, values
    <2> QED BY <2>3, <2>4, <2>5, FS_Surjection
  <1>6. ~(Cardinality(values) > 1)
    <2>1. ~line.conflict
      BY DEF DefenseLines
    <2> HIDE DEF values, line
    <2> QED BY <1>2, <2>1, Zenon
  <1>7. values = {value}
    <2> HIDE DEF values, line
    <2>1. Cardinality(values) \in Nat /\ Cardinality(values) # 0
      BY <1>5, FS_CardinalityType, FS_EmptySet
    <2>2. Cardinality(values) = 1
      BY <1>6, <2>1
    <2> QED BY <1>5, <2>2, FS_Singleton
  <1>8. before(value, value)
    OBVIOUS
  <1> HIDE DEF values, line, before
  <1>9. line.value = value
    BY <1>1, <1>7, <1>8
  <1> QED BY <1>9 DEF DefenseLines, line

\* A report that asks nobody's attention is certain of its date, its history and
\* its core line, for all PDFs: what makes any of them doubtful raises an item.
THEOREM UnattendedKnows == ParsingSpec => []UnattendedIsCertain
  <1>1. ParsingInit => UnattendedIsCertain
    BY DEF ParsingInit, Failure, UnattendedIsCertain
  <1>2. ASSUME UnattendedIsCertain, [ParsingNext]_parsingVars PROVE UnattendedIsCertain'
    <2>1. CASE UNCHANGED parsingVars
      <3>1. outcome' = outcome /\ paper' = paper
        BY <2>1 DEF parsingVars
      <3>2. Moved' = Moved
        BY <3>1 DEF Moved
      <3> QED BY <1>2, <3>1, <3>2 DEF UnattendedIsCertain
    <2>2. ASSUME NEW family \in Papers, NEW p \in family, Interpret(p)
          PROVE  UnattendedIsCertain'
      <3> DEFINE date == DetectReportDate(p.dates)
      <3>1. CASE Fails(p, date)
        BY <2>2, <3>1 DEF Interpret, Failure, UnattendedIsCertain
      <3>2. CASE ~Fails(p, date)
        <4>1. PICK matrix, records, items :
                 /\ items = Items(p, date, matrix, records)
                 /\ outcome' = Parsed(p, date, matrix, records, items)
          <5>1. \E given \in {date} :
                   IF Fails(p, given) THEN outcome' = Failure
                   ELSE \E m \in {MatrixOf(p, given)} : \E r \in {Records(p, m, given.value)} :
                        \E i \in {Items(p, given, m, r)} : outcome' = Parsed(p, given, m, r, i)
            BY <2>2 DEF Interpret
          <5> HIDE DEF date
          <5> QED BY <3>2, <5>1
        <4>2. paper' = p
          BY <2>2 DEF Interpret
        <4>3. /\ outcome'.date = date /\ outcome'.matrix = matrix /\ outcome'.items = items
              /\ outcome'.version = Version(p, matrix) /\ outcome'.lines = DefenseLines(p.statements)
          BY <4>1 DEF Parsed
        <4> HIDE DEF date
        <4>4. SUFFICES ASSUME items = {}
              PROVE  /\ date.value # NoDate
                     /\ p.dates.file # {} => date.value \in p.dates.file
                     /\ p.hasHistory => matrix.verified
                     /\ Version(p, matrix) = "V2.9" =>
                           \A s \in Range(p.statements) : s.kind = "moved" =>
                              DefenseLines(p.statements).primary = s.value
          BY <4>2, <4>3 DEF UnattendedIsCertain, Moved
        <4>5. date.confidence # "low" /\ (p.hasHistory => matrix.verified)
          BY <4>1, <4>4 DEF Items, TextItems, MatrixItems, When
        <4>6. Version(p, matrix) = "V2.9" => ~DefenseLines(p.statements).conflict
          BY <4>1, <4>4 DEF Items, LineItems, When
        <4>7. date.value # NoDate /\ (p.dates.file # {} => date.value \in p.dates.file)
          BY <4>5, PaperAssumption, TrustedDate DEF date
        <4>8. ASSUME Version(p, matrix) = "V2.9", NEW s \in Range(p.statements), s.kind = "moved"
              PROVE  DefenseLines(p.statements).primary = s.value
          <5>1. PICK i \in DOMAIN p.statements : s = p.statements[i]
            BY <4>8 DEF Range
          <5> QED BY <4>6, <4>8, <5>1, PaperAssumption, MovedLine
        <4> QED BY <4>5, <4>7, <4>8
      <3> QED BY <3>1, <3>2
    <2> QED BY <1>2, <2>1, <2>2 DEF ParsingNext
  <1> QED BY <1>1, <1>2, PTL DEF ParsingSpec

----------------------------------------------------------------------------
(* The readers together                                                     *)

\* Readers share no state: a behaviour of the readers is one of the cached pages, of
\* the ledger, of the interpretation and of the quotes, and what is proved of each
\* holds of all together.
THEOREM ReadersApart ==
    ReadersSpec => Spec /\ LedgerSpec /\ ParsingSpec /\ QuotesSpec
  <1>1. [ReadersNext]_readersVars => /\ [Next]_vars /\ [LedgerNext]_ledgerVars
                                     /\ [ParsingNext]_parsingVars /\ [QuotesNext]_quoteVars
    BY DEF ReadersNext, readersVars, PagesMove, LedgerMoves, ParsingMoves, QuotesMove
  <1>2. ReadersInit => Init /\ LedgerInit /\ ParsingInit /\ QuotesInit
    BY DEF ReadersInit
  <1> QED BY <1>1, <1>2, PTL DEF ReadersSpec, Spec, LedgerSpec, ParsingSpec, QuotesSpec
=============================================================================
