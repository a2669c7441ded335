-------------------------- MODULE BlockListProofs --------------------------
(***************************************************************************)
(* Proofs about BlockList, for every set of addresses and rows, any number *)
(* of concurrent calls, every TTL and every number of changes.             *)
(***************************************************************************)
EXTENDS BlockList, TLAPS

Cache == [snap: Snapshots, age: 0 .. Ttl - 1, raced: BOOLEAN]
Client == [pc: {"idle", "load", "store", "evict", "list", "warm"},
           snap: Snapshots, raced: BOOLEAN]

\* The table is among what it has held, and so is what a load has read since
\* the last eviction.
LoadIsRecent ==
    /\ table \in recent
    /\ \A c \in Clients : client[c].pc = "store" => client[c].raced \/ client[c].snap \in recent

CacheInv == TypeOK /\ LoadIsRecent /\ SuccessIsVisible

-----------------------------------------------------------------------------
LEMMA BlockListConstants ==
    /\ Empty \in Cache /\ Idle \in Client
    /\ Idle.pc = "idle" /\ Empty.snap = Nothing
    /\ Ttl \in Nat /\ Ttl > 0 /\ MaxWrites \in Nat
<1>1. Ttl \in Nat /\ Ttl > 0 /\ MaxWrites \in Nat
  BY BlockListAssumption DEF BlockListAssumption
<1>2. 0 \in 0 .. Ttl - 1 /\ Nothing \in Snapshots
  BY <1>1 DEF Snapshots
<1> QED BY <1>1, <1>2 DEF Empty, Idle, Cache, Client

LEMMA CacheInit == Init => CacheInv
<1> SUFFICES ASSUME Init PROVE CacheInv
  OBVIOUS
<1>1. cache \in Cache /\ client \in [Clients -> Client]
  BY BlockListConstants DEF Init
<1>2. /\ table \subseteq Entries /\ writes \in 0 .. MaxWrites
      /\ recent \subseteq SUBSET Entries /\ table \in recent
  BY BlockListConstants DEF Init
<1>3. cache.snap = Nothing /\ \A c \in Clients : client[c].pc = "idle"
  BY BlockListConstants DEF Init
<1> QED BY <1>1, <1>2, <1>3
        DEF CacheInv, TypeOK, LoadIsRecent, SuccessIsVisible, Cache, Client

\* A step that changes one call, which holds nothing but recent rows, and may
\* store such rows.
LEMMA OneCallMoves ==
    ASSUME CacheInv, NEW c \in Clients, NEW new \in Client, UNCHANGED <<table, writes, recent>>,
           client' = [client EXCEPT ![c] = new],
           new.pc = "store" => new.raced \/ new.snap \in recent,
           \/ UNCHANGED cache
           \/ cache' \in Cache /\ (cache'.raced \/ cache'.snap \in recent)
    PROVE  CacheInv'
<1>1. client \in [Clients -> Client] /\ cache \in Cache
  BY DEF CacheInv, TypeOK, Client, Cache
<1>2. client' \in [Clients -> Client] /\ cache' \in Cache
  BY <1>1
<1>3. client'[c] = new /\ \A d \in Clients : d # c => client'[d] = client[d]
  BY <1>1
<1>4. TypeOK'
  BY <1>2 DEF CacheInv, TypeOK, Client, Cache
<1>5. LoadIsRecent'
  BY <1>3 DEF CacheInv, LoadIsRecent
<1>6. SuccessIsVisible'
  BY DEF CacheInv, SuccessIsVisible
<1> QED BY <1>4, <1>5, <1>6 DEF CacheInv

\* A change of the table, whoever makes it, adds to what is recent; the call
\* that makes it holds no rows.
LEMMA TableChanges ==
    ASSUME CacheInv, NEW new \in SUBSET Entries, Change(new), UNCHANGED cache,
           client' \in [Clients -> Client],
           \A c \in Clients : client'[c] = client[c] \/ client'[c].pc = "evict"
    PROVE  CacheInv'
<1>1. writes' \in 0 .. MaxWrites /\ table' = new /\ recent' = recent \cup {new}
  BY BlockListConstants DEF CacheInv, TypeOK, Change
<1>2. TypeOK'
  BY <1>1 DEF CacheInv, TypeOK, Client
<1>3. LoadIsRecent' /\ SuccessIsVisible'
  BY <1>1 DEF CacheInv, LoadIsRecent, SuccessIsVisible
<1> QED BY <1>2, <1>3 DEF CacheInv

LEMMA EndpointWrite ==
    ASSUME CacheInv, NEW c \in Clients, NEW new \in SUBSET Entries, Change(new),
           Answered(c), UNCHANGED cache
    PROVE  CacheInv'
<1>1. client \in [Clients -> Client] /\ client[c] \in Client
  BY DEF CacheInv, TypeOK, Client
<1>2. CASE client' = [client EXCEPT ![c].pc = "evict"]
  <2>1. /\ client' \in [Clients -> Client] /\ client'[c].pc = "evict"
        /\ \A d \in Clients : d # c => client'[d] = client[d]
    BY <1>1, <1>2 DEF Client
  <2> QED BY <2>1, TableChanges
<1>3. CASE UNCHANGED client
  BY <1>1, <1>3, TableChanges
<1> QED BY <1>2, <1>3 DEF Answered

LEMMA OutsideWrite ==
    ASSUME CacheInv, NEW e \in Remote, RemoteEdit(e)
    PROVE  CacheInv'
<1> DEFINE new == IF e \in table THEN table \ {e} ELSE table \cup {e}
<1>1. e \in Entries /\ table \subseteq Entries /\ client \in [Clients -> Client]
  BY BlockListAssumption DEF BlockListAssumption, CacheInv, TypeOK, Client
<1>2. new \in SUBSET Entries
  BY <1>1
<1>3. Change(new) /\ UNCHANGED <<client, cache>>
  BY DEF RemoteEdit
<1> HIDE DEF new
<1> QED BY <1>1, <1>2, <1>3, TableChanges

\* An eviction that is answered: nothing is cached, and a load in flight holds
\* the table as it is or has raced.
LEMMA EvictionStep ==
    ASSUME CacheInv, NEW c \in Clients, NEW new \in Client, new.pc # "store",
           Evicted(c, new)
    PROVE  CacheInv'
<1>1. client \in [Clients -> Client] /\ \A d \in Clients : client[d] \in Client
  BY DEF CacheInv, TypeOK, Client
<1>2. \A d \in Clients :
         /\ client'[d] \in Client
         /\ client'[d].pc = "store" => client'[d].raced \/ client'[d].snap = table
  <2> TAKE d \in Clients
  <2>1. CASE d = c
    BY <2>1 DEF Evicted
  <2>2. CASE d # c /\ client[d].pc = "store" /\ client[d].snap # table
    <3>1. client'[d] = [client[d] EXCEPT !.raced = TRUE]
      BY <2>2 DEF Evicted
    <3> QED BY <1>1, <3>1 DEF Client
  <2>3. CASE d # c /\ ~(client[d].pc = "store" /\ client[d].snap # table)
    <3>1. client'[d] = client[d]
      BY <2>3 DEF Evicted
    <3> QED BY <1>1, <2>3, <3>1
  <2> QED BY <2>1, <2>2, <2>3
<1>3. client' \in [Clients -> Client]
  <2>1. client' = [d \in Clients |-> client'[d]]
    BY DEF Evicted
  <2> QED BY <1>2, <2>1
<1>4. cache' \in Cache /\ cache'.snap = Nothing /\ recent' = {table} /\ table' = table
      /\ writes' = writes
  BY BlockListConstants DEF Evicted
<1>5. TypeOK'
  BY <1>3, <1>4 DEF CacheInv, TypeOK, Client, Cache
<1>6. LoadIsRecent' /\ SuccessIsVisible'
  BY <1>2, <1>4 DEF LoadIsRecent, SuccessIsVisible
<1> QED BY <1>5, <1>6 DEF CacheInv

\* Time passes: an entry keeps its content or goes.
LEMMA EntryAges ==
    ASSUME CacheInv, Tick
    PROVE  CacheInv'
<1>1. cache \in Cache /\ cache.age \in 0 .. Ttl - 1 /\ UNCHANGED <<table, client, writes, recent>>
  BY DEF CacheInv, TypeOK, Cache, Tick
<1>2. CASE cache.age + 1 >= Ttl
  BY <1>1, <1>2, BlockListConstants
     DEF Tick, CacheInv, TypeOK, LoadIsRecent, SuccessIsVisible, Cache
<1>3. CASE ~(cache.age + 1 >= Ttl)
  <2>1. cache.age + 1 \in 0 .. Ttl - 1
    BY <1>1, <1>3, BlockListConstants
  <2>2. cache' = [cache EXCEPT !.age = cache.age + 1]
    BY <1>3 DEF Tick
  <2>3. cache' \in Cache /\ cache'.snap = cache.snap /\ cache'.raced = cache.raced
    BY <1>1, <2>1, <2>2 DEF Cache
  <2> QED BY <1>1, <2>3 DEF CacheInv, TypeOK, LoadIsRecent, SuccessIsVisible, Cache
<1> QED BY <1>2, <1>3

LEMMA CallStep ==
    ASSUME CacheInv, NEW c \in Clients,
           Hit(c) \/ Miss(c) \/ Load(c) \/ Store(c) \/ Evict(c) \/ Reload(c) \/ List(c)
           \/ Abort(c)
    PROVE  CacheInv'
<1>1. /\ client \in [Clients -> Client] /\ client[c] \in Client /\ cache \in Cache
      /\ table \in SUBSET Entries
  BY DEF CacheInv, TypeOK, Client, Cache
<1>2. Idle \in Client /\ Idle.pc = "idle"
  BY BlockListConstants
<1>3. \A pc \in {"load", "list", "warm"} :
        /\ [client[c] EXCEPT !.pc = pc] \in Client
        /\ [client[c] EXCEPT !.pc = pc].pc = pc
        /\ [client EXCEPT ![c].pc = pc] = [client EXCEPT ![c] = [client[c] EXCEPT !.pc = pc]]
  BY <1>1 DEF Client
<1>4. CASE Hit(c)
  BY <1>2, <1>4, OneCallMoves DEF Hit
<1>5. CASE Miss(c)
  BY <1>3, <1>5, OneCallMoves DEF Miss
<1>6. CASE Load(c)
  <2> DEFINE new == [pc |-> "store", snap |-> table, raced |-> FALSE]
  <2>1. new \in Client /\ new.snap \in recent
    BY <1>1 DEF Client, Snapshots, CacheInv, LoadIsRecent
  <2>2. CASE client' = [client EXCEPT ![c] = new]
    <3> HIDE DEF new
    <3> QED BY <1>6, <2>1, <2>2, OneCallMoves DEF Load
  <2>3. CASE client' = [client EXCEPT ![c] = Idle]
    BY <1>2, <1>6, <2>3, OneCallMoves DEF Load
  <2> QED BY <1>6, <2>2, <2>3 DEF Load
<1>7. CASE Store(c)
  <2>1. 0 \in 0 .. Ttl - 1
    BY BlockListConstants
  <2>2. cache' \in Cache /\ cache'.raced = client[c].raced /\ cache'.snap = client[c].snap
    BY <1>1, <1>7, <2>1 DEF Store, Cache, Client
  <2>3. cache'.raced \/ cache'.snap \in recent
    BY <1>7, <2>2 DEF Store, CacheInv, LoadIsRecent
  <2> QED BY <1>2, <1>7, <2>2, <2>3, OneCallMoves DEF Store
<1>8. CASE Evict(c)
  BY <1>2, <1>8, EvictionStep DEF Evict
<1>9. CASE Reload(c)
  <2> DEFINE new == [Idle EXCEPT !.pc = "list"]
  <2>1. new \in Client /\ new.pc = "list"
    BY <1>2 DEF Client
  <2>2. Evicted(c, new)
    BY <1>9 DEF Reload
  <2> HIDE DEF new
  <2> QED BY <2>1, <2>2, EvictionStep
<1>10. CASE List(c)
  BY <1>2, <1>3, <1>10, OneCallMoves DEF List
<1>11. CASE Abort(c)
  BY <1>2, <1>11, OneCallMoves DEF Abort
<1> QED BY <1>4, <1>5, <1>6, <1>7, <1>8, <1>9, <1>10, <1>11

LEMMA CacheStep == CacheInv /\ [Next]_vars => CacheInv'
<1> SUFFICES ASSUME CacheInv, [Next]_vars PROVE CacheInv'
  OBVIOUS
<1>1. CASE UNCHANGED vars
  BY <1>1 DEF vars, CacheInv, TypeOK, LoadIsRecent, SuccessIsVisible
<1>2. ASSUME NEW c \in Clients, NEW e \in Entries, AddEntry(c, e) \/ RemoveEntry(c, e)
      PROVE  CacheInv'
  <2>1. table \cup {e} \in SUBSET Entries /\ table \ {e} \in SUBSET Entries
    BY DEF CacheInv, TypeOK
  <2> QED BY <1>2, <2>1, EndpointWrite DEF AddEntry, RemoveEntry
<1> QED BY <1>1, <1>2, CallStep, OutsideWrite, EntryAges DEF Next

-----------------------------------------------------------------------------
\* The types of the variables, and that no snapshot outlives its TTL, for
\* any number of concurrent calls of the store.
THEOREM BlockListTypeCorrect == Spec => []TypeOK
<1>1. CacheInv => TypeOK
  BY DEF CacheInv
<1> QED BY <1>1, CacheInit, CacheStep, PTL DEF Spec

\* What a check sees was in force at some time since the last write or flush
\* of the endpoints that was answered with success, whatever answers are lost
\* and handlers dropped, unless its load spans that eviction.
THEOREM SnapshotShowsSuccess == Spec => []SuccessIsVisible
<1>1. CacheInv => SuccessIsVisible
  BY DEF CacheInv
<1> QED BY <1>1, CacheInit, CacheStep, PTL DEF Spec
=============================================================================
