----------------------------- MODULE BlockList -----------------------------
(***************************************************************************)
(* The DB-backed block/allow-list: the block_list table, the snapshot      *)
(* cache of BlockListStore in the service's process, and its concurrent    *)
(* users: the consumer's checks and the /admin/blocklist endpoints.  One   *)
(* step is one await.                                                      *)
(***************************************************************************)
EXTENDS Naturals, FiniteSets

CONSTANTS
    Addresses, \* recipient addresses
    Domains,   \* their domains
    DomainOf,  \* the domain of each address
    Clients,   \* concurrent calls of the store
    Ttl,       \* block_list_cache_ttl_secs, in ticks
    Nothing,   \* "no snapshot"
    Remote,    \* the rows other processes may change
    MaxWrites  \* bound on the changes of the table

Entries == [kind: {"blocked_email", "allowed_email"}, value: Addresses] \cup
           [kind: {"blocked_domain", "allowed_domain"}, value: Domains]

ASSUME BlockListAssumption ==
    /\ DomainOf \in [Addresses -> Domains]
    /\ Ttl \in Nat \ {0}
    /\ \A snap \in SUBSET Entries : Nothing # snap
    /\ Remote \subseteq Entries
    /\ MaxWrites \in Nat

VARIABLES
    table,  \* the active rows of block_list
    cache,  \* the cached snapshot and its age
    client, \* where each call is, and the rows it has read
    writes, \* changes of the table so far
    recent  \* what the table has held since the last success (history)

vars == <<table, cache, client, writes, recent>>

\* raced (history): the load had read the table before an eviction and stored
\* what it had read after it.
Empty == [snap |-> Nothing, age |-> 0, raced |-> FALSE]
Idle == [pc |-> "idle", snap |-> Nothing, raced |-> FALSE]

Init ==
    /\ table = {}
    /\ cache = Empty
    /\ client = [c \in Clients |-> Idle]
    /\ writes = 0
    /\ recent = {{}}

-----------------------------------------------------------------------------
\* The snapshot's answer for address a.
Has(snap, kind, value) == [kind |-> kind, value |-> value] \in snap

AllowlistMode(snap) == \E e \in snap : e.kind \in {"allowed_email", "allowed_domain"}

Blocked(snap, a) ==
    \/ Has(snap, "blocked_email", a)
    \/ Has(snap, "blocked_domain", DomainOf[a])
    \/ /\ AllowlistMode(snap)
       /\ ~Has(snap, "allowed_email", a)
       /\ ~Has(snap, "allowed_domain", DomainOf[a])

-----------------------------------------------------------------------------
(***************************************************************************)
(* snapshot(): a hit ends the call, a miss reads the table and caches it.  *)
(***************************************************************************)

\* Mutant of Hit: time_to_idle instead of time_to_live.
HitRefreshes(c) ==
    /\ client[c].pc \in {"idle", "warm"}
    /\ cache.snap # Nothing
    /\ cache' = [cache EXCEPT !.age = 0]
    /\ client' = [client EXCEPT ![c] = Idle]
    /\ UNCHANGED <<table, writes, recent>>

Hit(c) ==
    /\ client[c].pc \in {"idle", "warm"}
    /\ cache.snap # Nothing
    /\ client' = [client EXCEPT ![c] = Idle]
    /\ UNCHANGED <<table, cache, writes, recent>>

Miss(c) ==
    /\ client[c].pc \in {"idle", "warm"}
    /\ cache.snap = Nothing
    /\ client' = [client EXCEPT ![c].pc = "load"]
    /\ UNCHANGED <<table, cache, writes, recent>>

\* The SELECT; on an error nothing is cached and the caller fails open.
Load(c) ==
    /\ client[c].pc = "load"
    /\ \/ client' = [client EXCEPT ![c] = [pc |-> "store", snap |-> table, raced |-> FALSE]]
       \/ client' = [client EXCEPT ![c] = Idle]
    /\ UNCHANGED <<table, cache, writes, recent>>

Store(c) ==
    /\ client[c].pc = "store"
    /\ cache' = [snap |-> client[c].snap, age |-> 0, raced |-> client[c].raced]
    /\ client' = [client EXCEPT ![c] = Idle]
    /\ UNCHANGED <<table, writes, recent>>

-----------------------------------------------------------------------------
(***************************************************************************)
(* The writers.                                                            *)
(***************************************************************************)

\* The statement takes effect.
Change(new) ==
    /\ writes < MaxWrites
    /\ writes' = writes + 1
    /\ table' = new
    /\ recent' = recent \cup {new}

\* The call goes on to invalidate(); or the statement took effect and its
\* answer was lost: the error is returned and nothing is evicted.
Answered(c) ==
    \/ client' = [client EXCEPT ![c].pc = "evict"]
    \/ UNCHANGED client

\* add_entry: insert or reactivate, then evict.
AddEntry(c, e) ==
    /\ client[c] = Idle
    /\ Change(table \cup {e})
    /\ Answered(c)
    /\ UNCHANGED cache

\* Mutant of RemoveEntry: success is answered and the cache is not evicted.
RemoveNoEvict(c, e) ==
    /\ client[c] = Idle
    /\ e \in table
    /\ writes < MaxWrites
    /\ writes' = writes + 1
    /\ table' = table \ {e}
    /\ recent' = {table'}
    /\ UNCHANGED <<client, cache>>

\* remove_entry: NotFound unless an active row matches.
RemoveEntry(c, e) ==
    /\ client[c] = Idle
    /\ e \in table
    /\ Change(table \ {e})
    /\ Answered(c)
    /\ UNCHANGED cache

\* The cache is emptied and call c goes on as new; a load that holds what the
\* table no longer does has raced.
Evicted(c, new) ==
    /\ cache' = Empty
    /\ client' = [d \in Clients |->
          IF d = c THEN new
          ELSE IF client[d].pc = "store" /\ client[d].snap # table
          THEN [client[d] EXCEPT !.raced = TRUE]
          ELSE client[d]]
    /\ recent' = {table}
    /\ UNCHANGED <<table, writes>>

\* invalidate(), as the end of a write or as DELETE /admin/blocklist/cache.
Evict(c) ==
    /\ client[c].pc \in {"idle", "evict"}
    /\ Evicted(c, Idle)

\* POST /admin/blocklist/cache: evict, list, and a check to warm the cache.
Reload(c) ==
    /\ client[c] = Idle
    /\ Evicted(c, [Idle EXCEPT !.pc = "list"])

List(c) ==
    /\ client[c].pc = "list"
    /\ client' = [client EXCEPT ![c].pc = "warm"] \/ client' = [client EXCEPT ![c] = Idle]
    /\ UNCHANGED <<table, cache, writes, recent>>

\* The client has gone: hyper drops the handler's future at its await, and a
\* write that took effect evicts nothing.
Abort(c) ==
    /\ client[c].pc # "idle"
    /\ client' = [client EXCEPT ![c] = Idle]
    /\ UNCHANGED <<table, cache, writes, recent>>

\* The MCP server, another replica or an operator's SQL changes the table:
\* their caches are not this one.
RemoteEdit(e) ==
    /\ Change(IF e \in table THEN table \ {e} ELSE table \cup {e})
    /\ UNCHANGED <<client, cache>>

\* Mutant of Tick: an entry lives one tick longer than its TTL.
TickLate ==
    /\ cache.snap # Nothing
    /\ cache' = IF cache.age + 1 > Ttl THEN Empty ELSE [cache EXCEPT !.age = @ + 1]
    /\ UNCHANGED <<table, client, writes, recent>>

\* Time passes; the entry expires Ttl after it was written.
Tick ==
    /\ cache.snap # Nothing
    /\ cache' = IF cache.age + 1 >= Ttl THEN Empty ELSE [cache EXCEPT !.age = @ + 1]
    /\ UNCHANGED <<table, client, writes, recent>>

-----------------------------------------------------------------------------
Finish(c) ==
    \/ Load(c)
    \/ Store(c)
    \/ List(c)
    \/ client[c].pc = "evict" /\ Evict(c)
    \/ client[c].pc = "warm" /\ (Hit(c) \/ Miss(c))

Next ==
    \/ \E c \in Clients :
         \/ Hit(c) \/ Miss(c) \/ Load(c) \/ Store(c) \/ Evict(c) \/ Reload(c) \/ List(c) \/ Abort(c)
         \/ \E e \in Entries : AddEntry(c, e) \/ RemoveEntry(c, e)
    \/ \E e \in Remote : RemoteEdit(e)
    \/ Tick

Spec == Init /\ [][Next]_vars

\* A call that has begun goes on, and time passes.
Fairness == (\A c \in Clients : WF_vars(Finish(c))) /\ WF_vars(Tick)

FairSpec == Spec /\ Fairness

-----------------------------------------------------------------------------
(***************************************************************************)
(* Properties.                                                             *)
(***************************************************************************)

Snapshots == (SUBSET Entries) \cup {Nothing}

\* The types of the variables; no entry outlives its TTL.
TypeOK ==
    /\ table \subseteq Entries
    /\ cache \in [snap: Snapshots, age: 0 .. Ttl - 1, raced: BOOLEAN]
    /\ client \in [Clients -> [pc: {"idle", "load", "store", "evict", "list", "warm"},
                               snap: Snapshots, raced: BOOLEAN]]
    /\ writes \in 0 .. MaxWrites
    /\ recent \subseteq SUBSET Entries

\* POST and DELETE /admin/blocklist "calls invalidate() ... so the next check
\* reloads from the DB": a check answers from rows that were the active ones
\* at some time since the last write or flush that was answered with success,
\* through lost answers, dropped handlers, edits from outside and other
\* calls' loads; the one exception is a load that spans that eviction.
SuccessIsVisible ==
    cache.snap \in recent \cup {Nothing} \/ cache.raced

\* config/default.toml: "Changes to /admin/blocklist rows propagate within
\* this window": after the last change every check that hits the cache comes
\* to answer as the table does and keeps doing so, whatever stale load was
\* stored and however often the cache is read.
Converges ==
    <>[](cache.snap # Nothing =>
            \A a \in Addresses : Blocked(cache.snap, a) = Blocked(table, a))
=============================================================================
