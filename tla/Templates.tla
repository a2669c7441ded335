----------------------------- MODULE Templates -----------------------------
(***************************************************************************)
(* The template store: the rows of notification_template, the cache of     *)
(* TemplateStore in the service's process, the consumer's resolve calls,   *)
(* and the endpoints that write rows and evict entries.  The consumer      *)
(* resolves the channel "email" only, so a row is named by its event type. *)
(* One step is one await.                                                  *)
(***************************************************************************)
EXTENDS Naturals

CONSTANTS
    Types,    \* event types
    Contents, \* subject and bodies, as one value
    NoText,   \* "no content"
    Clients,  \* concurrent calls of the store
    NoType,   \* "no event type"
    Remote,   \* the types that other processes may write
    Ttl,      \* template_cache_ttl_secs, in ticks
    MaxWrites \* bound on the writes of the table

ASSUME TemplatesAssumption ==
    /\ NoText \notin Contents
    /\ NoType \notin Types
    /\ Remote \subseteq Types
    /\ Ttl \in Nat \ {0}
    /\ MaxWrites \in Nat

VARIABLES
    table,  \* content, version and active flag of each row
    cache,  \* the cached content of each type, and its age
    client, \* where each call is, its event type and what it has read
    known,  \* the (type, version, content) the table has had (history)
    writes, \* writes of the table so far
    recent  \* what each row has held since the last success (history)

vars == <<table, cache, client, known, writes, recent>>

NoRow == [content |-> NoText, version |-> 0, active |-> FALSE]

\* raced (history): the load had read the row before an eviction and stored
\* what it had read after it.
Empty == [content |-> NoText, age |-> 0, raced |-> FALSE]
Idle == [pc |-> "idle", type |-> NoType, content |-> NoText, raced |-> FALSE]

Init ==
    /\ table = [y \in Types |-> NoRow]
    /\ cache = [y \in Types |-> Empty]
    /\ client = [c \in Clients |-> Idle]
    /\ known = {}
    /\ writes = 0
    /\ recent = [y \in Types |-> {NoText}]

Cached(y) == cache[y].content # NoText

\* What a SELECT of an active row returns.
Current(y) == IF table[y].active THEN table[y].content ELSE NoText

-----------------------------------------------------------------------------
(***************************************************************************)
(* resolve(): a hit, or a SELECT and an insert into the cache.             *)
(***************************************************************************)
Hit(c, y) ==
    /\ client[c] = Idle
    /\ Cached(y)
    /\ UNCHANGED vars

Miss(c, y) ==
    /\ client[c] = Idle
    /\ ~Cached(y)
    /\ client' = [client EXCEPT ![c] = [Idle EXCEPT !.pc = "load", !.type = y]]
    /\ UNCHANGED <<table, cache, known, writes, recent>>

\* No active row, or a database error: the call fails and nothing is cached.
Load(c) ==
    LET content == Current(client[c].type) IN
    /\ client[c].pc = "load"
    /\ \/ /\ content # NoText
          /\ client' = [client EXCEPT ![c].pc = "store", ![c].content = content]
       \/ client' = [client EXCEPT ![c] = Idle]
    /\ UNCHANGED <<table, cache, known, writes, recent>>

Store(c) ==
    /\ client[c].pc = "store"
    /\ cache' = [cache EXCEPT ![client[c].type] =
                    [content |-> client[c].content, age |-> 0, raced |-> client[c].raced]]
    /\ client' = [client EXCEPT ![c] = Idle]
    /\ UNCHANGED <<table, known, writes, recent>>

-----------------------------------------------------------------------------
(***************************************************************************)
(* The writers.                                                            *)
(***************************************************************************)

\* Mutant of Bumped: an edit that only changes the text keeps its version.
BumpedOnToggle(row, content, active) ==
    IF active # row.active THEN row.version + 1 ELSE row.version

\* The CASE of the statements: a new version only for a changed content.
Bumped(row, content, active) ==
    IF content # row.content THEN row.version + 1 ELSE row.version

Write(y, content, active) ==
    LET version == Bumped(table[y], content, active) IN
    /\ writes < MaxWrites
    /\ writes' = writes + 1
    /\ table' = [table EXCEPT ![y] =
                    [content |-> content, version |-> version, active |-> active]]
    /\ known' = known \cup {<<y, version, content>>}
    /\ recent' = [recent EXCEPT ![y] = @ \cup {IF active THEN content ELSE NoText}]

\* The call goes on to invalidate(y); or the statement took effect and its
\* answer was lost: the error is returned and nothing is evicted.
Answered(c, y) ==
    \/ client' = [client EXCEPT ![c] = [Idle EXCEPT !.pc = "scan", !.type = y]]
    \/ UNCHANGED client

\* POST /templates: upsert, then invalidate.
Upsert(c, y, content, active) ==
    /\ client[c] = Idle
    /\ Write(y, content, active)
    /\ Answered(c, y)
    /\ UNCHANGED cache

\* Mutant of Patch: success without an eviction when only active changes.
PatchToggleSilently(c, y, content, active) ==
    /\ client[c] = Idle
    /\ table[y] # NoRow
    /\ IF content # table[y].content
       THEN Write(y, content, active) /\ Answered(c, y)
       ELSE /\ writes < MaxWrites
            /\ writes' = writes + 1
            /\ table' = [table EXCEPT ![y].active = active]
            /\ recent' = [recent EXCEPT ![y] = {IF active THEN content ELSE NoText}]
            /\ UNCHANGED <<client, known>>
    /\ UNCHANGED cache

\* PATCH /templates/:event_type: a field that is absent keeps its value; a
\* row that does not exist is 404 and evicts nothing.
Patch(c, y, content, active) ==
    /\ client[c] = Idle
    /\ table[y] # NoRow
    /\ Write(y, content, active)
    /\ Answered(c, y)
    /\ UNCHANGED cache

\* DELETE /template-cache/:event_type.
Invalidate(c, y) ==
    /\ client[c] = Idle
    /\ client' = [client EXCEPT ![c] = [Idle EXCEPT !.pc = "scan", !.type = y]]
    /\ UNCHANGED <<table, cache, known, writes, recent>>

\* Types ys are evicted and call c answers success; a load that holds what
\* its row no longer does has raced.
Evicted(c, ys) ==
    /\ cache' = [y \in Types |-> IF y \in ys THEN Empty ELSE cache[y]]
    /\ client' = [d \in Clients |->
          IF d = c THEN Idle
          ELSE IF /\ client[d].pc = "store" /\ client[d].type \in ys
                  /\ client[d].content # Current(client[d].type)
          THEN [client[d] EXCEPT !.raced = TRUE]
          ELSE client[d]]
    /\ recent' = [y \in Types |-> IF y \in ys THEN {Current(y)} ELSE recent[y]]
    /\ UNCHANGED <<table, known, writes>>

\* invalidate() first lists the cached keys of the type, of which there may
\* be none ...
Scan(c) ==
    /\ client[c].pc = "scan"
    /\ IF Cached(client[c].type)
       THEN /\ client' = [client EXCEPT ![c].pc = "evict"]
            /\ UNCHANGED <<table, cache, known, writes, recent>>
       ELSE Evicted(c, {client[c].type})

\* ... and then evicts each of them.
Evict(c) ==
    /\ client[c].pc = "evict"
    /\ Evicted(c, {client[c].type})

\* DELETE /template-cache.
InvalidateAll(c) ==
    /\ client[c] = Idle
    /\ Evicted(c, Types)

\* The client has gone: hyper drops the handler's future at its await, and a
\* write that took effect evicts nothing.
Abort(c) ==
    /\ client[c].pc # "idle"
    /\ client' = [client EXCEPT ![c] = Idle]
    /\ UNCHANGED <<table, cache, known, writes, recent>>

\* upsert_template of the MCP server: the same statement, another cache.
RemoteUpsert(y, content, active) ==
    /\ Write(y, content, active)
    /\ UNCHANGED <<client, cache>>

\* Mutant of Tick: an entry lives one tick longer than its TTL.
TickLate(y) ==
    /\ Cached(y)
    /\ cache' = [cache EXCEPT ![y] = IF cache[y].age + 1 > Ttl THEN Empty
                                     ELSE [cache[y] EXCEPT !.age = @ + 1]]
    /\ UNCHANGED <<table, client, known, writes, recent>>

\* Time passes; an entry expires Ttl after it was written.
Tick(y) ==
    /\ Cached(y)
    /\ cache' = [cache EXCEPT ![y] = IF cache[y].age + 1 >= Ttl THEN Empty
                                     ELSE [cache[y] EXCEPT !.age = @ + 1]]
    /\ UNCHANGED <<table, client, known, writes, recent>>

-----------------------------------------------------------------------------
Next ==
    \/ \E c \in Clients :
         \/ Load(c) \/ Store(c) \/ Scan(c) \/ Evict(c) \/ InvalidateAll(c) \/ Abort(c)
         \/ \E y \in Types :
              \/ Hit(c, y) \/ Miss(c, y) \/ Invalidate(c, y)
              \/ \E content \in Contents, active \in BOOLEAN :
                   Upsert(c, y, content, active) \/ Patch(c, y, content, active)
    \/ \E y \in Remote, content \in Contents, active \in BOOLEAN :
         RemoteUpsert(y, content, active)
    \/ \E y \in Types : Tick(y)

Spec == Init /\ [][Next]_vars

-----------------------------------------------------------------------------
(***************************************************************************)
(* Properties.                                                             *)
(***************************************************************************)

\* The types of the variables; no entry outlives its TTL.
TypeOK ==
    /\ table \in [Types -> [content: Contents \cup {NoText}, version: 0 .. MaxWrites,
                            active: BOOLEAN]]
    /\ cache \in [Types -> [content: Contents \cup {NoText}, age: 0 .. Ttl - 1,
                            raced: BOOLEAN]]
    /\ client \in [Clients -> [pc: {"idle", "load", "store", "scan", "evict"},
                               type: Types \cup {NoType},
                               content: Contents \cup {NoText}, raced: BOOLEAN]]
    /\ known \subseteq Types \X (1 .. MaxWrites) \X Contents
    /\ writes \in 0 .. MaxWrites
    /\ recent \in [Types -> SUBSET (Contents \cup {NoText})]

\* README: "After uploading via the API or anctl, the cache is invalidated
\* automatically".  A cached template was the active one at some time since
\* the last write or flush of its type that was answered with success, also
\* when it was disabled, through lost answers, dropped handlers, writes from
\* outside and a scan for keys that finds none; the one exception is a load
\* that spans that eviction.
SuccessIsVisible ==
    \A y \in Types : Cached(y) => cache[y].content \in recent[y] \/ cache[y].raced

\* "version is bumped only when content has actually changed", and always
\* then: through upserts, patches and toggles a version of a template names
\* one content.
VersionNamesContent ==
    \A p, q \in known : p[1] = q[1] /\ p[2] = q[2] => p[3] = q[3]
=============================================================================
