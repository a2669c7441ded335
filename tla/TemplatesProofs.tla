-------------------------- MODULE TemplatesProofs --------------------------
(***************************************************************************)
(* Proofs about Templates, for every set of event types and contents, any  *)
(* number of concurrent calls, every TTL and every number of writes.       *)
(***************************************************************************)
EXTENDS Templates, TLAPS

Texts == Contents \cup {NoText}
Row == [content: Texts, version: 0 .. MaxWrites, active: BOOLEAN]
Entry == [content: Texts, age: 0 .. Ttl - 1, raced: BOOLEAN]
Client == [pc: {"idle", "load", "store", "scan", "evict"}, type: Types \cup {NoType},
           content: Texts, raced: BOOLEAN]

\* A call that is under way is about a type of the table.
CallsHaveType == \A c \in Clients : client[c].pc # "idle" => client[c].type \in Types

\* The row is among what it has held, and so is what a load has read since the
\* last eviction of its type.
LoadIsRecent ==
    /\ \A y \in Types : Current(y) \in recent[y]
    /\ \A c \in Clients :
         client[c].pc = "store" => client[c].raced \/ client[c].content \in recent[client[c].type]

\* Versions count writes, and a row with content has one.
VersionsCount ==
    \A y \in Types : /\ table[y].version <= writes
                     /\ table[y].content \in Contents => table[y].version >= 1

\* The row holds the newest version of its type, with that version's content.
RowIsNewest ==
    \A p \in known : /\ p[2] <= table[p[1]].version
                     /\ p[2] = table[p[1]].version => p[3] = table[p[1]].content

StoreInv ==
    /\ TypeOK
    /\ CallsHaveType
    /\ LoadIsRecent
    /\ SuccessIsVisible
    /\ VersionsCount
    /\ RowIsNewest
    /\ VersionNamesContent

-----------------------------------------------------------------------------
LEMMA TemplatesConstants ==
    /\ NoRow \in Row /\ Empty \in Entry /\ Idle \in Client
    /\ Idle.pc = "idle" /\ Empty.content = NoText
    /\ Ttl \in Nat /\ Ttl > 0 /\ MaxWrites \in Nat
    /\ NoText \notin Contents
<1>1. Ttl \in Nat /\ Ttl > 0 /\ MaxWrites \in Nat /\ NoText \notin Contents
  BY TemplatesAssumption DEF TemplatesAssumption
<1>2. 0 \in 0 .. Ttl - 1 /\ 0 \in 0 .. MaxWrites
  BY <1>1
<1> QED BY <1>1, <1>2 DEF NoRow, Empty, Idle, Row, Entry, Client, Texts

\* A call about y that starts at pc.
LEMMA CallFact ==
    ASSUME NEW y \in Types, NEW pc \in {"load", "scan"}
    PROVE  LET new == [Idle EXCEPT !.pc = pc, !.type = y] IN
           new \in Client /\ new.pc = pc /\ new.type = y
BY DEF Idle, Client, Texts

\* What TypeOK says, with the records named.
LEMMA TypeParts ==
    TypeOK <=> /\ table \in [Types -> Row]
               /\ cache \in [Types -> Entry]
               /\ client \in [Clients -> Client]
               /\ known \subseteq Types \X (1 .. MaxWrites) \X Contents
               /\ writes \in 0 .. MaxWrites
               /\ recent \in [Types -> SUBSET Texts]
BY DEF TypeOK, Row, Entry, Client, Texts

LEMMA StoreInit == Init => StoreInv
<1> SUFFICES ASSUME Init PROVE StoreInv
  OBVIOUS
<1>1. /\ table \in [Types -> Row] /\ cache \in [Types -> Entry]
      /\ client \in [Clients -> Client] /\ writes \in 0 .. MaxWrites
      /\ recent \in [Types -> SUBSET Texts]
  BY TemplatesConstants DEF Init, Texts
<1>2. TypeOK
  <2>1. known \subseteq Types \X (1 .. MaxWrites) \X Contents
    BY DEF Init
  <2> QED BY <1>1, <2>1, TypeParts
<1>3. /\ \A c \in Clients : client[c].pc = "idle"
      /\ \A y \in Types : cache[y].content = NoText
      /\ \A y \in Types : table[y].version = 0 /\ table[y].content = NoText
      /\ writes = 0 /\ known = {}
  BY TemplatesConstants DEF Init, NoRow
<1>4. CallsHaveType /\ LoadIsRecent /\ SuccessIsVisible
  <2>1. \A y \in Types : Current(y) \in recent[y]
    BY <1>3 DEF Init, Current
  <2> QED BY <1>3, <2>1 DEF CallsHaveType, LoadIsRecent, SuccessIsVisible, Cached
<1>5. VersionsCount /\ RowIsNewest /\ VersionNamesContent
  BY <1>3, TemplatesConstants DEF VersionsCount, RowIsNewest, VersionNamesContent
<1> QED BY <1>2, <1>4, <1>5 DEF StoreInv

\* A step of one call that leaves the table alone: what it holds, and what
\* it puts in the cache, is recent or marked.
LEMMA OneCallMoves ==
    ASSUME StoreInv, NEW c \in Clients, NEW new \in Client,
           UNCHANGED <<table, known, writes, recent>>,
           client' = [client EXCEPT ![c] = new],
           new.pc # "idle" => new.type \in Types,
           new.pc = "store" => new.raced \/ new.content \in recent[new.type],
           cache' \in [Types -> Entry],
           \A y \in Types :
              cache'[y] = cache[y] \/ cache'[y].raced \/ cache'[y].content \in recent[y]
    PROVE  StoreInv'
<1>1. TypeOK /\ client \in [Clients -> Client]
  BY TypeParts DEF StoreInv
<1>2. client' \in [Clients -> Client]
      /\ client'[c] = new /\ \A d \in Clients : d # c => client'[d] = client[d]
  BY <1>1
<1>3. TypeOK'
  BY <1>1, <1>2, TypeParts DEF TypeOK, Row, Entry, Client, Texts
<1>4. CallsHaveType'
  BY <1>2 DEF StoreInv, CallsHaveType
<1>5. LoadIsRecent'
  <2>1. \A y \in Types : (Current(y) \in recent[y])'
    BY DEF StoreInv, LoadIsRecent, Current
  <2>2. ASSUME NEW d \in Clients, client'[d].pc = "store"
        PROVE  client'[d].raced \/ client'[d].content \in recent'[client'[d].type]
    <3>1. CASE d = c
      BY <1>2, <2>2, <3>1
    <3>2. CASE d # c
      BY <1>2, <2>2, <3>2 DEF StoreInv, LoadIsRecent
    <3> QED BY <3>1, <3>2
  <2> QED BY <2>1, <2>2 DEF LoadIsRecent
<1>6. SuccessIsVisible'
  BY DEF StoreInv, SuccessIsVisible, Cached
<1>7. VersionsCount' /\ RowIsNewest' /\ VersionNamesContent'
  BY DEF StoreInv, VersionsCount, RowIsNewest, VersionNamesContent
<1> QED BY <1>3, <1>4, <1>5, <1>6, <1>7 DEF StoreInv

-----------------------------------------------------------------------------
(***************************************************************************)
(* The writes.                                                             *)
(***************************************************************************)

\* A write gives the row its content and either keeps the version, when it
\* had that content already, or takes the next one.
LEMMA WriteFact ==
    ASSUME StoreInv, NEW y \in Types, NEW content \in Contents, NEW active \in BOOLEAN,
           Write(y, content, active)
    PROVE  /\ table' \in [Types -> Row] /\ writes' \in 0 .. MaxWrites
           /\ known' \subseteq Types \X (1 .. MaxWrites) \X Contents
           /\ \A z \in Types : z # y => table'[z] = table[z]
           /\ VersionsCount' /\ RowIsNewest' /\ VersionNamesContent'
<1> DEFINE version == Bumped(table[y], content, active)
<1>1. /\ table \in [Types -> Row] /\ table[y] \in Row
      /\ known \subseteq Types \X (1 .. MaxWrites) \X Contents
      /\ writes \in 0 .. MaxWrites /\ MaxWrites \in Nat
  BY TypeParts, TemplatesConstants DEF StoreInv
<1>2. /\ writes < MaxWrites /\ writes' = writes + 1
      /\ table' = [table EXCEPT ![y] = [content |-> content, version |-> version,
                                        active |-> active]]
      /\ known' = known \cup {<<y, version, content>>}
  BY DEF Write
<1>3. /\ table[y].version \in 0 .. MaxWrites /\ table[y].version <= writes
      /\ table[y].content \in Contents => table[y].version >= 1
  BY <1>1 DEF StoreInv, VersionsCount, Row
<1>4. \/ content # table[y].content /\ version = table[y].version + 1
      \/ content = table[y].content /\ version = table[y].version
  BY DEF Bumped
<1> HIDE DEF version
<1>5. version \in 1 .. MaxWrites /\ version \in 0 .. MaxWrites /\ version <= writes + 1
  BY <1>1, <1>2, <1>3, <1>4
<1>6. /\ table' \in [Types -> Row]
      /\ table'[y].content = content /\ table'[y].version = version
      /\ \A z \in Types : z # y => table'[z] = table[z]
  BY <1>1, <1>2, <1>5 DEF Row, Texts
<1>7. writes' \in 0 .. MaxWrites
  BY <1>1, <1>2
<1>8. known' \subseteq Types \X (1 .. MaxWrites) \X Contents
  BY <1>1, <1>2, <1>5
<1>9. VersionsCount'
  <2> SUFFICES ASSUME NEW z \in Types
               PROVE  /\ table'[z].version <= writes'
                      /\ table'[z].content \in Contents => table'[z].version >= 1
    BY DEF VersionsCount
  <2>1. CASE z = y
    BY <1>2, <1>5, <1>6, <2>1
  <2>2. CASE z # y
    <3>1. table'[z] = table[z] /\ table[z].version \in Nat
      BY <1>1, <1>6, <2>2 DEF Row
    <3>2. /\ table[z].version <= writes
          /\ table[z].content \in Contents => table[z].version >= 1
      BY DEF StoreInv, VersionsCount
    <3> QED BY <1>1, <1>2, <3>1, <3>2
  <2> QED BY <2>1, <2>2
\* What the table has had for y is older, or this very content.
<1>10. ASSUME NEW p \in known
       PROVE  /\ p[1] \in Types /\ p[2] \in 1 .. MaxWrites
              /\ p[2] <= table[p[1]].version
              /\ p[2] = table[p[1]].version => p[3] = table[p[1]].content
              /\ p[1] = y => p[2] <= version /\ (p[2] = version => p[3] = content)
  <2>1. p \in Types \X (1 .. MaxWrites) \X Contents
    BY <1>1
  <2>2. p[1] \in Types /\ p[2] \in 1 .. MaxWrites
    BY <2>1
  <2>3. /\ p[2] <= table[p[1]].version
        /\ p[2] = table[p[1]].version => p[3] = table[p[1]].content
    BY DEF StoreInv, RowIsNewest
  <2>4. ASSUME p[1] = y PROVE p[2] <= version /\ (p[2] = version => p[3] = content)
    BY <1>1, <1>3, <1>4, <2>2, <2>3, <2>4
  <2> QED BY <2>2, <2>3, <2>4
<1> DEFINE w == <<y, version, content>>
<1>11. w[1] = y /\ w[2] = version /\ w[3] = content
  OBVIOUS
<1>12. known' = known \cup {w}
  BY <1>2
<1> HIDE DEF w
<1>13. RowIsNewest'
  <2> SUFFICES ASSUME NEW p \in known'
               PROVE  /\ p[2] <= table'[p[1]].version
                      /\ p[2] = table'[p[1]].version => p[3] = table'[p[1]].content
    BY DEF RowIsNewest
  <2>1. CASE p = w
    BY <1>5, <1>6, <1>11, <2>1
  <2>2. CASE p \in known /\ p[1] = y
    BY <1>6, <1>10, <2>2
  <2>3. CASE p \in known /\ p[1] # y
    BY <1>6, <1>10, <2>3
  <2> QED BY <1>12, <2>1, <2>2, <2>3
<1>14. VersionNamesContent'
  <2> SUFFICES ASSUME NEW p \in known', NEW q \in known', p[1] = q[1], p[2] = q[2]
               PROVE  p[3] = q[3]
    BY DEF VersionNamesContent
  <2>1. CASE p \in known /\ q \in known
    BY <2>1 DEF StoreInv, VersionNamesContent
  <2>2. CASE p = w /\ q \in known
    BY <1>10, <1>11, <2>2
  <2>3. CASE p \in known /\ q = w
    BY <1>10, <1>11, <2>3
  <2> QED BY <1>12, <2>1, <2>2, <2>3
<1> QED BY <1>6, <1>7, <1>8, <1>9, <1>13, <1>14

\* A write, by whomever, adds to what is recent; the call that makes it holds
\* nothing of the row.
LEMMA AnyWrite ==
    ASSUME StoreInv, NEW y \in Types, NEW content \in Contents, NEW active \in BOOLEAN,
           Write(y, content, active), UNCHANGED cache,
           client' \in [Clients -> Client],
           \A c \in Clients : \/ client'[c] = client[c]
                              \/ client'[c].pc = "scan" /\ client'[c].type \in Types
    PROVE  StoreInv'
<1> DEFINE now == IF active THEN content ELSE NoText
<1>1. /\ table' \in [Types -> Row] /\ writes' \in 0 .. MaxWrites
      /\ known' \subseteq Types \X (1 .. MaxWrites) \X Contents
      /\ \A z \in Types : z # y => table'[z] = table[z]
      /\ VersionsCount' /\ RowIsNewest' /\ VersionNamesContent'
  BY WriteFact
<1>2. /\ table \in [Types -> Row] /\ cache \in [Types -> Entry]
      /\ recent \in [Types -> SUBSET Texts]
  BY TypeParts DEF StoreInv
<1>3. recent' = [recent EXCEPT ![y] = @ \cup {now}] /\ now \in Texts
  BY DEF Write, Texts
<1>4. table'[y].content = content /\ table'[y].active = active
  BY <1>2 DEF Write
<1>5. Current(y)' = now
  BY <1>4 DEF Current
<1> HIDE DEF now
<1>6. /\ recent' \in [Types -> SUBSET Texts]
      /\ now \in recent'[y] /\ \A z \in Types : recent[z] \subseteq recent'[z]
  BY <1>2, <1>3
<1>7. TypeOK'
  BY <1>1, <1>2, <1>6 DEF TypeOK, Row, Entry, Client, Texts
<1>8. CallsHaveType'
  BY DEF StoreInv, CallsHaveType
<1>9. LoadIsRecent'
  <2>1. ASSUME NEW z \in Types PROVE (Current(z) \in recent[z])'
    <3>1. CASE z = y
      BY <1>5, <1>6, <3>1
    <3>2. CASE z # y
      <4>1. Current(z)' = Current(z)
        BY <1>1, <3>2 DEF Current
      <4> QED BY <1>6, <4>1 DEF StoreInv, LoadIsRecent
    <3> QED BY <3>1, <3>2
  <2>2. ASSUME NEW d \in Clients, client'[d].pc = "store"
        PROVE  client'[d].raced \/ client'[d].content \in recent'[client'[d].type]
    <3>1. client'[d] = client[d] /\ client[d].type \in Types
      BY <2>2 DEF StoreInv, CallsHaveType
    <3> QED BY <1>6, <2>2, <3>1 DEF StoreInv, LoadIsRecent
  <2> QED BY <2>1, <2>2 DEF LoadIsRecent
<1>10. SuccessIsVisible'
  BY <1>6 DEF StoreInv, SuccessIsVisible, Cached
<1> QED BY <1>1, <1>7, <1>8, <1>9, <1>10 DEF StoreInv

\* POST and PATCH: the writer goes on to evict the type, or its answer is lost.
LEMMA EndpointWrite ==
    ASSUME StoreInv, NEW c \in Clients, NEW y \in Types, NEW content \in Contents,
           NEW active \in BOOLEAN, Upsert(c, y, content, active) \/ Patch(c, y, content, active)
    PROVE  StoreInv'
<1> DEFINE new == [Idle EXCEPT !.pc = "scan", !.type = y]
<1>1. new \in Client /\ new.pc = "scan" /\ new.type = y
  BY CallFact
<1>2. /\ Write(y, content, active) /\ UNCHANGED cache
      /\ client' = [client EXCEPT ![c] = new] \/ UNCHANGED client
  BY DEF Upsert, Patch, Answered
<1>3. client \in [Clients -> Client]
  BY TypeParts DEF StoreInv
<1> HIDE DEF new
<1>4. /\ client' \in [Clients -> Client]
      /\ \A d \in Clients : client'[d] = client[d] \/ client'[d] = new
  BY <1>1, <1>2, <1>3
<1> QED BY <1>1, <1>2, <1>4, AnyWrite

\* upsert_template of the MCP server.
LEMMA OutsideWrite ==
    ASSUME StoreInv, NEW y \in Remote, NEW content \in Contents, NEW active \in BOOLEAN,
           RemoteUpsert(y, content, active)
    PROVE  StoreInv'
<1>1. y \in Types /\ client \in [Clients -> Client]
  BY TemplatesAssumption, TypeParts DEF TemplatesAssumption, StoreInv
<1> QED BY <1>1, AnyWrite DEF RemoteUpsert

-----------------------------------------------------------------------------
(***************************************************************************)
(* The calls, and time.                                                    *)
(***************************************************************************)
LEMMA ResolveStep ==
    ASSUME StoreInv, NEW c \in Clients,
           (\E y \in Types : Miss(c, y)) \/ Load(c) \/ Store(c)
    PROVE  StoreInv'
<1>1. /\ client \in [Clients -> Client] /\ client[c] \in Client
      /\ cache \in [Types -> Entry] /\ table \in [Types -> Row]
  BY TypeParts DEF StoreInv
<1>2. Idle \in Client /\ Idle.pc = "idle"
  BY TemplatesConstants
<1>3. ASSUME NEW y \in Types, Miss(c, y) PROVE StoreInv'
  <2> DEFINE new == [Idle EXCEPT !.pc = "load", !.type = y]
  <2>1. new \in Client /\ new.pc = "load" /\ new.type = y
    BY CallFact
  <2>2. client[c].pc = "idle" /\ client' = [client EXCEPT ![c] = new]
    BY <1>2, <1>3 DEF Miss
  <2> HIDE DEF new
  <2> QED BY <1>1, <1>3, <2>1, <2>2, OneCallMoves DEF Miss
<1>4. CASE Load(c)
  <2>1. client[c].pc = "load" /\ client[c].type \in Types /\ UNCHANGED <<table, cache, known, writes, recent>>
    BY <1>4 DEF Load, StoreInv, CallsHaveType
  <2>2. CASE client' = [client EXCEPT ![c] = Idle]
    BY <1>1, <1>2, <2>1, <2>2, OneCallMoves
  <2>3. CASE client' = [client EXCEPT ![c].pc = "store",
                                      ![c].content = Current(client[c].type)]
    <3> DEFINE new == [client[c] EXCEPT !.pc = "store", !.content = Current(client[c].type)]
    <3>1. Current(client[c].type) \in Texts
      BY <1>1, <2>1 DEF Current, Row, Texts
    <3>2. /\ new \in Client /\ new.pc = "store" /\ new.type = client[c].type
          /\ new.content = Current(client[c].type)
      BY <1>1, <3>1 DEF Client
    <3>3. client' = [client EXCEPT ![c] = new]
      BY <1>1, <2>3 DEF Client
    <3> HIDE DEF new
    <3>4. new.content \in recent[new.type]
      BY <2>1, <3>2 DEF StoreInv, LoadIsRecent
    <3> QED BY <1>1, <2>1, <3>2, <3>3, <3>4, OneCallMoves
  <2> QED BY <1>4, <2>2, <2>3 DEF Load
<1>5. CASE Store(c)
  <2> DEFINE y == client[c].type
             e == [content |-> client[c].content, age |-> 0, raced |-> client[c].raced]
  <2>1. /\ client[c].pc = "store" /\ y \in Types /\ UNCHANGED <<table, known, writes, recent>>
        /\ client' = [client EXCEPT ![c] = Idle]
        /\ cache' = [cache EXCEPT ![y] = e]
    BY <1>5 DEF Store, StoreInv, CallsHaveType
  <2>2. 0 \in 0 .. Ttl - 1
    BY TemplatesConstants
  <2>3. e \in Entry /\ (e.raced \/ e.content \in recent[y])
    BY <1>1, <2>1, <2>2 DEF StoreInv, LoadIsRecent, Entry, Client
  <2> HIDE DEF e
  <2>4. /\ cache' \in [Types -> Entry] /\ cache'[y] = e
        /\ \A z \in Types : z # y => cache'[z] = cache[z]
    BY <1>1, <2>1, <2>3
  <2>5. \A z \in Types : cache'[z] = cache[z] \/ cache'[z].raced \/ cache'[z].content \in recent[z]
    BY <2>3, <2>4
  <2> HIDE DEF y
  <2> QED BY <1>2, <2>1, <2>4, <2>5, OneCallMoves
<1> QED BY <1>3, <1>4, <1>5

\* An eviction that is answered: nothing of its types is cached, and a load
\* of one in flight holds the row as it is or has raced.
LEMMA EvictionIsAnswered ==
    ASSUME StoreInv, NEW c \in Clients, NEW ys \in SUBSET Types, Evicted(c, ys)
    PROVE  StoreInv'
<1>1. /\ client \in [Clients -> Client] /\ \A d \in Clients : client[d] \in Client
      /\ cache \in [Types -> Entry] /\ table \in [Types -> Row]
      /\ recent \in [Types -> SUBSET Texts]
  BY TypeParts DEF StoreInv
<1>2. Idle \in Client /\ Idle.pc = "idle" /\ Empty \in Entry /\ Empty.content = NoText
  BY TemplatesConstants
<1>3. \A y \in Types : Current(y)' = Current(y) /\ Current(y) \in Texts
  BY <1>1 DEF Evicted, Current, Row, Texts
<1>4. /\ cache' \in [Types -> Entry]
      /\ \A y \in Types : \/ y \in ys /\ cache'[y].content = NoText
                          \/ y \notin ys /\ cache'[y] = cache[y]
  BY <1>1, <1>2 DEF Evicted
<1>5. /\ recent' \in [Types -> SUBSET Texts]
      /\ \A y \in Types : \/ y \in ys /\ recent'[y] = {Current(y)}
                          \/ y \notin ys /\ recent'[y] = recent[y]
  BY <1>1, <1>3 DEF Evicted
<1>6. ASSUME NEW d \in Clients
      PROVE  /\ client'[d] \in Client
             /\ client'[d].pc # "idle" => client'[d].type \in Types
             /\ client'[d].pc = "store" =>
                  client'[d].raced \/ client'[d].content \in recent'[client'[d].type]
  <2>1. client[d].pc # "idle" => client[d].type \in Types
    BY DEF StoreInv, CallsHaveType
  <2>2. CASE d = c
    BY <1>2, <2>2 DEF Evicted
  <2>3. CASE /\ d # c /\ client[d].pc = "store" /\ client[d].type \in ys
             /\ client[d].content # Current(client[d].type)
    <3>1. client'[d] = [client[d] EXCEPT !.raced = TRUE]
      BY <2>3 DEF Evicted
    <3> QED BY <1>1, <2>1, <2>3, <3>1 DEF Client
  <2>4. CASE /\ d # c
             /\ ~(/\ client[d].pc = "store" /\ client[d].type \in ys
                  /\ client[d].content # Current(client[d].type))
    <3>1. client'[d] = client[d]
      BY <2>4 DEF Evicted
    <3>2. client[d].pc = "store" => client[d].raced \/ client[d].content \in recent[client[d].type]
      BY DEF StoreInv, LoadIsRecent
    <3> QED BY <1>1, <1>5, <2>1, <2>4, <3>1, <3>2
  <2> QED BY <2>2, <2>3, <2>4
<1>7. client' \in [Clients -> Client]
  <2>1. client' = [d \in Clients |-> client'[d]]
    BY DEF Evicted
  <2> QED BY <1>6, <2>1
<1>8. TypeOK'
  BY <1>1, <1>4, <1>5, <1>7 DEF StoreInv, TypeOK, Row, Entry, Client, Texts, Evicted
<1>9. CallsHaveType' /\ LoadIsRecent'
  <2>1. \A y \in Types : (Current(y) \in recent[y])'
    BY <1>3, <1>5 DEF StoreInv, LoadIsRecent
  <2> QED BY <1>6, <2>1 DEF CallsHaveType, LoadIsRecent
<1>10. SuccessIsVisible'
  BY <1>4, <1>5 DEF StoreInv, SuccessIsVisible, Cached
<1>11. VersionsCount' /\ RowIsNewest' /\ VersionNamesContent'
  BY DEF StoreInv, VersionsCount, RowIsNewest, VersionNamesContent, Evicted
<1> QED BY <1>8, <1>9, <1>10, <1>11 DEF StoreInv

\* The evictions, and the calls that end before theirs.
LEMMA EvictionStep ==
    ASSUME StoreInv, NEW c \in Clients,
           \/ \E y \in Types : Invalidate(c, y)
           \/ Scan(c) \/ Evict(c) \/ InvalidateAll(c) \/ Abort(c)
    PROVE  StoreInv'
<1>1. /\ client \in [Clients -> Client] /\ client[c] \in Client
      /\ cache \in [Types -> Entry]
  BY TypeParts DEF StoreInv
<1>2. Idle \in Client /\ Idle.pc = "idle"
  BY TemplatesConstants
<1>3. ASSUME NEW y \in Types, Invalidate(c, y) PROVE StoreInv'
  <2> DEFINE new == [Idle EXCEPT !.pc = "scan", !.type = y]
  <2>1. new \in Client /\ new.pc = "scan" /\ new.type = y
    BY CallFact
  <2>2. client' = [client EXCEPT ![c] = new]
    BY <1>3 DEF Invalidate
  <2> HIDE DEF new
  <2> QED BY <1>1, <1>3, <2>1, <2>2, OneCallMoves DEF Invalidate
<1>4. CASE Scan(c)
  <2>1. client[c].pc = "scan" /\ client[c].type \in Types
    BY <1>4 DEF Scan, StoreInv, CallsHaveType
  <2>2. CASE Cached(client[c].type)
    <3> DEFINE new == [client[c] EXCEPT !.pc = "evict"]
    <3>1. new \in Client /\ new.pc = "evict" /\ new.type = client[c].type
      BY <1>1 DEF Client
    <3>2. /\ client' = [client EXCEPT ![c] = new]
          /\ UNCHANGED <<table, cache, known, writes, recent>>
      BY <1>4, <2>2 DEF Scan
    <3> HIDE DEF new
    <3> QED BY <1>1, <2>1, <3>1, <3>2, OneCallMoves
  <2>3. CASE ~Cached(client[c].type)
    <3>1. Evicted(c, {client[c].type}) /\ {client[c].type} \in SUBSET Types
      BY <1>4, <2>1, <2>3 DEF Scan
    <3> QED BY <3>1, EvictionIsAnswered
  <2> QED BY <2>2, <2>3
<1>5. CASE Evict(c)
  <2>1. Evicted(c, {client[c].type}) /\ {client[c].type} \in SUBSET Types
    BY <1>5 DEF Evict, StoreInv, CallsHaveType
  <2> QED BY <2>1, EvictionIsAnswered
<1>6. CASE InvalidateAll(c)
  BY <1>6, EvictionIsAnswered DEF InvalidateAll
<1>7. CASE Abort(c)
  BY <1>1, <1>2, <1>7, OneCallMoves DEF Abort
<1> QED BY <1>3, <1>4, <1>5, <1>6, <1>7

LEMMA EntryAges ==
    ASSUME StoreInv, NEW y \in Types, Tick(y)
    PROVE  StoreInv'
<1>1. /\ cache \in [Types -> Entry] /\ cache[y] \in Entry /\ cache[y].age \in 0 .. Ttl - 1
      /\ UNCHANGED <<table, client, known, writes, recent>>
  BY TypeParts DEF StoreInv, Tick, Entry
<1>2. /\ cache' \in [Types -> Entry]
      /\ \A z \in Types : \/ cache'[z].content = NoText
                          \/ /\ cache'[z].content = cache[z].content
                             /\ cache'[z].raced = cache[z].raced
  <2>1. CASE cache[y].age + 1 >= Ttl
    BY <1>1, <2>1, TemplatesConstants DEF Tick
  <2>2. CASE ~(cache[y].age + 1 >= Ttl)
    <3>1. cache[y].age + 1 \in 0 .. Ttl - 1
      BY <1>1, <2>2, TemplatesConstants
    <3>2. cache' = [cache EXCEPT ![y] = [cache[y] EXCEPT !.age = cache[y].age + 1]]
      BY <1>1, <2>2 DEF Tick
    <3>3. LET e == [cache[y] EXCEPT !.age = cache[y].age + 1] IN
          e \in Entry /\ e.content = cache[y].content /\ e.raced = cache[y].raced
      BY <1>1, <3>1 DEF Entry
    <3> QED BY <1>1, <3>2, <3>3
  <2> QED BY <2>1, <2>2
<1>3. TypeOK'
  BY <1>1, <1>2 DEF StoreInv, TypeOK, Entry, Texts
<1>4. CallsHaveType' /\ LoadIsRecent'
  BY <1>1 DEF StoreInv, CallsHaveType, LoadIsRecent, Current
<1>5. SuccessIsVisible'
  BY <1>1, <1>2 DEF StoreInv, SuccessIsVisible, Cached
<1>6. VersionsCount' /\ RowIsNewest' /\ VersionNamesContent'
  BY <1>1 DEF StoreInv, VersionsCount, RowIsNewest, VersionNamesContent
<1> QED BY <1>3, <1>4, <1>5, <1>6 DEF StoreInv

LEMMA StoreStep == StoreInv /\ [Next]_vars => StoreInv'
<1> SUFFICES ASSUME StoreInv, [Next]_vars PROVE StoreInv'
  OBVIOUS
<1>1. CASE UNCHANGED vars
  <2>1. TypeOK' /\ CallsHaveType' /\ LoadIsRecent'
    BY <1>1 DEF vars, StoreInv, TypeOK, CallsHaveType, LoadIsRecent, Current
  <2>2. SuccessIsVisible'
    BY <1>1 DEF vars, StoreInv, SuccessIsVisible, Cached
  <2>3. VersionsCount' /\ RowIsNewest' /\ VersionNamesContent'
    BY <1>1 DEF vars, StoreInv, VersionsCount, RowIsNewest, VersionNamesContent
  <2> QED BY <2>1, <2>2, <2>3 DEF StoreInv
<1>2. ASSUME NEW c \in Clients, NEW y \in Types, Hit(c, y) PROVE StoreInv'
  BY <1>1, <1>2 DEF Hit
<1> QED BY <1>1, <1>2, ResolveStep, EvictionStep, EndpointWrite, OutsideWrite, EntryAges
        DEF Next

-----------------------------------------------------------------------------
\* The types of the variables, that no entry outlives its TTL and that
\* versions count from 1, for any number of concurrent calls of the store.
THEOREM TemplatesTypeCorrect == Spec => []TypeOK
<1>1. StoreInv => TypeOK
  BY DEF StoreInv
<1> QED BY <1>1, StoreInit, StoreStep, PTL DEF Spec

\* A cached template was the active one at some time since the last write or
\* flush of its type that was answered with success, whatever answers are lost
\* and handlers dropped, unless its load spans that eviction: invalidate's
\* scan for keys misses no entry that an earlier load has stored.
THEOREM TemplateShowsSuccess == Spec => []SuccessIsVisible
<1>1. StoreInv => SuccessIsVisible
  BY DEF StoreInv
<1> QED BY <1>1, StoreInit, StoreStep, PTL DEF Spec

\* A version of a template names one content, through every interleaving of
\* upserts, patches and the MCP server's writes.
THEOREM VersionsAreHonest == Spec => []VersionNamesContent
<1>1. StoreInv => VersionNamesContent
  BY DEF StoreInv
<1> QED BY <1>1, StoreInit, StoreStep, PTL DEF Spec
=============================================================================
