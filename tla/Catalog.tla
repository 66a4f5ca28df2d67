------------------------------ MODULE Catalog ------------------------------
(***************************************************************************)
(* Bots, venues, their assignments and the rows keyed by venue and wallet: *)
(* the venue half of storage/storage.go and storage/api.go, the start of   *)
(* the application (initializeHyperliquidVenues) that writes them from the *)
(* secrets, and the operator's API calls beside it.                        *)
(*                                                                         *)
(* Every call holds the storage mutex, so one call is one step; the start  *)
(* makes many.  All venues have the type hyperliquid.  A row of the order  *)
(* tables is its key: payloads and times of statuses are left out.         *)
(***************************************************************************)
EXTENDS Naturals, Sequences, FiniteSets, SequencesExt

CONSTANTS
    Bots,           \* bot ids, positive integers
    VenueIds,       \* venue ids as integers, in the order of their names
    Default,        \* "hyperliquid:default"
    Wallets,
    Sentinel,       \* the wallet of a default venue without one
    Orders,
    SecretSets,     \* the secrets a start may get: sequences of [id, wallet, primary]
    PageSize,       \* 100 in syncPrimaryVenueAssignments
    MaxSynced,      \* bound on the times of synchronisation
    MaxStarts,      \* bound on starts of the process
    MaxCalls,       \* bound on the operator's API calls
    MaxRows,        \* bound on the rows that the engine records
    Nobody          \* neither a bot's choice nor a cursor

Secret == [id : VenueIds, wallet : Wallets, primary : BOOLEAN]

ASSUME CatalogAssumption ==
    /\ Bots \subseteq Nat \ {0}
    /\ VenueIds \subseteq Nat /\ Default \in VenueIds /\ Sentinel \in Wallets
    /\ PageSize \in Nat \ {0}
    /\ \A s \in SecretSets :
          /\ s \in Seq(Secret)
          /\ \E i \in 1..Len(s) : s[i].primary

VARIABLES
    venues,         \* stored venues: id -> [wallet, primary]; primary is the flag
    assignments,    \* rows [bot, venue, primary]
    bots,           \* stored bots: id -> last_synced_utc
    rows,           \* rows [table, venue, wallet, order] of the order tables
    phase,          \* where the process is
    secrets,        \* the secrets of this start
    alias,          \* what the default venue resolved to when it began
    at,             \* the next of the secrets
    page, cursor,   \* the sync: bots of the page still to do, and its next token
    starts, calls,
    chosen          \* history: the primary an operator chose last for a bot

catalogVars == <<venues, assignments, bots, rows, phase, secrets, alias, at, page, cursor,
                 starts, calls, chosen>>

Tables == {"submissions", "statuses", "scaled"}
Phases == {"off", "waiting", "venues", "list", "sync", "assign", "running"}

InitCatalog ==
    /\ venues = <<>> /\ assignments = {} /\ bots = <<>> /\ rows = {}
    /\ phase = "off" /\ secrets = <<>> /\ alias = Default /\ at = 1
    /\ page = <<>> /\ cursor = Nobody
    /\ starts = 0 /\ calls = 0
    /\ chosen = [b \in Bots |-> Nobody]

---------------------------------------------------------------------------
\* The SQL statements.

\* The unique index on (type, wallet) refuses the row.
WalletTaken(v, w) == \E u \in DOMAIN venues \ {v} : venues[u].wallet = w

upsertVenue(v, w, flag) ==
    [u \in DOMAIN venues \cup {v} |->
        IF u = v THEN [wallet |-> w, primary |-> flag] ELSE venues[u]]

deleteVenue(v) == [u \in DOMAIN venues \ {v} |-> venues[u]]

\* Faulty variant: without the clause for a conflict of keys.
insertBotVenueAssignment(as, b, v, p) == as \cup {[bot |-> b, venue |-> v, primary |-> p]}

upsertBotVenueAssignment(as, b, v, p) ==
    {a \in as : a.bot # b \/ a.venue # v} \cup {[bot |-> b, venue |-> v, primary |-> p]}

deleteBotVenueAssignment(b, v) == {a \in assignments : a.bot # b \/ a.venue # v}

listBotVenueAssignments(b) == {a \in assignments : a.bot = b}

getPrimaryVenueForBot(b) == {a.venue : a \in {r \in listBotVenueAssignments(b) : r.primary}}

Cloned(rs, table, from, to) ==
    rs \cup {[table |-> table, venue |-> Default, wallet |-> to, order |-> r.order] :
                r \in {s \in rs : s.table = table /\ s.venue = Default /\ s.wallet = from}}

cloneSubmissions(rs, from, to) == Cloned(rs, "submissions", from, to)
cloneStatuses(rs, from, to) == Cloned(rs, "statuses", from, to)
cloneScaledOrders(rs, from, to) == Cloned(rs, "scaled", from, to)

Without(rs, table, from) ==
    {r \in rs : r.table # table \/ r.venue # Default \/ r.wallet # from}

deleteStatuses(rs, from) == Without(rs, "statuses", from)
deleteSubmissions(rs, from) == Without(rs, "submissions", from)
deleteScaledOrders(rs, from) == Without(rs, "scaled", from)

upsertBot(b, t) == [c \in DOMAIN bots \cup {b} |-> IF c = b THEN t ELSE bots[c]]

\* Only a stored bot has a row to update.
updateBotSync(b, t) == [c \in DOMAIN bots |-> IF c = b THEN t ELSE bots[c]]

---------------------------------------------------------------------------
\* The default venue and what it resolves to.

\* Faulty variant: the old wallet's rows are deleted before they are cloned.
migrateDeletesFirst(rs, from, to) ==
    cloneScaledOrders(cloneStatuses(cloneSubmissions(
        deleteScaledOrders(deleteSubmissions(deleteStatuses(rs, from), from), from),
        from, to), from, to), from, to)

migrateDefaultVenueWalletLocked(rs, from, to) ==
    LET cloned == cloneScaledOrders(cloneStatuses(cloneSubmissions(rs, from, to), from, to),
                                    from, to)
    IN  deleteScaledOrders(deleteSubmissions(deleteStatuses(cloned, from), from), from)

DefaultWallet == IF Default \in DOMAIN venues THEN venues[Default].wallet ELSE Sentinel

\* A wallet that another venue has leaves everything as it is, and is no error.
upsertDefaultVenueLocked(w, kept) ==
    IF WalletTaken(Default, w)
    THEN venues' = venues /\ rows' = kept
    ELSE /\ venues' = upsertVenue(Default, w, FALSE)
         /\ rows' = IF DefaultWallet = w THEN kept
                    ELSE migrateDefaultVenueWalletLocked(kept, DefaultWallet, w)

\* The stored venues flagged primary; they are listed by id, and the first of them counts.
Flagged == {v \in DOMAIN venues : venues[v].primary}

Target(v) == [venue |-> v, wallet |-> IF v \in DOMAIN venues THEN venues[v].wallet
                                                             ELSE Sentinel]

\* findPrimaryHyperliquidVenueLocked is asked only by a default venue that is stored and
\* has no wallet of its own.
defaultVenueAssignmentLocked ==
    IF Default \in DOMAIN venues /\ venues[Default].wallet = Sentinel /\ Flagged # {}
    THEN Target(CHOOSE v \in Flagged : \A u \in Flagged : v <= u)
    ELSE Target(Default)

\* Faulty variant: assignments whose venue was deleted are passed on.
ListVenuesWithDangling(b) ==
    IF listBotVenueAssignments(b) = {} THEN {defaultVenueAssignmentLocked}
    ELSE {Target(a.venue) : a \in listBotVenueAssignments(b)}

\* Assignments to deleted venues are skipped; a bot without any gets the default.
ListVenuesForBot(b) ==
    LET stored == {a \in listBotVenueAssignments(b) : a.venue \in DOMAIN venues}
    IN  IF stored = {} THEN {defaultVenueAssignmentLocked}
        ELSE {Target(a.venue) : a \in stored}

---------------------------------------------------------------------------
\* Start.

Primary == secrets[SelectInSeq(secrets, LAMBDA s : s.primary)]

\* The schema drops the table of scaled orders at each start.
New ==
    /\ phase = "off" /\ starts < MaxStarts
    /\ starts' = starts + 1
    /\ phase' = "waiting"
    /\ upsertDefaultVenueLocked(Sentinel, {r \in rows : r.table # "scaled"})
    /\ UNCHANGED <<assignments, bots, secrets, alias, at, page, cursor, calls, chosen>>

initializeHyperliquidVenues(s) ==
    /\ phase = "waiting"
    /\ phase' = "venues"
    /\ secrets' = s /\ at' = 1
    /\ alias' = defaultVenueAssignmentLocked.venue
    /\ UNCHANGED <<venues, assignments, bots, rows, page, cursor, starts, calls, chosen>>

\* One turn of the loop over the venues; an error ends the process.
ConfigureVenue ==
    /\ phase = "venues" /\ at <= Len(secrets)
    /\ at' = at + 1
    /\ LET s == secrets[at]
       IN  IF WalletTaken(s.id, s.wallet)
           THEN phase' = "off" /\ venues' = venues
           ELSE phase' = phase /\ venues' = upsertVenue(s.id, s.wallet, s.primary)
    /\ UNCHANGED <<assignments, bots, rows, secrets, alias, page, cursor, starts, calls, chosen>>

\* Another venue of the secrets, neither the primary nor the alias, has the same wallet.
shouldUseSentinelDefaultHyperliquidWallet ==
    \E i \in 1..Len(secrets) : /\ secrets[i].id \notin {alias, Primary.id}
                               /\ secrets[i].wallet = Primary.wallet

EnsureDefaultVenueWallet ==
    /\ phase = "venues" /\ at > Len(secrets)
    /\ phase' = "list"
    /\ cursor' = Nobody
    /\ upsertDefaultVenueLocked(
            IF shouldUseSentinelDefaultHyperliquidWallet THEN Sentinel
            ELSE Primary.wallet, rows)
    /\ UNCHANGED <<assignments, bots, secrets, alias, at, page, starts, calls, chosen>>

startVars == <<secrets, alias, at>>

\* ListBots: newest first, one row more than asked for, and the cursor of that row.
Newer(b, c) == bots[b] > bots[c] \/ (bots[b] = bots[c] /\ b > c)

AfterCursor(b) == cursor = Nobody \/ bots[b] < cursor[1] \/ (bots[b] = cursor[1] /\ b < cursor[2])

NewestFirst(q) == \A i, j \in 1..Len(q) : i < j => Newer(q[i], q[j])

ListBots == CHOOSE q \in SetToSeqs({b \in DOMAIN bots : AfterCursor(b)}) : NewestFirst(q)

NextToken(raw) ==
    IF Len(raw) > PageSize THEN <<bots[raw[PageSize + 1]], raw[PageSize + 1]>> ELSE Nobody

\* An empty page ends the sync, and with it the start.
SyncLists ==
    /\ phase = "list"
    /\ page' = SubSeq(ListBots, 1, IF Len(ListBots) > PageSize THEN PageSize ELSE Len(ListBots))
    /\ cursor' = NextToken(ListBots)
    /\ phase' = IF ListBots = <<>> THEN "running" ELSE "sync"
    /\ UNCHANGED <<venues, assignments, bots, rows, startVars, starts, calls, chosen>>

\* Faulty variant: a primary that the bot has is not looked for.
SyncAlwaysAssigns ==
    /\ phase = "sync" /\ page # <<>>
    /\ phase' = "assign"
    /\ UNCHANGED <<venues, assignments, bots, rows, startVars, page, cursor, starts, calls,
                   chosen>>

\* HasPrimaryVenueAssignment does not ask whether the venue is still stored.
SyncChecks ==
    /\ phase = "sync" /\ page # <<>>
    /\ IF getPrimaryVenueForBot(Head(page)) # {}
       THEN page' = Tail(page) /\ phase' = phase
       ELSE page' = page /\ phase' = "assign"
    /\ UNCHANGED <<venues, assignments, bots, rows, startVars, cursor, starts, calls, chosen>>

SyncPageDone ==
    /\ phase = "sync" /\ page = <<>>
    /\ phase' = IF cursor = Nobody THEN "running" ELSE "list"
    /\ UNCHANGED <<venues, assignments, bots, rows, startVars, page, cursor, starts, calls,
                   chosen>>

---------------------------------------------------------------------------
\* Assignments of bots to venues.

clearPrimary(b) ==
    {[bot |-> a.bot, venue |-> a.venue, primary |-> a.primary /\ a.bot # b] : a \in assignments}

\* The other primaries are cleared in the transaction of the upsert.
Assigned(b, v, p) ==
    upsertBotVenueAssignment(IF p THEN clearPrimary(b) ELSE assignments, b, v, p)

SyncAssigns ==
    /\ phase = "assign"
    /\ IF Primary.id \in DOMAIN venues
       THEN /\ assignments' = Assigned(Head(page), Primary.id, TRUE)
            /\ page' = Tail(page)
            /\ phase' = "sync"
       ELSE UNCHANGED <<assignments, page>> /\ phase' = "off"
    /\ UNCHANGED <<venues, bots, rows, startVars, cursor, starts, calls, chosen>>

Call ==
    /\ phase # "off" /\ calls < MaxCalls
    /\ calls' = calls + 1
    /\ UNCHANGED <<bots, rows, phase, startVars, page, cursor, starts>>

\* A choice for a bot that the sync has checked and not yet assigned will be overridden.
Overridden(b) == phase = "assign" /\ Head(page) = b

UpsertVenueAssignment(v, b, p) ==
    /\ Call
    /\ v \in DOMAIN venues
    /\ assignments' = Assigned(b, v, p)
    /\ chosen' = [chosen EXCEPT ![b] =
                    IF p /\ ~Overridden(b) THEN v ELSE IF p \/ @ = v THEN Nobody ELSE @]
    /\ UNCHANGED venues

DeleteVenueAssignment(v, b) ==
    /\ Call
    /\ v \in {a.venue : a \in listBotVenueAssignments(b)}
    /\ assignments' = deleteBotVenueAssignment(b, v)
    /\ chosen' = [chosen EXCEPT ![b] = IF @ = v THEN Nobody ELSE @]
    /\ UNCHANGED venues

---------------------------------------------------------------------------
\* The rest of the API, and what the running engine records.

\* The handler answers a wallet that is taken with an error.
UpsertVenue(v, w, flag) ==
    /\ Call
    /\ ~WalletTaken(v, w)
    /\ venues' = upsertVenue(v, w, flag)
    /\ UNCHANGED <<assignments, chosen>>

\* Foreign keys are not enforced: the assignments to the venue stay.
DeleteVenue(v) ==
    /\ Call
    /\ v \in DOMAIN venues \ {Default}
    /\ venues' = deleteVenue(v)
    /\ UNCHANGED <<assignments, chosen>>

RecordBot(b, t) ==
    /\ phase = "running"
    /\ bots' = upsertBot(b, t)
    /\ UNCHANGED <<venues, assignments, rows, phase, startVars, page, cursor, starts, calls,
                   chosen>>

TouchBot(b, t) ==
    /\ phase = "running"
    /\ b \in DOMAIN bots
    /\ bots' = updateBotSync(b, t)
    /\ UNCHANGED <<venues, assignments, rows, phase, startVars, page, cursor, starts, calls,
                   chosen>>

\* A submission, a status or a scaling audit of an order at a venue of its bot.
RecordRow(b, table, o) ==
    /\ phase = "running" /\ Cardinality(rows) < MaxRows
    /\ \E t \in ListVenuesForBot(b) :
          rows' = rows \cup {[table |-> table, venue |-> t.venue, wallet |-> t.wallet,
                             order |-> o]}
    /\ UNCHANGED <<venues, assignments, bots, phase, startVars, page, cursor, starts, calls,
                   chosen>>

\* Shutdown or crash.
Stop ==
    /\ phase # "off"
    /\ phase' = "off"
    /\ UNCHANGED <<venues, assignments, bots, rows, startVars, page, cursor, starts, calls,
                   chosen>>

StartStep ==
    \/ New \/ ConfigureVenue \/ EnsureDefaultVenueWallet
    \/ SyncLists \/ SyncChecks \/ SyncAssigns \/ SyncPageDone
    \/ \E s \in SecretSets : initializeHyperliquidVenues(s)

ApiStep ==
    \/ \E v \in VenueIds, w \in Wallets, flag \in BOOLEAN : UpsertVenue(v, w, flag)
    \/ \E v \in VenueIds : DeleteVenue(v)
    \/ \E v \in VenueIds, b \in Bots, p \in BOOLEAN : UpsertVenueAssignment(v, b, p)
    \/ \E v \in VenueIds, b \in Bots : DeleteVenueAssignment(v, b)

EngineStep ==
    \/ \E b \in Bots, t \in 1..MaxSynced : RecordBot(b, t) \/ TouchBot(b, t)
    \/ \E b \in Bots, table \in Tables, o \in Orders : RecordRow(b, table, o)

NextCatalog == StartStep \/ ApiStep \/ EngineStep \/ Stop

SpecCatalog == InitCatalog /\ [][NextCatalog]_catalogVars

---------------------------------------------------------------------------
\* Every variable keeps its type, and the tables their keys: an assignment is identified
\* by bot and venue, a venue also by its wallet.
CatalogTypeOK ==
    /\ DOMAIN venues \subseteq VenueIds
    /\ \A v \in DOMAIN venues : venues[v] \in [wallet : Wallets, primary : BOOLEAN]
    /\ \A u, v \in DOMAIN venues : venues[u].wallet = venues[v].wallet => u = v
    /\ assignments \subseteq [bot : Bots, venue : VenueIds, primary : BOOLEAN]
    /\ \A a, c \in assignments : a.bot = c.bot /\ a.venue = c.venue => a = c
    /\ DOMAIN bots \subseteq Bots
    /\ \A b \in DOMAIN bots : bots[b] \in 1..MaxSynced
    /\ rows \subseteq [table : Tables, venue : VenueIds, wallet : Wallets, order : Orders]
    /\ phase \in Phases
    /\ secrets \in Seq(Secret) /\ alias \in VenueIds /\ at \in Nat
    /\ page \in Seq(Bots)
    /\ cursor \in ((1..MaxSynced) \X Bots) \cup {Nobody}
    /\ chosen \in [Bots -> VenueIds \cup {Nobody}]
    /\ starts \in Nat /\ calls \in Nat

\* Whatever venues and assignments were deleted or renamed in between, a bot's orders
\* have a venue to go to, the venue is stored, and the wallet is the one it has now
\* (storage.go:612, the fallbacks of ListVenuesForBot).
TargetsExist ==
    phase # "off" =>
        \A b \in Bots :
            /\ ListVenuesForBot(b) # {}
            /\ \A t \in ListVenuesForBot(b) :
                    t.venue \in DOMAIN venues /\ t.wallet = venues[t.venue].wallet

\* What RowsKept asks of a step.
RowsSurvive ==
    \A r \in rows : r.table # "scaled" =>
        \E s \in rows' : s.table = r.table /\ s.venue = r.venue /\ s.order = r.order

\* Moving the default venue to another wallet loses no submission and no status of an
\* order, also when both wallets have rows (storage.go:319).
RowsKept == [][RowsSurvive]_catalogVars

\* The sync of a start leaves the primary that an operator chose, before it or beside it,
\* and a bot never has two; only a choice between the check of a bot and its assignment is
\* overridden (storage.go:208, api.go:800, hyperliquid_helpers.go:178).
ChoiceKept ==
    \A b \in Bots :
        /\ Cardinality(getPrimaryVenueForBot(b)) <= 1
        /\ chosen[b] # Nobody => getPrimaryVenueForBot(b) = {chosen[b]}

\* When the sync of a start is over, every stored bot has a primary assignment: "ensures
\* all bots have a primary venue assignment" (hyperliquid_helpers.go:156).
SyncCoversAll ==
    \/ phase = "sync" /\ page = <<>> /\ cursor = Nobody
    \/ phase = "list" /\ ListBots = <<>>
    => \A b \in DOMAIN bots : getPrimaryVenueForBot(b) # {}
=============================================================================
