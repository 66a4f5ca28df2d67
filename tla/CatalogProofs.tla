--------------------------- MODULE CatalogProofs ---------------------------
(***************************************************************************)
(* Proofs about the catalog of bots and venues: for any bots, venues,      *)
(* wallets and secrets, any number of starts and of API calls beside them. *)
(***************************************************************************)
EXTENDS Catalog, FiniteSetTheorems, WellFoundedInduction, TLAPS

\* A set of ids that is not empty has a first one.
LEMMA FirstId ==
    ASSUME NEW S, S \subseteq Nat, S # {}
    PROVE  \E v \in S : \A u \in S : v <= u
<1> DEFINE R == OpToRel(<, Nat)
<1>1. IsWellFoundedOn(R, Nat)
  BY NatLessThanWellFounded
<1>2. \A u, v \in Nat : u < v => <<u, v>> \in R
  BY DEF OpToRel
<1> HIDE DEF R
<1>3. PICK v \in S : \A u \in S : ~(<<u, v>> \in R)
  BY <1>1, WFMin
<1>4. \A u \in S : ~(u < v)
  BY <1>2, <1>3
<1> QED
  BY <1>4

-----------------------------------------------------------------------------
(* The venue of an order exists *)

\* What the fallback of ListVenuesForBot rests on: the default venue is stored from
\* the first start on, and never deleted.
StoredInv ==
    /\ Default \in DOMAIN venues \/ (DOMAIN venues = {} /\ phase = "off")
    /\ DOMAIN venues \subseteq VenueIds
    /\ secrets \in Seq(Secret)
    /\ at \in Nat \ {0}

\* upsertDefaultVenueLocked leaves a default venue stored: a wallet that is taken is
\* taken by another stored venue.
LEMMA DefaultStored ==
    ASSUME StoredInv, NEW w, NEW kept, upsertDefaultVenueLocked(w, kept)
    PROVE  Default \in DOMAIN venues' /\ DOMAIN venues' \subseteq VenueIds
<1>1. CASE WalletTaken(Default, w)
  <2>1. DOMAIN venues # {}
    BY <1>1 DEF WalletTaken
  <2> QED
    BY <1>1, <2>1 DEF StoredInv, upsertDefaultVenueLocked
<1>2. CASE ~WalletTaken(Default, w)
  <2>1. venues' = upsertVenue(Default, w, FALSE)
    BY <1>2 DEF upsertDefaultVenueLocked
  <2>2. DOMAIN venues' = DOMAIN venues \cup {Default}
    BY <2>1 DEF upsertVenue
  <2> QED
    BY <2>2, CatalogAssumption DEF StoredInv
<1> QED
  BY <1>1, <1>2

\* Every step keeps the default venue stored.
LEMMA StoredStep == StoredInv /\ [NextCatalog]_catalogVars => StoredInv'
<1> SUFFICES ASSUME StoredInv, [NextCatalog]_catalogVars PROVE StoredInv'
  OBVIOUS
<1>1. CASE New \/ EnsureDefaultVenueWallet
  <2>1. \E w, kept : upsertDefaultVenueLocked(w, kept)
    BY <1>1 DEF New, EnsureDefaultVenueWallet
  <2>2. Default \in DOMAIN venues' /\ DOMAIN venues' \subseteq VenueIds
    BY <2>1, DefaultStored
  <2>3. secrets' = secrets /\ at' = at
    BY <1>1 DEF New, EnsureDefaultVenueWallet
  <2> QED
    BY <2>2, <2>3 DEF StoredInv
<1>2. ASSUME NEW s \in SecretSets, initializeHyperliquidVenues(s) PROVE StoredInv'
  <2>1. s \in Seq(Secret)
    BY CatalogAssumption DEF Secret
  <2> QED
    BY <1>2, <2>1 DEF initializeHyperliquidVenues, StoredInv
<1>3. CASE ConfigureVenue
  <2>1. phase = "venues" /\ at' = at + 1 /\ secrets' = secrets /\ at <= Len(secrets)
    BY <1>3 DEF ConfigureVenue
  <2>2. secrets[at].id \in VenueIds
    <3>1. secrets[at] \in Secret
      BY <2>1 DEF StoredInv
    <3> QED
      BY <3>1 DEF Secret
  <2>3. DOMAIN venues' = DOMAIN venues \/ DOMAIN venues' = DOMAIN venues \cup {secrets[at].id}
    BY <1>3 DEF ConfigureVenue, upsertVenue
  <2> QED
    BY <2>1, <2>2, <2>3 DEF StoredInv
<1>4. ASSUME NEW v \in VenueIds, NEW w \in Wallets, NEW flag \in BOOLEAN,
             UpsertVenue(v, w, flag)
      PROVE  StoredInv'
  <2>1. DOMAIN venues' = DOMAIN venues \cup {v}
    BY <1>4 DEF UpsertVenue, upsertVenue
  <2> QED
    BY <1>4, <2>1 DEF UpsertVenue, Call, startVars, StoredInv
<1>5. ASSUME NEW v \in VenueIds, DeleteVenue(v) PROVE StoredInv'
  <2>1. DOMAIN venues' = DOMAIN venues \ {v} /\ v # Default
    BY <1>5 DEF DeleteVenue, deleteVenue
  <2> QED
    BY <1>5, <2>1 DEF DeleteVenue, Call, startVars, StoredInv
<1>6. ASSUME UNCHANGED <<venues, secrets, at>>, phase = "off" => phase' = "off"
      PROVE  StoredInv'
  BY <1>6 DEF StoredInv
<1>7. CASE SyncLists \/ SyncChecks \/ SyncAssigns \/ SyncPageDone
  BY <1>7, <1>6 DEF SyncLists, SyncChecks, SyncAssigns, SyncPageDone, startVars
<1>8. CASE \/ \E v \in VenueIds, b \in Bots, p \in BOOLEAN : UpsertVenueAssignment(v, b, p)
           \/ \E v \in VenueIds, b \in Bots : DeleteVenueAssignment(v, b)
  BY <1>8, <1>6 DEF UpsertVenueAssignment, DeleteVenueAssignment, Call, startVars
<1>9. CASE EngineStep \/ Stop \/ UNCHANGED catalogVars
  BY <1>9, <1>6 DEF EngineStep, RecordBot, TouchBot, RecordRow, Stop, startVars, catalogVars
<1> QED
  BY <1>1, <1>2, <1>3, <1>4, <1>5, <1>7, <1>8, <1>9 DEF NextCatalog, StartStep, ApiStep

\* What the default venue resolves to is stored.
LEMMA DefaultResolves ==
    ASSUME StoredInv, phase # "off"
    PROVE  \E v \in DOMAIN venues : defaultVenueAssignmentLocked = Target(v)
<1>1. Default \in DOMAIN venues
  BY DEF StoredInv
<1>2. ASSUME Flagged # {}
      PROVE  (CHOOSE v \in Flagged : \A u \in Flagged : v <= u) \in Flagged
  <2>1. Flagged \subseteq Nat
    BY CatalogAssumption DEF Flagged, StoredInv
  <2> QED
    BY <1>2, <2>1, FirstId
<1>3. Flagged \subseteq DOMAIN venues
  BY DEF Flagged
<1> QED
  BY <1>1, <1>2, <1>3 DEF defaultVenueAssignmentLocked

\* Whatever venues and assignments were deleted or renamed, the orders of every bot have
\* a stored venue to go to, with the wallet that the venue has now.
THEOREM OrdersHaveTargets == SpecCatalog => []TargetsExist
<1>1. InitCatalog => StoredInv
  BY CatalogAssumption DEF InitCatalog, StoredInv
<1>2. StoredInv => TargetsExist
  <2> SUFFICES ASSUME StoredInv, phase # "off", NEW b \in Bots
               PROVE  /\ ListVenuesForBot(b) # {}
                      /\ \A t \in ListVenuesForBot(b) :
                            t.venue \in DOMAIN venues /\ t.wallet = venues[t.venue].wallet
    BY DEF TargetsExist
  <2>1. \A v \in DOMAIN venues :
           Target(v).venue = v /\ Target(v).wallet = venues[v].wallet
    BY DEF Target
  <2>2. PICK v \in DOMAIN venues : defaultVenueAssignmentLocked = Target(v)
    BY DefaultResolves
  <2> DEFINE stored == {a \in listBotVenueAssignments(b) : a.venue \in DOMAIN venues}
  <2>3. CASE stored = {}
    <3>1. ListVenuesForBot(b) = {Target(v)}
      BY <2>2, <2>3 DEF ListVenuesForBot
    <3> QED
      BY <2>1, <3>1
  <2>4. CASE stored # {}
    <3>1. ListVenuesForBot(b) = {Target(a.venue) : a \in stored}
      BY <2>4 DEF ListVenuesForBot
    <3>2. \A a \in stored : a.venue \in DOMAIN venues
      OBVIOUS
    <3> HIDE DEF stored
    <3> QED
      BY <2>1, <2>4, <3>1, <3>2
  <2> QED
    BY <2>3, <2>4
<1> QED
  BY <1>1, <1>2, StoredStep, PTL DEF SpecCatalog

-----------------------------------------------------------------------------
(* The operator's choice *)

Primaries(as, b) == {a \in as : a.bot = b /\ a.primary}

\* One primary per bot, and the one that was chosen. The sync is about to overwrite the
\* primary of the bot it has checked, so nobody's choice may be recorded for that bot.
ChoiceInv ==
    /\ chosen \in [Bots -> VenueIds \cup {Nobody}]
    /\ \A a \in assignments : a.primary \in BOOLEAN
    /\ \A b \in Bots : \A r, s \in Primaries(assignments, b) : r.venue = s.venue
    /\ \A b \in Bots : chosen[b] # Nobody =>
          \E r \in Primaries(assignments, b) : r.venue = chosen[b]
    /\ phase = "assign" /\ Head(page) \in Bots => chosen[Head(page)] = Nobody

\* What an assignment leaves: a primary replaces the primaries of its bot, anything else
\* replaces its own row, and the rows of other bots stay.
LEMMA AssignedRows ==
    ASSUME NEW b, NEW v, NEW p \in BOOLEAN,
           \A a \in assignments : a.primary \in BOOLEAN
    PROVE  /\ \A a \in Assigned(b, v, p) : a.primary \in BOOLEAN
           /\ p => /\ \A r \in Primaries(Assigned(b, v, p), b) : r.venue = v
                   /\ \E r \in Primaries(Assigned(b, v, p), b) : r.venue = v
           /\ ~p => /\ Primaries(Assigned(b, v, p), b) \subseteq Primaries(assignments, b)
                    /\ \A r \in Primaries(assignments, b) :
                          r.venue # v => r \in Primaries(Assigned(b, v, p), b)
           /\ \A c : c # b =>
                 /\ \A r \in Primaries(Assigned(b, v, p), c) :
                       \E s \in Primaries(assignments, c) : s.venue = r.venue
                 /\ \A s \in Primaries(assignments, c) :
                       \E r \in Primaries(Assigned(b, v, p), c) : s.venue = r.venue
<1> DEFINE new == [bot |-> b, venue |-> v, primary |-> p]
<1>1. CASE p
  <2>1. Assigned(b, v, p) = {a \in clearPrimary(b) : a.bot # b \/ a.venue # v} \cup {new}
    BY <1>1 DEF Assigned, upsertBotVenueAssignment
  <2>2. \A a \in clearPrimary(b) :
           \E s \in assignments : /\ a.bot = s.bot /\ a.venue = s.venue
                                  /\ a.primary = (s.primary /\ s.bot # b)
    BY DEF clearPrimary
  <2>3. \A s \in assignments :
           \E a \in clearPrimary(b) : /\ a.bot = s.bot /\ a.venue = s.venue
                                      /\ a.primary = (s.primary /\ s.bot # b)
    <3> SUFFICES ASSUME NEW s \in assignments
                 PROVE  \E a \in clearPrimary(b) :
                           /\ a.bot = s.bot /\ a.venue = s.venue
                           /\ a.primary = (s.primary /\ s.bot # b)
      OBVIOUS
    <3> DEFINE a == [bot |-> s.bot, venue |-> s.venue, primary |-> s.primary /\ s.bot # b]
    <3>1. a \in clearPrimary(b)
      BY DEF clearPrimary
    <3>2. a.bot = s.bot /\ a.venue = s.venue /\ a.primary = (s.primary /\ s.bot # b)
      OBVIOUS
    <3> HIDE DEF a
    <3> QED
      BY <3>1, <3>2
  <2>4. new.bot = b /\ new.venue = v /\ new.primary = p
    OBVIOUS
  <2> HIDE DEF new
  <2>5. \A a \in Assigned(b, v, p) : a.primary \in BOOLEAN
    BY <2>1, <2>2, <2>4
  <2>6. /\ \A r \in Primaries(Assigned(b, v, p), b) : r.venue = v
        /\ \E r \in Primaries(Assigned(b, v, p), b) : r.venue = v
    BY <1>1, <2>1, <2>2, <2>4 DEF Primaries
  <2>7. ASSUME NEW c, c # b
        PROVE  /\ \A r \in Primaries(Assigned(b, v, p), c) :
                     \E s \in Primaries(assignments, c) : s.venue = r.venue
               /\ \A s \in Primaries(assignments, c) :
                     \E r \in Primaries(Assigned(b, v, p), c) : s.venue = r.venue
    BY <2>1, <2>2, <2>3, <2>4, <2>7 DEF Primaries
  <2> QED
    BY <1>1, <2>5, <2>6, <2>7
<1>2. CASE ~p
  <2>1. Assigned(b, v, p) = {a \in assignments : a.bot # b \/ a.venue # v} \cup {new}
    BY <1>2 DEF Assigned, upsertBotVenueAssignment
  <2>2. new.bot = b /\ new.venue = v /\ new.primary = p
    OBVIOUS
  <2> HIDE DEF new
  <2>3. \A a \in Assigned(b, v, p) : a.primary \in BOOLEAN
    BY <2>1, <2>2
  <2>4. new.primary = FALSE
    BY <1>2, <2>2
  <2>5. /\ Primaries(Assigned(b, v, p), b) \subseteq Primaries(assignments, b)
        /\ \A r \in Primaries(assignments, b) :
              r.venue # v => r \in Primaries(Assigned(b, v, p), b)
    BY <2>1, <2>4 DEF Primaries
  <2>6. \A c : c # b => Primaries(Assigned(b, v, p), c) = Primaries(assignments, c)
    BY <2>1, <2>2 DEF Primaries
  <2> QED
    BY <1>2, <2>3, <2>5, <2>6
<1> QED
  BY <1>1, <1>2

\* A step that leaves assignments and choices alone, and brings no bot to its assignment.
LEMMA ChoiceFrame ==
    ASSUME ChoiceInv, UNCHANGED <<assignments, chosen>>,
           phase' = "assign" => phase = "assign" /\ page' = page
    PROVE  ChoiceInv'
  BY DEF ChoiceInv, Primaries

\* Every step keeps the choices.
LEMMA ChoiceStep == ChoiceInv /\ [NextCatalog]_catalogVars => ChoiceInv'
<1> SUFFICES ASSUME ChoiceInv, [NextCatalog]_catalogVars PROVE ChoiceInv'
  OBVIOUS
<1>t. /\ chosen \in [Bots -> VenueIds \cup {Nobody}]
      /\ \A a \in assignments : a.primary \in BOOLEAN
  BY DEF ChoiceInv
<1>1. CASE New \/ ConfigureVenue \/ EnsureDefaultVenueWallet
              \/ \E s \in SecretSets : initializeHyperliquidVenues(s)
  BY <1>1, ChoiceFrame DEF New, ConfigureVenue, EnsureDefaultVenueWallet,
     initializeHyperliquidVenues
<1>2. CASE SyncLists \/ SyncPageDone
  BY <1>2, ChoiceFrame DEF SyncLists, SyncPageDone
<1>3. CASE SyncChecks
  <2>1. UNCHANGED <<assignments, chosen>>
    BY <1>3 DEF SyncChecks
  <2>2. phase' = "assign" => page' = page /\ getPrimaryVenueForBot(Head(page)) = {}
    BY <1>3 DEF SyncChecks
  <2>3. ASSUME phase' = "assign", Head(page) \in Bots
        PROVE  chosen[Head(page)] = Nobody
    <3>1. Primaries(assignments, Head(page)) = {}
      BY <2>2, <2>3 DEF getPrimaryVenueForBot, listBotVenueAssignments, Primaries
    <3> QED
      BY <2>3, <3>1 DEF ChoiceInv
  <2> QED
    BY <2>1, <2>2, <2>3 DEF ChoiceInv
<1>4. CASE SyncAssigns
  <2>1. chosen' = chosen /\ phase = "assign" /\ phase' # "assign"
    BY <1>4 DEF SyncAssigns
  <2>2. CASE assignments' = assignments
    BY <2>1, <2>2, ChoiceFrame
  <2>3. CASE assignments' = Assigned(Head(page), Primary.id, TRUE)
    <3>h. PICK h : h = Head(page)
      OBVIOUS
    <3>v. PICK v : v = Primary.id
      OBVIOUS
    <3>0. h \in Bots => chosen[h] = Nobody
      BY <2>1, <3>h DEF ChoiceInv
    <3>p. PICK p \in BOOLEAN : p = TRUE
      OBVIOUS
    <3>a. assignments' = Assigned(h, v, p)
      BY <2>3, <3>h, <3>v, <3>p
    <3>1. /\ \A a \in assignments' : a.primary \in BOOLEAN
          /\ p => /\ \A r \in Primaries(assignments', h) : r.venue = v
                  /\ \E r \in Primaries(assignments', h) : r.venue = v
          /\ \A c : c # h =>
                /\ \A r \in Primaries(assignments', c) :
                      \E s \in Primaries(assignments, c) : s.venue = r.venue
                /\ \A s \in Primaries(assignments, c) :
                      \E r \in Primaries(assignments', c) : s.venue = r.venue
      BY <1>t, <3>a, AssignedRows
    <3>2. \A b \in Bots : \A r, s \in Primaries(assignments', b) : r.venue = s.venue
      BY <3>1, <3>p DEF ChoiceInv
    <3>3. \A b \in Bots : chosen[b] # Nobody =>
             \E r \in Primaries(assignments', b) : r.venue = chosen[b]
      BY <3>0, <3>1 DEF ChoiceInv
    <3> QED
      BY <1>t, <2>1, <3>1, <3>2, <3>3 DEF ChoiceInv, Primaries
  <2> QED
    BY <1>4, <2>2, <2>3 DEF SyncAssigns
<1>5. ASSUME NEW v \in VenueIds, NEW b \in Bots, NEW p \in BOOLEAN,
             UpsertVenueAssignment(v, b, p)
      PROVE  ChoiceInv'
  <2>1. /\ assignments' = Assigned(b, v, p)
        /\ chosen' = [chosen EXCEPT ![b] =
                        IF p /\ ~Overridden(b) THEN v
                        ELSE IF p \/ chosen[b] = v THEN Nobody ELSE chosen[b]]
        /\ UNCHANGED <<phase, page>>
    BY <1>5 DEF UpsertVenueAssignment, Call
  <2>2. /\ \A a \in assignments' : a.primary \in BOOLEAN
        /\ p => /\ \A r \in Primaries(assignments', b) : r.venue = v
                /\ \E r \in Primaries(assignments', b) : r.venue = v
        /\ ~p => /\ Primaries(assignments', b) \subseteq Primaries(assignments, b)
                 /\ \A r \in Primaries(assignments, b) :
                       r.venue # v => r \in Primaries(assignments', b)
        /\ \A c : c # b =>
              /\ \A r \in Primaries(assignments', c) :
                    \E s \in Primaries(assignments, c) : s.venue = r.venue
              /\ \A s \in Primaries(assignments, c) :
                    \E r \in Primaries(assignments', c) : s.venue = r.venue
    BY <1>t, <2>1, AssignedRows
  <2>3. /\ chosen' \in [Bots -> VenueIds \cup {Nobody}]
        /\ \A c \in Bots \ {b} : chosen'[c] = chosen[c]
        /\ chosen'[b] = IF p /\ ~Overridden(b) THEN v
                        ELSE IF p \/ chosen[b] = v THEN Nobody ELSE chosen[b]
    BY <1>t, <2>1
  <2>4. \A c \in Bots : \A r, s \in Primaries(assignments', c) : r.venue = s.venue
    BY <2>2 DEF ChoiceInv
  <2>5. ASSUME NEW c \in Bots, chosen'[c] # Nobody
        PROVE  \E r \in Primaries(assignments', c) : r.venue = chosen'[c]
    BY <2>2, <2>3, <2>5 DEF ChoiceInv
  <2>6. phase = "assign" /\ Head(page) \in Bots => chosen'[Head(page)] = Nobody
    BY <2>3 DEF ChoiceInv, Overridden
  <2> QED
    BY <2>1, <2>2, <2>3, <2>4, <2>5, <2>6 DEF ChoiceInv, Primaries
<1>6. ASSUME NEW v \in VenueIds, NEW b \in Bots, DeleteVenueAssignment(v, b)
      PROVE  ChoiceInv'
  <2>1. /\ assignments' = {a \in assignments : a.bot # b \/ a.venue # v}
        /\ chosen' = [chosen EXCEPT ![b] = IF chosen[b] = v THEN Nobody ELSE chosen[b]]
        /\ UNCHANGED <<phase, page>>
    BY <1>6 DEF DeleteVenueAssignment, deleteBotVenueAssignment, Call
  <2>2. /\ chosen' \in [Bots -> VenueIds \cup {Nobody}]
        /\ \A c \in Bots \ {b} : chosen'[c] = chosen[c]
        /\ chosen'[b] = IF chosen[b] = v THEN Nobody ELSE chosen[b]
    BY <1>t, <2>1
  <2>3. ASSUME NEW c \in Bots, chosen'[c] # Nobody
        PROVE  \E r \in Primaries(assignments', c) : r.venue = chosen'[c]
    <3>1. chosen'[c] = chosen[c] /\ (c = b => chosen[c] # v)
      BY <2>2, <2>3
    <3>2. PICK r \in Primaries(assignments, c) : r.venue = chosen[c]
      BY <2>3, <3>1 DEF ChoiceInv
    <3> QED
      BY <2>1, <3>1, <3>2 DEF Primaries
  <2>4. phase = "assign" /\ Head(page) \in Bots => chosen'[Head(page)] = Nobody
    BY <2>2 DEF ChoiceInv
  <2>5. \A c \in Bots : Primaries(assignments', c) \subseteq Primaries(assignments, c)
    BY <2>1 DEF Primaries
  <2>6. \A c \in Bots : \A r, s \in Primaries(assignments', c) : r.venue = s.venue
    BY <2>5 DEF ChoiceInv
  <2>7. \A a \in assignments' : a.primary \in BOOLEAN
    BY <1>t, <2>1
  <2> QED
    BY <2>1, <2>2, <2>3, <2>4, <2>6, <2>7 DEF ChoiceInv, Primaries
<1>7. CASE \/ \E v \in VenueIds, w \in Wallets, flag \in BOOLEAN : UpsertVenue(v, w, flag)
           \/ \E v \in VenueIds : DeleteVenue(v)
  BY <1>7, ChoiceFrame DEF UpsertVenue, DeleteVenue, Call
<1>8. CASE EngineStep \/ Stop \/ UNCHANGED catalogVars
  BY <1>8, ChoiceFrame DEF EngineStep, RecordBot, TouchBot, RecordRow, Stop, catalogVars
<1> QED
  BY <1>1, <1>2, <1>3, <1>4, <1>5, <1>6, <1>7, <1>8 DEF NextCatalog, StartStep, ApiStep

\* A start's sync leaves the primary that an operator chose, whatever the order of its
\* steps and the calls, and no bot ever has two.
THEOREM ChoiceSurvivesSync == SpecCatalog => []ChoiceKept
<1>1. InitCatalog => ChoiceInv
  BY DEF InitCatalog, ChoiceInv, Primaries
<1>2. ChoiceInv => ChoiceKept
  <2> SUFFICES ASSUME ChoiceInv, NEW b \in Bots
               PROVE  /\ Cardinality(getPrimaryVenueForBot(b)) <= 1
                      /\ chosen[b] # Nobody => getPrimaryVenueForBot(b) = {chosen[b]}
    BY DEF ChoiceKept
  <2>1. getPrimaryVenueForBot(b) = {a.venue : a \in Primaries(assignments, b)}
    BY DEF getPrimaryVenueForBot, listBotVenueAssignments, Primaries
  <2>2. \A r, s \in Primaries(assignments, b) : r.venue = s.venue
    BY DEF ChoiceInv
  <2>3. CASE Primaries(assignments, b) = {}
    <3>1. getPrimaryVenueForBot(b) = {} /\ chosen[b] = Nobody
      BY <2>1, <2>3 DEF ChoiceInv
    <3> QED
      BY <3>1, FS_EmptySet
  <2>4. CASE Primaries(assignments, b) # {}
    <3>1. PICK r \in Primaries(assignments, b) : TRUE
      BY <2>4
    <3>2. getPrimaryVenueForBot(b) = {r.venue}
      BY <2>1, <2>2, <3>1
    <3>3. chosen[b] # Nobody => r.venue = chosen[b]
      BY <2>2, <3>1 DEF ChoiceInv
    <3>4. Cardinality({r.venue}) = 1
      BY FS_Singleton
    <3> QED
      BY <3>2, <3>3, <3>4
  <2> QED
    BY <2>3, <2>4
<1> QED
  BY <1>1, <1>2, ChoiceStep, PTL DEF SpecCatalog

-----------------------------------------------------------------------------
(* The default venue moves to another wallet *)

\* A clone of the rows of one table, and the deletion of the rows of the old wallet.
LEMMA MigrationKeepsRows ==
    ASSUME NEW rs, NEW from, NEW to, from # to,
           NEW r \in rs, r.table \in {"submissions", "statuses"}
    PROVE  \E s \in migrateDefaultVenueWalletLocked(rs, from, to) :
              s.table = r.table /\ s.venue = r.venue /\ s.order = r.order
<1> DEFINE c1 == cloneSubmissions(rs, from, to)
           c2 == cloneStatuses(c1, from, to)
           c3 == cloneScaledOrders(c2, from, to)
<1>1. migrateDefaultVenueWalletLocked(rs, from, to)
         = deleteScaledOrders(deleteSubmissions(deleteStatuses(c3, from), from), from)
  BY DEF migrateDefaultVenueWalletLocked
<1>2. rs \subseteq c1 /\ c1 \subseteq c2 /\ c2 \subseteq c3
  BY DEF cloneSubmissions, cloneStatuses, cloneScaledOrders, Cloned
<1>3. \E s \in c3 : /\ s.table = r.table /\ s.venue = r.venue /\ s.order = r.order
                    /\ s.venue = Default => s.wallet # from
  <2>1. CASE r.venue # Default \/ r.wallet # from
    BY <1>2, <2>1
  <2>2. CASE r.venue = Default /\ r.wallet = from
    <3> DEFINE s == [table |-> r.table, venue |-> Default, wallet |-> to, order |-> r.order]
    <3>1. CASE r.table = "submissions"
      <4>1. s \in c1
        BY <2>2, <3>1 DEF cloneSubmissions, Cloned
      <4> QED
        BY <1>2, <2>2, <4>1
    <3>2. CASE r.table = "statuses"
      <4>1. s \in c2
        BY <1>2, <2>2, <3>2 DEF cloneStatuses, Cloned
      <4> QED
        BY <1>2, <2>2, <4>1
    <3> QED
      BY <3>1, <3>2
  <2> QED
    BY <2>1, <2>2
<1> HIDE DEF c1, c2, c3
<1>4. PICK s \in c3 : /\ s.table = r.table /\ s.venue = r.venue /\ s.order = r.order
                      /\ s.venue = Default => s.wallet # from
  BY <1>3
<1>5. s \in deleteScaledOrders(deleteSubmissions(deleteStatuses(c3, from), from), from)
  BY <1>4 DEF deleteScaledOrders, deleteSubmissions, deleteStatuses, Without
<1> QED
  BY <1>1, <1>4, <1>5

\* upsertDefaultVenueLocked keeps what it is given of submissions and statuses.
LEMMA UpsertKeepsRows ==
    ASSUME NEW w, NEW kept, upsertDefaultVenueLocked(w, kept),
           NEW r \in kept, r.table \in {"submissions", "statuses"}
    PROVE  \E s \in rows' : s.table = r.table /\ s.venue = r.venue /\ s.order = r.order
<1>1. CASE rows' = kept
  BY <1>1
<1>2. CASE /\ DefaultWallet # w
           /\ rows' = migrateDefaultVenueWalletLocked(kept, DefaultWallet, w)
  BY <1>2, MigrationKeepsRows
<1> QED
  BY <1>1, <1>2 DEF upsertDefaultVenueLocked

\* The rows are rows of the three tables.
TablesInv == \A r \in rows : r.table \in Tables

\* No step writes a row of another table.
LEMMA TablesStep == TablesInv /\ [NextCatalog]_catalogVars => TablesInv'
<1> SUFFICES ASSUME TablesInv, [NextCatalog]_catalogVars PROVE TablesInv'
  OBVIOUS
<1>1. ASSUME NEW w, NEW kept, kept \subseteq rows, upsertDefaultVenueLocked(w, kept)
      PROVE  TablesInv'
  <2>1. \A r \in kept : r.table \in Tables
    BY <1>1 DEF TablesInv
  <2>2. ASSUME NEW rs, NEW table \in Tables, NEW from, NEW to,
               \A r \in rs : r.table \in Tables
        PROVE  \A r \in Cloned(rs, table, from, to) : r.table \in Tables
    BY <2>2 DEF Cloned
  <2>3. CASE rows' = kept
    BY <2>1, <2>3 DEF TablesInv
  <2>4. CASE rows' = migrateDefaultVenueWalletLocked(kept, DefaultWallet, w)
    <3>f. PICK from : from = DefaultWallet
      OBVIOUS
    <3>t. {"submissions", "statuses", "scaled"} \subseteq Tables
      BY DEF Tables
    <3>1. \A r \in cloneSubmissions(kept, from, w) : r.table \in Tables
      BY <2>1, <2>2, <3>t DEF cloneSubmissions
    <3>2. \A r \in cloneStatuses(cloneSubmissions(kept, from, w), from, w) : r.table \in Tables
      BY <2>2, <3>1, <3>t DEF cloneStatuses
    <3>3. \A r \in cloneScaledOrders(cloneStatuses(cloneSubmissions(kept, from, w), from, w),
                                     from, w) : r.table \in Tables
      BY <2>2, <3>2, <3>t DEF cloneScaledOrders
    <3>4. rows' \subseteq
             cloneScaledOrders(cloneStatuses(cloneSubmissions(kept, from, w), from, w), from, w)
      BY <2>4, <3>f DEF migrateDefaultVenueWalletLocked, deleteScaledOrders,
         deleteSubmissions, deleteStatuses, Without
    <3> QED
      BY <3>3, <3>4 DEF TablesInv
  <2> QED
    BY <1>1, <2>3, <2>4 DEF upsertDefaultVenueLocked
<1>2. CASE New
  <2>1. upsertDefaultVenueLocked(Sentinel, {r \in rows : r.table # "scaled"})
    BY <1>2 DEF New
  <2> QED
    BY <1>1, <2>1
<1>3. CASE EnsureDefaultVenueWallet
  <2>1. \E w : upsertDefaultVenueLocked(w, rows)
    BY <1>3 DEF EnsureDefaultVenueWallet
  <2> QED
    BY <1>1, <2>1
<1>4. ASSUME NEW b \in Bots, NEW table \in Tables, NEW o \in Orders, RecordRow(b, table, o)
      PROVE  TablesInv'
  BY <1>4 DEF RecordRow, TablesInv
<1>5. CASE rows' = rows
  BY <1>5 DEF TablesInv
<1> QED
  BY <1>2, <1>3, <1>4, <1>5 DEF NextCatalog, StartStep, ApiStep, EngineStep, ConfigureVenue,
     initializeHyperliquidVenues, SyncLists, SyncChecks, SyncAssigns, SyncPageDone, Call,
     UpsertVenue, DeleteVenue, UpsertVenueAssignment, DeleteVenueAssignment, RecordBot,
     TouchBot, Stop, catalogVars

\* However often the default venue moves to another wallet, and whatever rows the new
\* wallet has already, no submission and no status of an order is lost.
THEOREM MigrationLosesNothing == SpecCatalog => RowsKept
<1>1. InitCatalog => TablesInv
  BY DEF InitCatalog, TablesInv
<1>2. ASSUME TablesInv, [NextCatalog]_catalogVars PROVE RowsSurvive
  <2> SUFFICES ASSUME NEW r \in rows, r.table # "scaled"
               PROVE  \E s \in rows' :
                         s.table = r.table /\ s.venue = r.venue /\ s.order = r.order
    BY DEF RowsSurvive
  <2>t. r.table \in {"submissions", "statuses"}
    BY <1>2 DEF TablesInv, Tables
  <2>1. CASE New
    <3> DEFINE kept == {s \in rows : s.table # "scaled"}
    <3>1. upsertDefaultVenueLocked(Sentinel, kept) /\ r \in kept
      BY <2>1 DEF New
    <3> HIDE DEF kept
    <3> QED
      BY <2>t, <3>1, UpsertKeepsRows
  <2>2. CASE EnsureDefaultVenueWallet
    <3>1. \E w : upsertDefaultVenueLocked(w, rows)
      BY <2>2 DEF EnsureDefaultVenueWallet
    <3> QED
      BY <2>t, <3>1, UpsertKeepsRows
  <2>3. CASE rows \subseteq rows'
    BY <2>3
  <2>4. ASSUME NEW b \in Bots, NEW table \in Tables, NEW o \in Orders, RecordRow(b, table, o)
        PROVE  rows \subseteq rows'
    BY <2>4 DEF RecordRow
  <2> QED
    BY <1>2, <2>1, <2>2, <2>3, <2>4 DEF NextCatalog, StartStep, ApiStep, EngineStep, ConfigureVenue,
       initializeHyperliquidVenues, SyncLists, SyncChecks, SyncAssigns, SyncPageDone, Call,
       UpsertVenue, DeleteVenue, UpsertVenueAssignment, DeleteVenueAssignment, RecordBot,
       TouchBot, Stop, catalogVars
<1> QED
  BY <1>1, <1>2, TablesStep, PTL DEF SpecCatalog, RowsKept

-----------------------------------------------------------------------------
(* The list of bots *)

\* Some bot is older than all the others.
LEMMA OldestBot ==
    ASSUME NEW T, T # {}, T \subseteq DOMAIN bots, DOMAIN bots \subseteq Nat,
           \A b \in DOMAIN bots : bots[b] \in Nat
    PROVE  \E b \in T : \A c \in T : c # b => Newer(c, b)
<1> DEFINE times == {bots[b] : b \in T}
<1>1. times \subseteq Nat /\ times # {}
  OBVIOUS
<1>2. PICK t \in times : \A u \in times : t <= u
  BY <1>1, FirstId
<1> DEFINE ids == {b \in T : bots[b] = t}
<1>3. ids \subseteq Nat /\ ids # {}
  BY <1>2
<1>4. PICK b \in ids : \A c \in ids : b <= c
  BY <1>3, FirstId
<1>5. ASSUME NEW c \in T, c # b PROVE Newer(c, b)
  <2>1. bots[b] = t /\ t <= bots[c] /\ bots[c] \in Nat /\ t \in Nat /\ b \in Nat /\ c \in Nat
    BY <1>1, <1>2, <1>3, <1>4
  <2>2. CASE bots[c] = t
    <3>1. b <= c
      BY <1>4, <2>2
    <3> QED
      BY <1>5, <2>1, <2>2, <3>1 DEF Newer
  <2>3. CASE bots[c] # t
    BY <2>1, <2>3 DEF Newer
  <2> QED
    BY <2>2, <2>3
<1> QED
  BY <1>4, <1>5

\* T listed in the order of the store.
Lists(q, T) == q \in SetToSeqs(T) /\ NewestFirst(q)

\* A list is extended by an older bot.
LEMMA ListExtended ==
    ASSUME NEW T, IsFiniteSet(T), NEW b \in T, \A c \in T : c # b => Newer(c, b),
           NEW r, Lists(r, T \ {b})
    PROVE  \E q : Lists(q, T)
<1> DEFINE n == Cardinality(T)
           m == Cardinality(T \ {b})
           q == [i \in 1 .. n |-> IF i = n THEN b ELSE r[i]]
<1>1. n \in Nat /\ m \in Nat /\ m = n - 1 /\ n >= 1
  <2>1. IsFiniteSet(T \ {b}) /\ Cardinality(T \ {b}) = Cardinality(T) - 1
    BY FS_RemoveElement
  <2>2. n \in Nat /\ m \in Nat
    BY <2>1, FS_CardinalityType
  <2> QED
    BY <2>1, <2>2
<1>2. r \in [1 .. m -> T \ {b}] /\ (\A i, j \in 1 .. m : i # j => r[i] # r[j])
  BY DEF Lists, SetToSeqs
<1>3. Len(r) = m
  BY <1>1, <1>2
<1>4. \A i, j \in 1 .. m : i < j => Newer(r[i], r[j])
  BY <1>3 DEF Lists, NewestFirst
<1> HIDE DEF n, m
<1>5. \A i \in 1 .. n : i # n => i \in 1 .. m /\ r[i] \in T \ {b}
  BY <1>1, <1>2
<1>6. q \in [1 .. n -> T] /\ \A i \in 1 .. n : q[i] = IF i = n THEN b ELSE r[i]
  BY <1>5
<1>7. Len(q) = n
  BY <1>1, <1>6
<1> HIDE DEF q
<1>8. \A i, j \in 1 .. n : i # j => q[i] # q[j]
  BY <1>2, <1>5, <1>6
<1>9. ASSUME NEW i \in 1 .. n, NEW j \in 1 .. n, i < j PROVE Newer(q[i], q[j])
  <2>1. i # n /\ i \in 1 .. m /\ q[i] = r[i] /\ r[i] \in T /\ r[i] # b
    BY <1>1, <1>5, <1>6, <1>9
  <2>2. CASE j = n
    <3>1. q[j] = b
      BY <1>6, <2>2
    <3> QED
      BY <2>1, <3>1
  <2>3. CASE j # n
    <3>1. j \in 1 .. m /\ q[j] = r[j]
      BY <1>5, <1>6, <2>3
    <3> QED
      BY <1>4, <1>9, <2>1, <3>1
  <2> QED
    BY <2>2, <2>3
<1>10. q \in SetToSeqs(T)
  BY <1>6, <1>8 DEF SetToSeqs, n
<1>11. NewestFirst(q)
  BY <1>7, <1>9 DEF NewestFirst
<1> QED
  BY <1>10, <1>11 DEF Lists

\* Every finite set of stored bots can be listed.
LEMMA ListExists ==
    ASSUME NEW S, IsFiniteSet(S), S \subseteq DOMAIN bots, DOMAIN bots \subseteq Nat,
           \A b \in DOMAIN bots : bots[b] \in Nat
    PROVE  \E q : Lists(q, S)
<1> DEFINE Unlisted == {n \in Nat : \E T \in SUBSET S :
                                       Cardinality(T) = n /\ ~\E q : Lists(q, T)}
<1>1. Unlisted = {}
  <2> SUFFICES ASSUME Unlisted # {} PROVE FALSE
    OBVIOUS
  <2>1. PICK n \in Unlisted : \A m \in Unlisted : n <= m
    BY FirstId
  <2>2. PICK T \in SUBSET S : Cardinality(T) = n /\ ~\E q : Lists(q, T)
    BY <2>1
  <2>3. IsFiniteSet(T)
    BY FS_Subset
  <2>4. CASE T = {}
    <3>1. Cardinality(T) = 0
      BY <2>4, FS_EmptySet
    <3> DEFINE q == [i \in 1 .. 0 |-> i]
    <3>2. q \in [1 .. 0 -> T] /\ Len(q) = 0
      OBVIOUS
    <3> HIDE DEF q
    <3>3. q \in SetToSeqs(T)
      BY <3>1, <3>2 DEF SetToSeqs
    <3>4. NewestFirst(q)
      BY <3>2 DEF NewestFirst
    <3> QED
      BY <2>2, <3>3, <3>4 DEF Lists
  <2>5. CASE T # {}
    <3>1. PICK b \in T : \A c \in T : c # b => Newer(c, b)
      BY <2>5, OldestBot
    <3>2. Cardinality(T \ {b}) = n - 1 /\ IsFiniteSet(T \ {b})
      BY <2>2, <2>3, FS_RemoveElement
    <3>3. Cardinality(T \ {b}) \in Nat
      BY <3>2, FS_CardinalityType
    <3>4. n - 1 \notin Unlisted
      BY <2>1
    <3>5. PICK r : Lists(r, T \ {b})
      BY <3>2, <3>3, <3>4
    <3> QED
      BY <2>2, <2>3, <3>1, <3>5, ListExtended
  <2> QED
    BY <2>4, <2>5
<1>2. Cardinality(S) \in Nat
  BY FS_CardinalityType
<1> QED
  BY <1>1, <1>2

\* ListBots lists the bots after the cursor, each of them once.
LEMMA BotsListed ==
    ASSUME IsFiniteSet(DOMAIN bots), DOMAIN bots \subseteq Nat,
           \A b \in DOMAIN bots : bots[b] \in Nat
    PROVE  LET S == {b \in DOMAIN bots : AfterCursor(b)}
           IN  /\ ListBots \in Seq(S) /\ Len(ListBots) = Cardinality(S)
               /\ \A b \in S : \E i \in 1 .. Len(ListBots) : ListBots[i] = b
<1> DEFINE S == {b \in DOMAIN bots : AfterCursor(b)}
           n == Cardinality(S)
<1>1. S \subseteq DOMAIN bots /\ IsFiniteSet(S)
  BY FS_Subset
<1>2. PICK q : Lists(q, S)
  BY <1>1, ListExists
<1>3. ListBots \in SetToSeqs(S)
  BY <1>2 DEF ListBots, Lists
<1>4. ListBots \in [1 .. n -> S] /\ \A i, j \in 1 .. n : i # j => ListBots[i] # ListBots[j]
  BY <1>3 DEF SetToSeqs
<1>5. n \in Nat
  BY <1>1, FS_CardinalityType
<1>6. Cardinality(1 .. n) = n /\ IsFiniteSet(1 .. n)
  BY <1>5, FS_Interval
<1> HIDE DEF S
<1>7. ListBots \in Injection(1 .. n, S)
  BY <1>4 DEF Injection, IsInjective
<1> HIDE DEF n
<1>8. ListBots \in Surjection(1 .. n, S)
  BY <1>1, <1>6, <1>7, FS_Injection DEF n
<1>9. ListBots \in Seq(S) /\ Len(ListBots) = n
  BY <1>4, <1>5
<1> QED
  BY <1>8, <1>9 DEF Surjection, n, S

-----------------------------------------------------------------------------
(* Types and keys *)

VenuesTyped ==
    /\ DOMAIN venues \subseteq VenueIds
    /\ \A v \in DOMAIN venues : venues[v] \in [wallet : Wallets, primary : BOOLEAN]
    /\ \A u, v \in DOMAIN venues : venues[u].wallet = venues[v].wallet => u = v

\* The rows of the table of assignments.
AssignmentRows(as) ==
    /\ as \subseteq [bot : Bots, venue : VenueIds, primary : BOOLEAN]
    /\ \A a, c \in as : a.bot = c.bot /\ a.venue = c.venue => a = c

\* There are finitely many bots, so that they can be listed.
BotsTyped ==
    /\ DOMAIN bots \subseteq Bots /\ IsFiniteSet(DOMAIN bots)
    /\ \A b \in DOMAIN bots : bots[b] \in 1..MaxSynced

OrderRow == [table : Tables, venue : VenueIds, wallet : Wallets, order : Orders]

\* The secrets of a start name a primary venue.
StartTyped ==
    /\ phase \in Phases
    /\ secrets \in Seq(Secret) /\ alias \in VenueIds /\ at \in Nat \ {0}
    /\ phase = "venues" => \E i \in 1..Len(secrets) : secrets[i].primary
    /\ chosen \in [Bots -> VenueIds \cup {Nobody}]
    /\ starts \in Nat /\ calls \in Nat

\* The sync assigns to the first bot of its page.
PageTyped ==
    /\ page \in Seq(Bots)
    /\ cursor \in ((1..MaxSynced) \X Bots) \cup {Nobody}
    /\ phase = "assign" => page # <<>>

CatalogInv ==
    /\ VenuesTyped /\ AssignmentRows(assignments) /\ BotsTyped /\ rows \subseteq OrderRow
    /\ StartTyped /\ PageTyped

\* A venue that is inserted or updated, with a wallet that is free, keeps the keys.
LEMMA UpsertVenueTyped ==
    ASSUME VenuesTyped, NEW v \in VenueIds, NEW w \in Wallets, NEW flag \in BOOLEAN,
           ~WalletTaken(v, w), venues' = upsertVenue(v, w, flag)
    PROVE  VenuesTyped'
<1> DEFINE new == [wallet |-> w, primary |-> flag]
<1>1. new \in [wallet : Wallets, primary : BOOLEAN] /\ new.wallet = w
  OBVIOUS
<1>2. venues' = [u \in DOMAIN venues \cup {v} |-> IF u = v THEN new ELSE venues[u]]
  BY DEF upsertVenue
<1> HIDE DEF new
<1>3. DOMAIN venues' = DOMAIN venues \cup {v}
  BY <1>2
<1>4. /\ venues'[v] = new
      /\ \A u \in DOMAIN venues' : u # v => u \in DOMAIN venues /\ venues'[u] = venues[u]
  BY <1>2
<1>5. \A u \in DOMAIN venues : u # v => venues[u].wallet # w
  BY DEF WalletTaken
<1>6. \A u \in DOMAIN venues' : venues'[u] \in [wallet : Wallets, primary : BOOLEAN]
  BY <1>1, <1>4 DEF VenuesTyped
<1>7. ASSUME NEW u \in DOMAIN venues', NEW t \in DOMAIN venues',
             venues'[u].wallet = venues'[t].wallet
      PROVE  u = t
  BY <1>1, <1>4, <1>5, <1>7 DEF VenuesTyped
<1>8. DOMAIN venues' \subseteq VenueIds
  BY <1>3 DEF VenuesTyped
<1> QED
  BY <1>6, <1>7, <1>8 DEF VenuesTyped

\* A row of the order tables stays one.
LEMMA ClonedTyped ==
    ASSUME NEW rs, rs \subseteq OrderRow, NEW table \in Tables, NEW from, NEW to \in Wallets
    PROVE  Cloned(rs, table, from, to) \subseteq OrderRow
<1> SUFFICES ASSUME NEW x \in Cloned(rs, table, from, to) PROVE x \in OrderRow
  OBVIOUS
<1>1. CASE x \in rs
  BY <1>1
<1>2. CASE x \notin rs
  <2>1. PICK r \in rs : x = [table |-> table, venue |-> Default, wallet |-> to,
                             order |-> r.order]
    BY <1>2 DEF Cloned
  <2>2. r.order \in Orders
    BY <2>1 DEF OrderRow
  <2>3. Default \in VenueIds
    BY CatalogAssumption
  <2> QED
    BY <2>1, <2>2, <2>3 DEF OrderRow
<1> QED
  BY <1>1, <1>2

\* upsertDefaultVenueLocked, whatever the wallet and the rows that are kept.
LEMMA UpsertDefaultTyped ==
    ASSUME CatalogInv, NEW w \in Wallets, NEW kept, kept \subseteq rows,
           upsertDefaultVenueLocked(w, kept)
    PROVE  VenuesTyped' /\ rows' \subseteq OrderRow
<1>0. kept \subseteq OrderRow /\ VenuesTyped
  BY DEF CatalogInv
<1>1. CASE WalletTaken(Default, w)
  <2>1. venues' = venues /\ rows' = kept
    BY <1>1 DEF upsertDefaultVenueLocked
  <2> QED
    BY <1>0, <2>1 DEF VenuesTyped
<1>2. CASE ~WalletTaken(Default, w)
  <2>1. venues' = upsertVenue(Default, w, FALSE)
    BY <1>2 DEF upsertDefaultVenueLocked
  <2>2. VenuesTyped'
    <3>1. PICK f \in BOOLEAN : f = FALSE
      OBVIOUS
    <3>2. Default \in VenueIds
      BY CatalogAssumption
    <3> QED
      BY <1>0, <1>2, <2>1, <3>1, <3>2, UpsertVenueTyped
  <2>3. rows' \subseteq OrderRow
    <3>1. CASE rows' = kept
      BY <1>0, <3>1
    <3>2. CASE rows' = migrateDefaultVenueWalletLocked(kept, DefaultWallet, w)
      <4>f. PICK from : from = DefaultWallet
        OBVIOUS
      <4>t. {"submissions", "statuses", "scaled"} \subseteq Tables
        BY DEF Tables
      <4>1. cloneSubmissions(kept, from, w) \subseteq OrderRow
        BY <1>0, <4>t, ClonedTyped DEF cloneSubmissions
      <4>2. cloneStatuses(cloneSubmissions(kept, from, w), from, w) \subseteq OrderRow
        BY <4>1, <4>t, ClonedTyped DEF cloneStatuses
      <4>3. cloneScaledOrders(cloneStatuses(cloneSubmissions(kept, from, w), from, w),
                              from, w) \subseteq OrderRow
        BY <4>2, <4>t, ClonedTyped DEF cloneScaledOrders
      <4>4. rows' \subseteq
               cloneScaledOrders(cloneStatuses(cloneSubmissions(kept, from, w), from, w),
                                 from, w)
        BY <3>2, <4>f DEF migrateDefaultVenueWalletLocked, deleteScaledOrders,
           deleteSubmissions, deleteStatuses, Without
      <4> QED
        BY <4>3, <4>4
    <3> QED
      BY <1>2, <3>1, <3>2 DEF upsertDefaultVenueLocked
  <2> QED
    BY <2>2, <2>3
<1> QED
  BY <1>1, <1>2

\* The primary venue of the secrets is one of them.
LEMMA PrimaryThere ==
    ASSUME secrets \in Seq(Secret), \E i \in 1..Len(secrets) : secrets[i].primary
    PROVE  Primary \in Secret
<1> DEFINE I == {i \in 1..Len(secrets) : secrets[i].primary}
<1>1. I \subseteq Nat /\ I # {}
  OBVIOUS
<1>2. SelectInSeq(secrets, LAMBDA s : s.primary) = Min(I)
  BY <1>1 DEF SelectInSeq
<1>3. \E i \in I : \A j \in I : i <= j
  BY <1>1, FirstId
<1>4. Min(I) \in I
  <2> HIDE DEF I
  <2> QED
    BY <1>3 DEF Min
<1>5. Primary = secrets[Min(I)]
  BY <1>2 DEF Primary
<1>6. Min(I) \in 1..Len(secrets)
  BY <1>4
<1> HIDE DEF I
<1> QED
  BY <1>5, <1>6

\* An assignment keeps types and keys of the table.
LEMMA AssignedTyped ==
    ASSUME AssignmentRows(assignments), NEW b \in Bots, NEW v \in VenueIds, NEW p \in BOOLEAN
    PROVE  AssignmentRows(Assigned(b, v, p))
<1> DEFINE new == [bot |-> b, venue |-> v, primary |-> p]
           Row == [bot : Bots, venue : VenueIds, primary : BOOLEAN]
           old == IF p THEN clearPrimary(b) ELSE assignments
<1>1. new \in Row /\ new.bot = b /\ new.venue = v
  OBVIOUS
<1>2. AssignmentRows(clearPrimary(b))
  <2>1. ASSUME NEW a \in clearPrimary(b)
        PROVE  /\ a \in Row
               /\ \E s \in assignments : a = [bot |-> s.bot, venue |-> s.venue,
                                              primary |-> s.primary /\ s.bot # b]
    <3>1. PICK s \in assignments : a = [bot |-> s.bot, venue |-> s.venue,
                                        primary |-> s.primary /\ s.bot # b]
      BY <2>1 DEF clearPrimary
    <3>2. s.bot \in Bots /\ s.venue \in VenueIds
      BY DEF AssignmentRows
    <3>3. (s.primary /\ s.bot # b) \in BOOLEAN
      OBVIOUS
    <3>4. PICK x \in BOOLEAN : x = (s.primary /\ s.bot # b)
      BY <3>3
    <3>5. a = [bot |-> s.bot, venue |-> s.venue, primary |-> x]
      BY <3>1, <3>4
    <3>6. a \in Row
      BY <3>2, <3>5
    <3> QED
      BY <3>1, <3>6
  <2>2. ASSUME NEW a \in clearPrimary(b), NEW c \in clearPrimary(b),
               a.bot = c.bot, a.venue = c.venue
        PROVE  a = c
    <3>1. PICK s \in assignments : a = [bot |-> s.bot, venue |-> s.venue,
                                        primary |-> s.primary /\ s.bot # b]
      BY <2>1
    <3>2. PICK t \in assignments : c = [bot |-> t.bot, venue |-> t.venue,
                                        primary |-> t.primary /\ t.bot # b]
      BY <2>1
    <3>3. s.bot = t.bot /\ s.venue = t.venue
      BY <2>2, <3>1, <3>2
    <3>4. s = t
      BY <3>3 DEF AssignmentRows
    <3> QED
      BY <3>1, <3>2, <3>4
  <2> QED
    BY <2>1, <2>2 DEF AssignmentRows
<1>3. AssignmentRows(old)
  BY <1>2
<1>4. Assigned(b, v, p) = {a \in old : a.bot # b \/ a.venue # v} \cup {new}
  BY DEF Assigned, upsertBotVenueAssignment
<1> HIDE DEF new, old
<1> QED
  BY <1>1, <1>3, <1>4 DEF AssignmentRows

\* Where an order goes is a venue with a wallet.
LEMMA TargetTyped ==
    ASSUME VenuesTyped, AssignmentRows(assignments), NEW b, NEW t,
           t \in ListVenuesForBot(b) \/ t = defaultVenueAssignmentLocked
    PROVE  t.venue \in VenueIds /\ t.wallet \in Wallets
<1>1. ASSUME NEW v \in VenueIds
      PROVE  Target(v).venue \in VenueIds /\ Target(v).wallet \in Wallets
  <2>1. CASE v \in DOMAIN venues
    <3>1. venues[v].wallet \in Wallets
      BY <2>1 DEF VenuesTyped
    <3> QED
      BY <2>1, <3>1 DEF Target
  <2>2. CASE v \notin DOMAIN venues
    BY <2>2, CatalogAssumption DEF Target
  <2> QED
    BY <2>1, <2>2
<1>2. Default \in VenueIds /\ VenueIds \subseteq Nat
  BY CatalogAssumption
<1>3. CASE t = defaultVenueAssignmentLocked
  <2>1. CASE Flagged # {}
    <3>1. Flagged \subseteq Nat /\ Flagged \subseteq VenueIds
      BY <1>2 DEF Flagged, VenuesTyped
    <3>2. \E v \in Flagged : \A u \in Flagged : v <= u
      BY <2>1, <3>1, FirstId
    <3>3. (CHOOSE v \in Flagged : \A u \in Flagged : v <= u) \in VenueIds
      BY <3>1, <3>2
    <3>4. t = Target(CHOOSE v \in Flagged : \A u \in Flagged : v <= u) \/ t = Target(Default)
      BY <1>3 DEF defaultVenueAssignmentLocked
    <3> QED
      BY <1>1, <1>2, <3>3, <3>4
  <2>2. CASE Flagged = {}
    BY <1>1, <1>2, <1>3, <2>2 DEF defaultVenueAssignmentLocked
  <2> QED
    BY <2>1, <2>2
<1>4. CASE t # defaultVenueAssignmentLocked
  <2>1. PICK a \in assignments : t = Target(a.venue)
    BY <1>4 DEF ListVenuesForBot, listBotVenueAssignments
  <2>2. a.venue \in VenueIds
    BY <2>1 DEF AssignmentRows
  <2> QED
    BY <1>1, <2>1, <2>2
<1> QED
  BY <1>3, <1>4

\* A part of the catalog that a step leaves alone.
LEMMA QuietCatalog ==
    ASSUME CatalogInv
    PROVE  /\ UNCHANGED venues => VenuesTyped'
           /\ UNCHANGED assignments => AssignmentRows(assignments)'
           /\ UNCHANGED bots => BotsTyped'
           /\ UNCHANGED rows => (rows \subseteq OrderRow)'
           /\ UNCHANGED <<phase, secrets, alias, at, chosen, starts, calls>> => StartTyped'
           /\ UNCHANGED <<phase, page, cursor>> => PageTyped'
<1>1. UNCHANGED venues => VenuesTyped'
  BY DEF CatalogInv, VenuesTyped
<1>2. UNCHANGED assignments => AssignmentRows(assignments)'
  BY DEF CatalogInv, AssignmentRows
<1>3. UNCHANGED bots => BotsTyped'
  BY DEF CatalogInv, BotsTyped
<1>4. UNCHANGED rows => (rows \subseteq OrderRow)'
  BY DEF CatalogInv, OrderRow
<1>5. UNCHANGED <<phase, secrets, alias, at, chosen, starts, calls>> => StartTyped'
  BY DEF CatalogInv, StartTyped
<1>6. UNCHANGED <<phase, page, cursor>> => PageTyped'
  BY DEF CatalogInv, PageTyped
<1> QED
  BY <1>1, <1>2, <1>3, <1>4, <1>5, <1>6

LEMMA CatalogInit == InitCatalog => CatalogInv
<1> SUFFICES ASSUME InitCatalog PROVE CatalogInv
  OBVIOUS
<1>1. VenuesTyped
  BY DEF InitCatalog, VenuesTyped
<1>2. AssignmentRows(assignments)
  BY DEF InitCatalog, AssignmentRows
<1>3. BotsTyped
  BY FS_EmptySet DEF InitCatalog, BotsTyped
<1>4. StartTyped
  <2>1. Default \in VenueIds
    BY CatalogAssumption
  <2> QED
    BY <2>1 DEF InitCatalog, StartTyped, Phases
<1>5. PageTyped
  BY DEF InitCatalog, PageTyped
<1>6. rows \subseteq OrderRow
  BY DEF InitCatalog
<1> QED
  BY <1>1, <1>2, <1>3, <1>4, <1>5, <1>6 DEF CatalogInv

LEMMA VenueStartTyped ==
    ASSUME CatalogInv, New \/ EnsureDefaultVenueWallet \/ ConfigureVenue
    PROVE  CatalogInv'
<1>1. UNCHANGED <<assignments, bots, secrets, alias, page, calls, chosen>>
  BY DEF New, EnsureDefaultVenueWallet, ConfigureVenue
<1>2. /\ secrets \in Seq(Secret) /\ at \in Nat \ {0} /\ starts \in Nat
      /\ \A i \in 1..Len(secrets) : secrets[i] \in Secret
  BY DEF CatalogInv, StartTyped
<1>3. CASE New
  <2>1. /\ starts' = starts + 1 /\ phase' = "waiting" /\ UNCHANGED <<at, cursor>>
        /\ upsertDefaultVenueLocked(Sentinel, {r \in rows : r.table # "scaled"})
    BY <1>3 DEF New
  <2>2. PICK kept : kept = {r \in rows : r.table # "scaled"}
    OBVIOUS
  <2>3. Sentinel \in Wallets /\ kept \subseteq rows
    BY <2>2, CatalogAssumption
  <2>4. VenuesTyped' /\ rows' \subseteq OrderRow
    BY <2>1, <2>2, <2>3, UpsertDefaultTyped
  <2>5. StartTyped'
    BY <1>1, <1>2, <2>1 DEF CatalogInv, StartTyped, Phases
  <2>6. PageTyped'
    BY <1>1, <2>1 DEF CatalogInv, PageTyped
  <2> QED
    BY <1>1, <2>4, <2>5, <2>6, QuietCatalog DEF CatalogInv, OrderRow
<1>4. CASE EnsureDefaultVenueWallet
  <2> DEFINE w == IF shouldUseSentinelDefaultHyperliquidWallet THEN Sentinel
                  ELSE Primary.wallet
  <2>1. /\ phase = "venues" /\ phase' = "list" /\ UNCHANGED <<at, starts>>
        /\ cursor' = Nobody /\ upsertDefaultVenueLocked(w, rows)
    BY <1>4 DEF EnsureDefaultVenueWallet
  <2>2. Primary \in Secret
    BY <2>1, PrimaryThere DEF CatalogInv, StartTyped
  <2>3. w \in Wallets
    BY <2>2, CatalogAssumption DEF Secret
  <2> HIDE DEF w
  <2>4. VenuesTyped' /\ rows' \subseteq OrderRow
    BY <2>1, <2>3, UpsertDefaultTyped
  <2>5. StartTyped'
    BY <1>1, <1>2, <2>1 DEF CatalogInv, StartTyped, Phases
  <2>6. PageTyped'
    BY <1>1, <2>1 DEF CatalogInv, PageTyped
  <2> QED
    BY <1>1, <2>4, <2>5, <2>6, QuietCatalog DEF CatalogInv, OrderRow
<1>5. CASE ConfigureVenue
  <2>1. /\ at <= Len(secrets) /\ at' = at + 1 /\ UNCHANGED <<rows, cursor, starts>>
        /\ phase = "venues" /\ phase' \in {"venues", "off"}
    BY <1>5 DEF ConfigureVenue
  <2>2. PICK s \in Secret : s = secrets[at]
    BY <1>2, <2>1
  <2>3. s.id \in VenueIds /\ s.wallet \in Wallets /\ s.primary \in BOOLEAN
    BY DEF Secret
  <2>4. \/ UNCHANGED venues
        \/ ~WalletTaken(s.id, s.wallet) /\ venues' = upsertVenue(s.id, s.wallet, s.primary)
    BY <1>5, <2>2 DEF ConfigureVenue
  <2>5. VenuesTyped'
    BY <2>3, <2>4, UpsertVenueTyped, QuietCatalog DEF CatalogInv
  <2>6. StartTyped'
    BY <1>1, <1>2, <2>1 DEF CatalogInv, StartTyped, Phases
  <2>7. PageTyped'
    BY <1>1, <2>1 DEF CatalogInv, PageTyped
  <2> QED
    BY <1>1, <2>1, <2>5, <2>6, <2>7, QuietCatalog DEF CatalogInv
<1> QED
  BY <1>3, <1>4, <1>5

LEMMA SecretsTyped ==
    ASSUME CatalogInv, NEW s \in SecretSets, initializeHyperliquidVenues(s)
    PROVE  CatalogInv'
<1>1. /\ UNCHANGED <<venues, assignments, bots, rows, page, cursor, starts, calls, chosen>>
      /\ phase' = "venues" /\ secrets' = s /\ at' = 1
      /\ alias' = defaultVenueAssignmentLocked.venue
  BY DEF initializeHyperliquidVenues
<1>2. s \in Seq(Secret) /\ \E i \in 1..Len(s) : s[i].primary
  BY CatalogAssumption
<1>3. PICK t : t = defaultVenueAssignmentLocked
  OBVIOUS
<1>4. alias' \in VenueIds
  BY <1>1, <1>3, TargetTyped DEF CatalogInv
<1>5. StartTyped'
  BY <1>1, <1>2, <1>4 DEF CatalogInv, StartTyped, Phases
<1>6. PageTyped'
  BY <1>1 DEF CatalogInv, PageTyped
<1> QED
  BY <1>1, <1>5, <1>6, QuietCatalog DEF CatalogInv

\* What ListBots needs to know of the stored bots.
LEMMA BotsCanBeListed ==
    ASSUME BotsTyped
    PROVE  /\ IsFiniteSet(DOMAIN bots) /\ DOMAIN bots \subseteq Nat
           /\ \A b \in DOMAIN bots : bots[b] \in Nat
<1>1. \A b \in DOMAIN bots : bots[b] \in 1..MaxSynced
  BY DEF BotsTyped
<1>2. \A x \in 1..MaxSynced : x \in Nat
  OBVIOUS
<1> QED
  BY <1>1, <1>2, CatalogAssumption DEF BotsTyped

LEMMA SyncTyped ==
    ASSUME CatalogInv, SyncLists \/ SyncChecks \/ SyncAssigns \/ SyncPageDone
    PROVE  CatalogInv'
<1>1. UNCHANGED <<venues, bots, rows, secrets, alias, at, starts, calls, chosen>>
  BY DEF SyncLists, SyncChecks, SyncAssigns, SyncPageDone, startVars
<1>2. phase' \in Phases \ {"venues"}
  BY DEF SyncLists, SyncChecks, SyncAssigns, SyncPageDone, Phases, CatalogInv, StartTyped
<1>3. StartTyped'
  BY <1>1, <1>2 DEF CatalogInv, StartTyped
<1>4. page \in Seq(Bots)
  BY DEF CatalogInv, PageTyped
<1>5. page # <<>> => Head(page) \in Bots /\ Tail(page) \in Seq(Bots)
  BY <1>4
<1>6. AssignmentRows(assignments)' /\ PageTyped'
  <2>1. CASE SyncLists
    <3> DEFINE S == {b \in DOMAIN bots : AfterCursor(b)}
               k == IF Len(ListBots) > PageSize THEN PageSize ELSE Len(ListBots)
    <3>1. /\ UNCHANGED assignments /\ page' = SubSeq(ListBots, 1, k)
          /\ cursor' = NextToken(ListBots) /\ phase' # "assign"
      BY <2>1 DEF SyncLists
    <3>2. ListBots \in Seq(S)
      BY BotsCanBeListed, BotsListed DEF CatalogInv
    <3>3. S \subseteq Bots /\ S \subseteq DOMAIN bots
      BY DEF CatalogInv, BotsTyped
    <3> HIDE DEF S
    <3>4. ListBots \in Seq(Bots) /\ Len(ListBots) \in Nat /\ PageSize \in Nat \ {0}
      BY <3>2, <3>3, CatalogAssumption
    <3>5. k \in Nat /\ k <= Len(ListBots)
      BY <3>4
    <3> HIDE DEF k
    <3>6. page' \in Seq(Bots)
      BY <3>1, <3>4, <3>5
    <3>7. cursor' \in ((1..MaxSynced) \X Bots) \cup {Nobody}
      <4>1. CASE Len(ListBots) > PageSize
        <5>1. PICK b \in S : b = ListBots[PageSize + 1]
          BY <3>2, <3>4, <4>1
        <5>2. bots[b] \in 1..MaxSynced /\ b \in Bots
          BY <3>3 DEF CatalogInv, BotsTyped
        <5>3. cursor' = <<bots[b], b>>
          BY <3>1, <4>1, <5>1 DEF NextToken
        <5> QED
          BY <5>2, <5>3
      <4>2. CASE ~(Len(ListBots) > PageSize)
        BY <3>1, <4>2 DEF NextToken
      <4> QED
        BY <4>1, <4>2
    <3> QED
      BY <3>1, <3>6, <3>7, QuietCatalog DEF PageTyped
  <2>2. CASE SyncChecks
    <3>1. UNCHANGED <<assignments, cursor>> /\ page # <<>> /\ page' \in {page, Tail(page)}
          /\ (phase' = "assign" => page' = page)
      BY <2>2 DEF SyncChecks
    <3> QED
      BY <1>4, <1>5, <3>1, QuietCatalog DEF CatalogInv, PageTyped
  <2>3. CASE SyncAssigns
    <3>1. page # <<>> /\ UNCHANGED cursor /\ phase' # "assign"
      BY <2>3 DEF SyncAssigns, CatalogInv, PageTyped
    <3>2. CASE Primary.id \in DOMAIN venues
      <4>1. assignments' = Assigned(Head(page), Primary.id, TRUE) /\ page' = Tail(page)
        BY <2>3, <3>2 DEF SyncAssigns
      <4>2. PICK b \in Bots, v \in VenueIds, p \in BOOLEAN :
               b = Head(page) /\ v = Primary.id /\ p = TRUE
        BY <1>5, <3>1, <3>2 DEF CatalogInv, VenuesTyped
      <4>3. AssignmentRows(Assigned(b, v, p))
        BY AssignedTyped DEF CatalogInv
      <4>4. assignments' = Assigned(b, v, p)
        BY <4>1, <4>2
      <4>5. AssignmentRows(assignments')
        BY <4>3, <4>4
      <4>6. PageTyped'
        BY <1>5, <3>1, <4>1 DEF CatalogInv, PageTyped
      <4> QED
        BY <4>5, <4>6 DEF AssignmentRows
    <3>3. CASE Primary.id \notin DOMAIN venues
      <4>1. UNCHANGED <<assignments, page>>
        BY <2>3, <3>3 DEF SyncAssigns
      <4> QED
        BY <3>1, <4>1, QuietCatalog DEF CatalogInv, PageTyped
    <3> QED
      BY <3>2, <3>3
  <2>4. CASE SyncPageDone
    <3>1. UNCHANGED <<assignments, page, cursor>> /\ phase' # "assign"
      BY <2>4 DEF SyncPageDone
    <3> QED
      BY <3>1, QuietCatalog DEF CatalogInv, PageTyped
  <2> QED
    BY <2>1, <2>2, <2>3, <2>4
<1> QED
  BY <1>1, <1>3, <1>6, QuietCatalog DEF CatalogInv

LEMMA ApiTyped ==
    ASSUME CatalogInv, ApiStep
    PROVE  CatalogInv'
<1>0. AssignmentRows(assignments) /\ VenuesTyped
      /\ chosen \in [Bots -> VenueIds \cup {Nobody}]
  BY DEF CatalogInv, StartTyped
<1>1. ASSUME Call, chosen' \in [Bots -> VenueIds \cup {Nobody}], VenuesTyped',
             AssignmentRows(assignments')
      PROVE  CatalogInv'
  <2>1. /\ UNCHANGED <<bots, rows, phase, secrets, alias, at, page, cursor, starts>>
        /\ calls' = calls + 1
    BY <1>1 DEF Call, startVars
  <2>2. StartTyped'
    BY <1>1, <2>1 DEF CatalogInv, StartTyped
  <2>3. AssignmentRows(assignments)'
    BY <1>1 DEF AssignmentRows
  <2> QED
    BY <1>1, <2>1, <2>2, <2>3, QuietCatalog DEF CatalogInv
<1>2. ASSUME NEW v \in VenueIds, NEW w \in Wallets, NEW flag \in BOOLEAN,
             UpsertVenue(v, w, flag)
      PROVE  CatalogInv'
  <2>1. /\ Call /\ ~WalletTaken(v, w) /\ venues' = upsertVenue(v, w, flag)
        /\ UNCHANGED <<assignments, chosen>>
    BY <1>2 DEF UpsertVenue
  <2>2. VenuesTyped'
    BY <1>0, <2>1, UpsertVenueTyped
  <2> QED
    BY <1>0, <1>1, <2>1, <2>2
<1>3. ASSUME NEW v \in VenueIds, DeleteVenue(v) PROVE CatalogInv'
  <2>1. Call /\ venues' = deleteVenue(v) /\ UNCHANGED <<assignments, chosen>>
    BY <1>3 DEF DeleteVenue
  <2>2. DOMAIN venues' \subseteq DOMAIN venues /\ \A u \in DOMAIN venues' : venues'[u] = venues[u]
    BY <2>1 DEF deleteVenue
  <2>3. VenuesTyped'
    BY <1>0, <2>2 DEF VenuesTyped
  <2> QED
    BY <1>0, <1>1, <2>1, <2>3
<1>4. ASSUME NEW v \in VenueIds, NEW b \in Bots, NEW p \in BOOLEAN,
             UpsertVenueAssignment(v, b, p)
      PROVE  CatalogInv'
  <2>1. Call /\ assignments' = Assigned(b, v, p) /\ UNCHANGED venues
    BY <1>4 DEF UpsertVenueAssignment
  <2>2. AssignmentRows(assignments')
    BY <1>0, <2>1, AssignedTyped
  <2>3. VenuesTyped'
    BY <2>1, QuietCatalog
  <2>4. chosen' \in [Bots -> VenueIds \cup {Nobody}]
    <3>1. PICK x \in VenueIds \cup {Nobody} : chosen' = [chosen EXCEPT ![b] = x]
      <4>1. chosen[b] \in VenueIds \cup {Nobody}
        BY <1>0
      <4> QED
        BY <1>4, <4>1 DEF UpsertVenueAssignment
    <3> QED
      BY <1>0, <3>1
  <2> QED
    BY <1>1, <2>1, <2>2, <2>3, <2>4
<1>5. ASSUME NEW v \in VenueIds, NEW b \in Bots, DeleteVenueAssignment(v, b)
      PROVE  CatalogInv'
  <2>1. Call /\ assignments' = deleteBotVenueAssignment(b, v) /\ UNCHANGED venues
    BY <1>5 DEF DeleteVenueAssignment
  <2>2. AssignmentRows(assignments')
    BY <1>0, <2>1 DEF deleteBotVenueAssignment, AssignmentRows
  <2>3. VenuesTyped'
    BY <2>1, QuietCatalog
  <2>4. chosen' \in [Bots -> VenueIds \cup {Nobody}]
    BY <1>0, <1>5 DEF DeleteVenueAssignment
  <2> QED
    BY <1>1, <2>1, <2>2, <2>3, <2>4
<1> QED
  BY <1>2, <1>3, <1>4, <1>5 DEF ApiStep

LEMMA EngineTyped ==
    ASSUME CatalogInv, EngineStep \/ Stop
    PROVE  CatalogInv'
<1>1. /\ UNCHANGED <<venues, assignments, secrets, alias, at, page, cursor, starts, calls,
                     chosen>>
      /\ phase' = phase \/ phase' = "off"
  BY DEF EngineStep, RecordBot, TouchBot, RecordRow, Stop, startVars
<1>2. StartTyped'
  BY <1>1 DEF CatalogInv, StartTyped, Phases
<1>3. PageTyped'
  BY <1>1 DEF CatalogInv, PageTyped
<1>4. BotsTyped' /\ (rows \subseteq OrderRow)'
  <2>1. ASSUME NEW b \in Bots, NEW t \in 1..MaxSynced, RecordBot(b, t)
        PROVE  BotsTyped' /\ (rows \subseteq OrderRow)'
    <3>1. UNCHANGED rows /\ bots' = upsertBot(b, t)
      BY <2>1 DEF RecordBot
    <3>2. /\ DOMAIN bots' = DOMAIN bots \cup {b}
          /\ \A c \in DOMAIN bots' : bots'[c] = t \/ (c \in DOMAIN bots /\ bots'[c] = bots[c])
      BY <3>1 DEF upsertBot
    <3>3. IsFiniteSet(DOMAIN bots')
      BY <3>2, FS_AddElement DEF CatalogInv, BotsTyped
    <3> QED
      BY <3>1, <3>2, <3>3, QuietCatalog DEF CatalogInv, BotsTyped
  <2>2. ASSUME NEW b \in Bots, NEW t \in 1..MaxSynced, TouchBot(b, t)
        PROVE  BotsTyped' /\ (rows \subseteq OrderRow)'
    <3>1. UNCHANGED rows /\ bots' = updateBotSync(b, t)
      BY <2>2 DEF TouchBot
    <3>2. DOMAIN bots' = DOMAIN bots /\ \A c \in DOMAIN bots : bots'[c] \in {t, bots[c]}
      BY <3>1 DEF updateBotSync
    <3> QED
      BY <3>1, <3>2, QuietCatalog DEF CatalogInv, BotsTyped
  <2>3. ASSUME NEW b \in Bots, NEW table \in Tables, NEW o \in Orders,
               RecordRow(b, table, o)
        PROVE  BotsTyped' /\ (rows \subseteq OrderRow)'
    <3>1. PICK t \in ListVenuesForBot(b) :
             rows' = rows \cup {[table |-> table, venue |-> t.venue, wallet |-> t.wallet,
                                 order |-> o]}
      BY <2>3 DEF RecordRow
    <3>2. t.venue \in VenueIds /\ t.wallet \in Wallets
      BY TargetTyped DEF CatalogInv
    <3>3. UNCHANGED bots
      BY <2>3 DEF RecordRow
    <3>4. rows' \subseteq OrderRow
      BY <3>1, <3>2 DEF OrderRow, CatalogInv
    <3> QED
      BY <3>3, <3>4, QuietCatalog DEF OrderRow
  <2>4. CASE Stop
    BY <2>4, QuietCatalog DEF Stop
  <2> QED
    BY <2>1, <2>2, <2>3, <2>4 DEF EngineStep
<1> QED
  BY <1>1, <1>2, <1>3, <1>4, QuietCatalog DEF CatalogInv

LEMMA CatalogStep == CatalogInv /\ [NextCatalog]_catalogVars => CatalogInv'
<1> SUFFICES ASSUME CatalogInv, [NextCatalog]_catalogVars PROVE CatalogInv'
  OBVIOUS
<1>1. CASE StartStep
  BY <1>1, VenueStartTyped, SecretsTyped, SyncTyped DEF StartStep
<1>2. CASE ApiStep
  BY <1>2, ApiTyped
<1>3. CASE EngineStep \/ Stop
  BY <1>3, EngineTyped
<1>4. CASE UNCHANGED catalogVars
  BY <1>4, QuietCatalog DEF catalogVars, CatalogInv
<1> QED
  BY <1>1, <1>2, <1>3, <1>4 DEF NextCatalog

\* Tables, phases and the progress of a start keep their types, and the tables their keys,
\* whatever operators do beside a start: an upsert never leaves a bot with two rows for a
\* venue (storage.go:199) or two venues with one wallet, also where a wallet that is taken
\* is passed over without an error (storage.go:294).
THEOREM CatalogTypeCorrect == SpecCatalog => []CatalogTypeOK
<1>1. CatalogInv => CatalogTypeOK
  BY DEF CatalogInv, CatalogTypeOK, VenuesTyped, AssignmentRows, BotsTyped, OrderRow, StartTyped,
     PageTyped
<1> QED
  BY <1>1, CatalogInit, CatalogStep, PTL DEF SpecCatalog

-----------------------------------------------------------------------------
(* The sync reaches every bot, as long as one page holds them *)

\* Where the sync is: what has no primary is still in its page.
CoverInv ==
    /\ calls = 0
    /\ phase \in {"list", "sync", "assign"} => cursor = Nobody
    /\ phase \in {"sync", "assign"} =>
          \A b \in DOMAIN bots : \/ \E i \in 1..Len(page) : page[i] = b
                                 \/ getPrimaryVenueForBot(b) # {}

\* The rest of a page.
LEMMA TailOf ==
    ASSUME NEW S, NEW q \in Seq(S), q # <<>>, NEW i \in 1..Len(q), q[i] # Head(q)
    PROVE  \E j \in 1..Len(Tail(q)) : Tail(q)[j] = q[i]
<1>1. i # 1 /\ Len(q) \in Nat /\ i \in Nat
  OBVIOUS
<1>2. i - 1 \in 1..Len(Tail(q)) /\ Tail(q)[i - 1] = q[i]
  BY <1>1
<1> QED
  BY <1>2

\* No bot loses its primary in an assignment to a bot, and that one has it then.
LEMMA AssignmentCovers ==
    ASSUME AssignmentRows(assignments), NEW b, NEW v, NEW p \in BOOLEAN,
           assignments' = Assigned(b, v, p)
    PROVE  /\ p => getPrimaryVenueForBot(b)' # {}
           /\ \A c : c # b /\ getPrimaryVenueForBot(c) # {} => getPrimaryVenueForBot(c)' # {}
<1>1. \A a \in assignments : a.primary \in BOOLEAN
  BY DEF AssignmentRows
<1>2. /\ \A a \in assignments' : a.primary \in BOOLEAN
      /\ p => /\ \A r \in Primaries(assignments', b) : r.venue = v
              /\ \E r \in Primaries(assignments', b) : r.venue = v
      /\ \A c : c # b =>
            /\ \A r \in Primaries(assignments', c) :
                  \E s \in Primaries(assignments, c) : s.venue = r.venue
            /\ \A s \in Primaries(assignments, c) :
                  \E r \in Primaries(assignments', c) : s.venue = r.venue
  BY <1>1, AssignedRows
<1>3. \A c : /\ Primaries(assignments, c) # {} <=> getPrimaryVenueForBot(c) # {}
             /\ Primaries(assignments', c) # {} <=> getPrimaryVenueForBot(c)' # {}
  BY DEF Primaries, getPrimaryVenueForBot, listBotVenueAssignments
<1> QED
  BY <1>2, <1>3

LEMMA CoverStep ==
    ASSUME MaxCalls = 0, IsFiniteSet(Bots), Cardinality(Bots) <= PageSize
    PROVE  CatalogInv /\ CoverInv /\ [NextCatalog]_catalogVars => CoverInv'
<1> SUFFICES ASSUME CatalogInv, CoverInv, [NextCatalog]_catalogVars PROVE CoverInv'
  OBVIOUS
<1>1. CASE New \/ ConfigureVenue \/ EnsureDefaultVenueWallet
              \/ \E s \in SecretSets : initializeHyperliquidVenues(s)
  <2>1. phase' \notin {"sync", "assign"} /\ calls' = calls
        /\ (phase' = "list" => cursor' = Nobody)
    BY <1>1 DEF New, ConfigureVenue, EnsureDefaultVenueWallet, initializeHyperliquidVenues
  <2> QED
    BY <2>1 DEF CoverInv
<1>2. CASE SyncLists
  <2> DEFINE S == {b \in DOMAIN bots : AfterCursor(b)}
  <2>1. cursor = Nobody /\ UNCHANGED <<bots, calls>>
    BY <1>2 DEF SyncLists, CoverInv
  <2>2. S = DOMAIN bots
    BY <2>1 DEF AfterCursor
  <2>3. /\ ListBots \in Seq(S) /\ Len(ListBots) = Cardinality(S)
        /\ \A b \in S : \E i \in 1..Len(ListBots) : ListBots[i] = b
    BY BotsCanBeListed, BotsListed DEF CatalogInv
  <2> HIDE DEF S
  <2>4. Cardinality(S) <= Cardinality(Bots)
    BY <2>2, FS_Subset DEF CatalogInv, BotsTyped
  <2>5. Len(ListBots) \in Nat /\ PageSize \in Nat /\ Cardinality(Bots) \in Nat
    BY <2>3, CatalogAssumption, FS_CardinalityType
  <2>6. ~(Len(ListBots) > PageSize)
    BY <2>3, <2>4, <2>5
  <2>7. cursor' = Nobody
    BY <1>2, <2>6 DEF SyncLists, NextToken
  <2>8. page' = SubSeq(ListBots, 1, Len(ListBots))
    BY <1>2, <2>6 DEF SyncLists
  <2>9. page' = ListBots
    BY <2>3, <2>8
  <2>10. \A b \in DOMAIN bots' : \E i \in 1..Len(page') : page'[i] = b
    BY <2>1, <2>2, <2>3, <2>9
  <2> QED
    BY <2>1, <2>7, <2>10 DEF CoverInv
<1>3. CASE SyncChecks
  <2>1. /\ phase = "sync" /\ page # <<>> /\ UNCHANGED <<assignments, bots, cursor, calls>>
        /\ \/ page' = page
           \/ page' = Tail(page) /\ getPrimaryVenueForBot(Head(page)) # {}
    BY <1>3 DEF SyncChecks
  <2>2. page \in Seq(Bots)
    BY DEF CatalogInv, PageTyped
  <2>3. \A b : getPrimaryVenueForBot(b)' = getPrimaryVenueForBot(b)
    BY <2>1 DEF getPrimaryVenueForBot, listBotVenueAssignments
  <2>4. ASSUME NEW b \in DOMAIN bots
        PROVE  (\E i \in 1..Len(page') : page'[i] = b) \/ getPrimaryVenueForBot(b) # {}
    <3>1. CASE \E i \in 1..Len(page) : page[i] = b
      <4>1. PICK i \in 1..Len(page) : page[i] = b
        BY <3>1
      <4>2. CASE page' = page
        BY <4>1, <4>2
      <4>3. CASE page' = Tail(page) /\ b # Head(page)
        BY <2>1, <2>2, <4>1, <4>3, TailOf
      <4> QED
        BY <2>1, <4>2, <4>3
    <3>2. CASE getPrimaryVenueForBot(b) # {}
      BY <3>2
    <3> QED
      BY <2>1, <3>1, <3>2 DEF CoverInv
  <2> QED
    BY <2>1, <2>3, <2>4 DEF CoverInv
<1>4. CASE SyncAssigns
  <2>1. /\ phase = "assign" /\ page # <<>> /\ UNCHANGED <<bots, cursor, calls>>
        /\ page \in Seq(Bots) /\ AssignmentRows(assignments)
    BY <1>4 DEF SyncAssigns, CatalogInv, PageTyped
  <2>2. CASE phase' = "off"
    BY <2>1, <2>2 DEF CoverInv
  <2>3. CASE phase' # "off"
    <3>1. assignments' = Assigned(Head(page), Primary.id, TRUE) /\ page' = Tail(page)
      BY <1>4, <2>3 DEF SyncAssigns
    <3>2. PICK h, v : h = Head(page) /\ v = Primary.id
      OBVIOUS
    <3>3. /\ getPrimaryVenueForBot(h)' # {}
          /\ \A c : getPrimaryVenueForBot(c) # {} => getPrimaryVenueForBot(c)' # {}
      <4>1. PICK p \in BOOLEAN : p = TRUE
        OBVIOUS
      <4>2. assignments' = Assigned(h, v, p)
        BY <3>1, <3>2, <4>1
      <4>3. /\ p => getPrimaryVenueForBot(h)' # {}
            /\ \A c : c # h /\ getPrimaryVenueForBot(c) # {} => getPrimaryVenueForBot(c)' # {}
        BY <2>1, <4>2, AssignmentCovers
      <4> QED
        BY <4>1, <4>3
    <3>4. ASSUME NEW b \in DOMAIN bots
          PROVE  (\E i \in 1..Len(page') : page'[i] = b) \/ getPrimaryVenueForBot(b)' # {}
      <4>1. CASE b = h
        BY <3>3, <4>1
      <4>2. CASE getPrimaryVenueForBot(b) # {}
        BY <3>3, <4>2
      <4>3. CASE b # h /\ \E i \in 1..Len(page) : page[i] = b
        BY <2>1, <3>1, <3>2, <4>3, TailOf
      <4> QED
        BY <2>1, <4>1, <4>2, <4>3 DEF CoverInv
    <3> QED
      BY <2>1, <3>4 DEF CoverInv
  <2> QED
    BY <2>2, <2>3
<1>5. CASE SyncPageDone
  <2>1. phase' \in {"running", "list"} /\ UNCHANGED <<cursor, calls>> /\ phase = "sync"
    BY <1>5 DEF SyncPageDone
  <2> QED
    BY <2>1 DEF CoverInv
<1>6. CASE ApiStep
  <2>1. Call
    BY <1>6 DEF ApiStep, UpsertVenue, DeleteVenue, UpsertVenueAssignment,
       DeleteVenueAssignment
  <2> QED
    BY <2>1 DEF Call, CoverInv
<1>7. CASE EngineStep \/ Stop
  <2>1. calls' = calls /\ phase' \in {"running", "off"}
    BY <1>7 DEF EngineStep, RecordBot, TouchBot, RecordRow, Stop
  <2> QED
    BY <2>1 DEF CoverInv
<1>8. CASE UNCHANGED catalogVars
  BY <1>8 DEF catalogVars, CoverInv, getPrimaryVenueForBot, listBotVenueAssignments
<1> QED
  BY <1>1, <1>2, <1>3, <1>4, <1>5, <1>6, <1>7, <1>8 DEF NextCatalog, StartStep

\* While all bots fit one page (100 in syncPrimaryVenueAssignments) and no operator changes
\* assignments beside it, the sync of every start ends with a primary venue for every
\* stored bot: what it promises fails only at a page boundary (storage/api.go:102).
THEOREM OnePageCoversAll ==
    ASSUME MaxCalls = 0, IsFiniteSet(Bots), Cardinality(Bots) <= PageSize
    PROVE  SpecCatalog => []SyncCoversAll
<1>1. InitCatalog => CoverInv
  BY DEF InitCatalog, CoverInv
<1>2. CatalogInv /\ CoverInv => SyncCoversAll
  <2> SUFFICES ASSUME CatalogInv, CoverInv, NEW b \in DOMAIN bots,
                      \/ phase = "sync" /\ page = <<>> /\ cursor = Nobody
                      \/ phase = "list" /\ ListBots = <<>>
               PROVE  getPrimaryVenueForBot(b) # {}
    BY DEF SyncCoversAll
  <2>1. CASE phase = "sync" /\ page = <<>>
    <3>1. Len(page) = 0
      BY <2>1
    <3> QED
      BY <2>1, <3>1 DEF CoverInv
  <2>2. CASE phase = "list" /\ ListBots = <<>>
    <3> DEFINE S == {c \in DOMAIN bots : AfterCursor(c)}
    <3>1. b \in S
      BY <2>2 DEF CoverInv, AfterCursor
    <3>2. \A c \in S : \E i \in 1..Len(ListBots) : ListBots[i] = c
      BY BotsCanBeListed, BotsListed DEF CatalogInv
    <3>3. Len(ListBots) = 0
      BY <2>2
    <3> HIDE DEF S
    <3> QED
      BY <3>1, <3>2, <3>3
  <2> QED
    BY <2>1, <2>2
<1> QED
  BY <1>1, <1>2, CoverStep, CatalogInit, CatalogStep, PTL DEF SpecCatalog
=============================================================================
