------------------------------- MODULE Vault -------------------------------
(***************************************************************************)
(* The vault: its controller (internal/vault/controller.go), the HTTP      *)
(* handlers that set it up, seal and unseal it (internal/api/vault.go),    *)
(* the passkey ceremonies (internal/api/webauth.go), the rows they keep    *)
(* (storage/vault.go) and the main goroutine that waits for the vault      *)
(* before it starts anything (cmd/recomma/app.go, main.go).                *)
(*                                                                         *)
(* A handler takes the locks of store, controller and session manager one  *)
(* after the other, so every lock is a step of its own and the requests    *)
(* interleave between them.  A request that an early return rejects        *)
(* changes nothing and is a guard.  Payloads are version numbers, 0 is no  *)
(* payload; what is encrypted and with which key is left out.              *)
(***************************************************************************)
EXTENDS Naturals, Sequences, FiniteSets, Functions

CONSTANTS
    Users,              \* user names clients register with
    Requests,           \* handlers that may run at the same time
    NoUser,             \* the controller's nil user
    MaxVersions,        \* bound: versions of the payload
    MaxTokens,          \* bound: session tokens issued
    MaxCeremonies,      \* bound: passkey ceremonies begun
    MaxBoots,           \* bound: starts of the process
    LoginBeforeSetup    \* may a passkey be used before /vault/setup?

ASSUME VaultAssumption ==
    /\ NoUser \notin Users
    /\ IsFiniteSet(Requests)
    /\ MaxVersions \in Nat /\ MaxTokens \in Nat
    /\ MaxCeremonies \in Nat /\ MaxBoots \in Nat
    /\ LoginBeforeSetup \in BOOLEAN

VARIABLES
    users,              \* store: user names in the order of their ids
    payload,            \* store: version of every user's payload
    credentials,        \* store: users with a passkey
    vstate, vuser,      \* controller: state, user
    secrets,            \* controller: version of the decrypted secrets
    channel,            \* controller: which ready channel is current
    readyClosed,        \* controller: the flag that says it is closed
    closed,             \* ready channels that are closed
    session,            \* session manager: the current session
    issued,             \* session tokens issued so far
    ceremonies,         \* ceremonies begun and not finished
    begun,              \* ceremonies begun so far
    request,            \* the handlers that are running
    main,               \* the main goroutine
    boots               \* starts of the process so far

store == <<users, payload, credentials>>
readyVars == <<channel, readyClosed, closed>>
controller == <<vstate, vuser, secrets, readyVars>>
passkeys == <<ceremonies, begun>>
vaultVars == <<store, controller, session, issued, passkeys, request, main,
          boots>>

Versions == 1..MaxVersions
NoSession == [token |-> 0, expired |-> FALSE]
Idle == [pc |-> "idle", user |-> NoUser, version |-> 0]
Issuing == {"unseal", "issue"}
RequestSteps == {"idle", "ensureUser", "lookUp", "store", "setUser", "sealSetup", "seal",
                 "clear", "unseal", "issue", "status", "update"}
Ceremony == [id : 1..MaxCeremonies, kind : {"registration", "login"}, user : Users]

VaultTypeOK ==
    /\ users \in Seq(Users) /\ IsInjective(users)
    /\ payload \in [Users -> 0..MaxVersions]
    /\ credentials \subseteq Users
    /\ vstate \in {"setup_required", "sealed", "unsealed"}
    /\ vuser \in Users \cup {NoUser}
    /\ secrets \in 0..MaxVersions
    /\ channel \in Nat
    /\ readyClosed \in BOOLEAN
    /\ closed \subseteq 0..channel
    /\ session \in [token : 0..MaxTokens, expired : BOOLEAN]
    /\ issued \in 0..MaxTokens
    /\ ceremonies \subseteq Ceremony
    /\ begun \in 0..MaxCeremonies
    /\ request \in [Requests -> [pc : RequestSteps, user : Users \cup {NoUser},
                                 version : 0..MaxVersions]]
    /\ main \in [pc : {"down", "waiting", "blocked", "woken", "started"}, channel : Nat]
    /\ boots \in 0..MaxBoots

---------------------------------------------------------------------------
(***************************************************************************)
(* Steps of a handler.                                                     *)
(***************************************************************************)
Up == main.pc # "down"
At(r, pc) == Up /\ request[r].pc = pc
Continue(r, pc) == request' = [request EXCEPT ![r].pc = pc]
Return(r) == request' = [request EXCEPT ![r] = Idle]
Call(r, pc, u, v) == /\ At(r, "idle")
                     /\ request' = [request EXCEPT ![r] = [pc |-> pc, user |-> u, version |-> v]]

\* Tokens are bounded where a request that will issue one comes in.
TokenLeft == issued + Cardinality({r \in Requests : request[r].pc \in Issuing}) < MaxTokens

---------------------------------------------------------------------------
(***************************************************************************)
(* The controller.                                                         *)
(***************************************************************************)
\* Faulty variant: every seal makes a new channel.
resetReadyAlways == /\ channel' = channel + 1
                    /\ readyClosed' = FALSE
                    /\ UNCHANGED closed

resetReadyLocked == /\ channel' = IF readyClosed THEN channel + 1 ELSE channel
                    /\ readyClosed' = FALSE
                    /\ UNCHANGED closed

\* Faulty variant: the channel is replaced by a closed one.
signalReadyOnFreshChannel == /\ channel' = channel + 1
                             /\ readyClosed' = TRUE
                             /\ closed' = closed \cup {channel + 1}

signalReadyLocked == /\ closed' = IF readyClosed THEN closed ELSE closed \cup {channel}
                     /\ readyClosed' = TRUE
                     /\ UNCHANGED channel

\* Faulty variant: the decrypted secrets stay in memory.
SealKeepsSecrets ==
    IF vstate = "sealed"
    THEN UNCHANGED controller
    ELSE /\ resetReadyLocked
         /\ vstate' = "sealed"
         /\ UNCHANGED <<secrets, vuser>>

\* Controller.Seal
Seal ==
    IF vstate = "sealed"
    THEN UNCHANGED controller
    ELSE /\ resetReadyLocked
         /\ vstate' = "sealed"
         /\ secrets' = 0
         /\ UNCHANGED vuser

\* Controller.Unseal
Unseal(v) ==
    /\ vstate' = "unsealed"
    /\ secrets' = v
    /\ signalReadyLocked
    /\ UNCHANGED vuser

---------------------------------------------------------------------------
(***************************************************************************)
(* The session manager and requireSession: a request brings the token of   *)
(* some session.  An expired one ends the session and seals the vault, in  *)
(* steps of their own.                                                     *)
(***************************************************************************)
Authorized(token) == token = session.token /\ ~session.expired

SessionExpires ==
    /\ Up /\ session.token # 0 /\ ~session.expired
    /\ session' = [session EXCEPT !.expired = TRUE]
    /\ UNCHANGED <<store, controller, issued, passkeys, request, main, boots>>

requireSessionExpired(r, token) ==
    /\ token = session.token /\ session.expired
    /\ Call(r, "seal", NoUser, 0)
    /\ session' = NoSession
    /\ UNCHANGED <<store, controller, issued, passkeys, main, boots>>

IssueSession(r) ==
    /\ At(r, "issue")
    /\ session' = [token |-> issued + 1, expired |-> FALSE]
    /\ issued' = issued + 1
    /\ Return(r)
    /\ UNCHANGED <<store, controller, passkeys, main, boots>>

ClearSession(r) ==
    /\ At(r, "clear")
    /\ session' = NoSession
    /\ Return(r)
    /\ UNCHANGED <<store, controller, issued, passkeys, main, boots>>

---------------------------------------------------------------------------
(***************************************************************************)
(* POST /vault/setup                                                       *)
(***************************************************************************)
SetupVault(r, u, v) ==
    /\ vstate = "setup_required"
    /\ Call(r, "ensureUser", u, v)
    /\ UNCHANGED <<store, controller, session, issued, passkeys, main, boots>>

\* Faulty variant: every request makes a user row.
WithNewUser(u) == Append(users, u)

WithUser(u) == IF \E i \in DOMAIN users : users[i] = u THEN users ELSE Append(users, u)

SetupEnsuresUser(r) ==
    /\ At(r, "ensureUser")
    /\ users' = WithUser(request[r].user)
    /\ Continue(r, "lookUp")
    /\ UNCHANGED <<payload, credentials, controller, session, issued, passkeys,
                   main, boots>>

SetupLooksUp(r) ==
    /\ At(r, "lookUp")
    /\ IF payload[request[r].user] # 0 THEN Return(r) ELSE Continue(r, "store")
    /\ UNCHANGED <<store, controller, session, issued, passkeys, main, boots>>

upsertVaultPayload(u, v) == payload' = [payload EXCEPT ![u] = v]

SetupStores(r) ==
    /\ At(r, "store")
    /\ upsertVaultPayload(request[r].user, request[r].version)
    /\ Continue(r, "setUser")
    /\ UNCHANGED <<users, credentials, controller, session, issued, passkeys,
                   main, boots>>

SetupSetsUser(r) ==
    /\ At(r, "setUser")
    /\ vuser' = request[r].user
    /\ Continue(r, "sealSetup")
    /\ UNCHANGED <<store, vstate, secrets, readyVars, session, issued, passkeys,
                   main, boots>>

(***************************************************************************)
(* POST /vault/unseal.  The browser sends the payload it decrypted; only   *)
(* its form is checked.                                                    *)
(***************************************************************************)
UnsealVault(r, v) ==
    /\ vstate # "setup_required"
    /\ TokenLeft
    /\ Call(r, "unseal", NoUser, v)
    /\ UNCHANGED <<store, controller, session, issued, passkeys, main, boots>>

UnsealStep(r) ==
    /\ At(r, "unseal")
    /\ Unseal(request[r].version)
    /\ Continue(r, "issue")
    /\ UNCHANGED <<store, session, issued, passkeys, main, boots>>

(***************************************************************************)
(* POST /vault/seal                                                        *)
(***************************************************************************)
SealVault(r, token) ==
    /\ Authorized(token)
    /\ Call(r, "seal", NoUser, 0)
    /\ UNCHANGED <<store, controller, session, issued, passkeys, main, boots>>

\* Also the last step of a setup and of a request with an expired session.
SealStep(r) ==
    /\ At(r, "seal") \/ At(r, "sealSetup")
    /\ Seal
    /\ Continue(r, "clear")
    /\ UNCHANGED <<store, session, issued, passkeys, main, boots>>

(***************************************************************************)
(* PUT /vault/payload (GET changes nothing)                                *)
(***************************************************************************)
UpdateVaultPayload(r, token, v) ==
    /\ Authorized(token)
    /\ Call(r, "status", NoUser, v)
    /\ UNCHANGED <<store, controller, session, issued, passkeys, main, boots>>

UpdateChecksStatus(r) ==
    /\ At(r, "status")
    /\ IF vstate = "unsealed" /\ vuser # NoUser
       THEN request' = [request EXCEPT ![r].pc = "update", ![r].user = vuser]
       ELSE Return(r)
    /\ UNCHANGED <<store, controller, session, issued, passkeys, main, boots>>

UpdateStores(r) ==
    /\ At(r, "update")
    /\ upsertVaultPayload(request[r].user, request[r].version)
    /\ Return(r)
    /\ UNCHANGED <<users, credentials, controller, session, issued, passkeys,
                   main, boots>>

\* The store refuses a write: the handler answers 500 and leaves the rest undone.
StoreFails(r) ==
    /\ \E pc \in {"ensureUser", "lookUp", "store", "unseal", "update"} : At(r, pc)
    /\ Return(r)
    /\ UNCHANGED <<store, controller, session, issued, passkeys, main, boots>>

---------------------------------------------------------------------------
(***************************************************************************)
(* Passkeys.  A ceremony is taken out of its cache before it is verified,  *)
(* and it may have expired by then.                                        *)
(***************************************************************************)
Begin(kind, u) ==
    /\ begun < MaxCeremonies
    /\ begun' = begun + 1
    /\ ceremonies' = ceremonies \cup {[id |-> begun + 1, kind |-> kind, user |-> u]}

BeginRegistration(u) ==
    /\ Up
    /\ users' = WithUser(u)
    /\ Begin("registration", u)
    /\ UNCHANGED <<payload, credentials, controller, session, issued, request,
                   main, boots>>

upsertWebauthnCredential(u) == credentials \cup {u}

FinishRegistration(c) ==
    /\ Up /\ c.kind = "registration"
    /\ ceremonies' = ceremonies \ {c}
    /\ credentials' \in {credentials, upsertWebauthnCredential(c.user)}
    /\ UNCHANGED <<users, payload, controller, session, issued, begun, request,
                   main, boots>>

BeginLogin(u) ==
    /\ Up
    /\ LoginBeforeSetup \/ vstate # "setup_required"
    /\ u \in credentials
    /\ Begin("login", u)
    /\ UNCHANGED <<store, controller, session, issued, request, main, boots>>

\* A login that succeeds goes on to issue a session, whatever the vault's state.
FinishLogin(r, c) ==
    /\ c.kind = "login" /\ TokenLeft
    /\ ceremonies' = ceremonies \ {c}
    /\ Call(r, "issue", NoUser, 0)
    /\ UNCHANGED <<store, controller, session, issued, begun, main, boots>>

FinishLoginFails(c) ==
    /\ Up /\ c.kind = "login"
    /\ ceremonies' = ceremonies \ {c}
    /\ UNCHANGED <<store, controller, session, issued, begun, request, main, boots>>

---------------------------------------------------------------------------
(***************************************************************************)
(* The process: NewApp derives the state from the first user's payload,    *)
(* WaitUntilUnsealed reads state and channel under the lock and waits      *)
(* without it, Start needs the secrets and ends the process without them.  *)
(***************************************************************************)
ExistingUser == IF users = <<>> THEN NoUser ELSE users[1]
\* Faulty variant: a user is enough.
InitialStateByUser == IF ExistingUser # NoUser THEN "sealed" ELSE "setup_required"

InitialState == IF ExistingUser # NoUser /\ payload[ExistingUser] # 0
                THEN "sealed" ELSE "setup_required"

NewApp ==
    /\ main.pc = "down" /\ boots < MaxBoots
    /\ boots' = boots + 1
    /\ vstate' = InitialState
    /\ vuser' = ExistingUser
    /\ main' = [main EXCEPT !.pc = "waiting"]
    /\ UNCHANGED <<store, secrets, readyVars, session, issued, passkeys,
                   request>>

WaitUntilUnsealed ==
    /\ main.pc = "waiting"
    /\ main' = IF vstate = "unsealed" THEN [main EXCEPT !.pc = "woken"]
               ELSE [pc |-> "blocked", channel |-> channel]
    /\ UNCHANGED <<store, controller, session, issued, passkeys, request, boots>>

Woken ==
    /\ main.pc = "blocked" /\ main.channel \in closed
    /\ main' = [main EXCEPT !.pc = "woken"]
    /\ UNCHANGED <<store, controller, session, issued, passkeys, request, boots>>

Start ==
    /\ main.pc = "woken" /\ secrets # 0
    /\ main' = [main EXCEPT !.pc = "started"]
    /\ UNCHANGED <<store, controller, session, issued, passkeys, request, boots>>

\* Everything but the store is lost.
Exit ==
    /\ main' = [pc |-> "down", channel |-> 0]
    /\ vstate' = "setup_required" /\ vuser' = NoUser /\ secrets' = 0
    /\ channel' = 0 /\ readyClosed' = FALSE /\ closed' = {}
    /\ session' = NoSession
    /\ ceremonies' = {}
    /\ request' = [r \in Requests |-> Idle]
    /\ UNCHANGED <<store, issued, begun, boots>>

StartFails == main.pc = "woken" /\ secrets = 0 /\ Exit
Crash == Up /\ boots < MaxBoots /\ Exit

---------------------------------------------------------------------------
InitVault ==
    /\ users = <<>> /\ payload = [u \in Users |-> 0] /\ credentials = {}
    /\ vstate = "setup_required" /\ vuser = NoUser /\ secrets = 0
    /\ channel = 0 /\ readyClosed = FALSE /\ closed = {}
    /\ session = NoSession /\ issued = 0
    /\ ceremonies = {} /\ begun = 0
    /\ request = [r \in Requests |-> Idle]
    /\ main = [pc |-> "down", channel |-> 0] /\ boots = 0

Handler(r) ==
    \/ SetupEnsuresUser(r) \/ SetupLooksUp(r) \/ SetupStores(r) \/ SetupSetsUser(r)
    \/ SealStep(r) \/ ClearSession(r) \/ UnsealStep(r) \/ IssueSession(r)
    \/ UpdateChecksStatus(r) \/ UpdateStores(r)

Client ==
    \/ \E r \in Requests, u \in Users, v \in Versions : SetupVault(r, u, v)
    \/ \E r \in Requests, v \in Versions : UnsealVault(r, v)
    \/ \E t \in 1..issued :
        \E r \in Requests :
            \/ SealVault(r, t)
            \/ requireSessionExpired(r, t)
            \/ \E v \in Versions : UpdateVaultPayload(r, t, v)
    \/ \E u \in Users : BeginRegistration(u) \/ BeginLogin(u)
    \/ \E c \in ceremonies :
        \/ FinishRegistration(c)
        \/ FinishLoginFails(c)
        \/ \E r \in Requests : FinishLogin(r, c)

Main == WaitUntilUnsealed \/ Woken \/ Start \/ StartFails

NextVault ==
    \/ \E r \in Requests : Handler(r) \/ StoreFails(r)
    \/ Client
    \/ SessionExpires
    \/ Main \/ NewApp \/ Crash

\* Handlers and the main goroutine run on; nothing is assumed of the browser.
FairnessVault == WF_vaultVars(Main) /\ \A r \in Requests : WF_vaultVars(Handler(r))

SpecVault == InitVault /\ [][NextVault]_vaultVars /\ FairnessVault

---------------------------------------------------------------------------
(***************************************************************************)
(* Properties                                                              *)
(***************************************************************************)
InSetup == \E r \in Requests : request[r].pc \in {"setUser", "sealSetup"}

\* What the controller says agrees with the store: a vault that asks for setup has
\* no payload, unless a setup is just being completed, and any other vault belongs
\* to a user whose payload is there to be fetched.  It takes setup (vault.go:339),
\* restart (app.go:205), seal and expiry to keep it.
InitializedAgrees ==
    Up => /\ vstate = "setup_required" /\ ~InSetup => \A u \in Users : payload[u] = 0
          /\ vstate # "setup_required" => vuser # NoUser /\ payload[vuser] # 0

\* A main goroutine that waits on a ready channel while the vault is unsealed will
\* find that channel closed, however often the vault was sealed and unsealed since
\* the channel was read (controller.go:247-262).
WakeupNotLost ==
    main.pc = "blocked" /\ vstate = "unsealed" => main.channel \in closed

\* Decrypted secrets are in memory exactly while the vault is unsealed, whichever of
\* the handlers that seal and unseal it are running (controller.go:191, 214).
SecretsIffUnsealed == secrets # 0 <=> vstate = "unsealed"

\* An unsealed vault ends the wait of the main goroutine, which starts or, when it is sealed
\* again before the goroutine reads the secrets, exits (app.go).
UnsealEndsWait == main.pc = "blocked" /\ vstate = "unsealed" ~> main.pc \in {"started", "down"}
=============================================================================
