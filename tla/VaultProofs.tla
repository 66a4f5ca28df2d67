---------------------------- MODULE VaultProofs ----------------------------
(***************************************************************************)
(* Proofs about the vault: for every set of users and of requests that run *)
(* at the same time, and every bound.                                      *)
(***************************************************************************)
EXTENDS Vault, FiniteSetTheorems, TLAPS

---------------------------------------------------------------------------
(***************************************************************************)
(* The invariant behind secrets and wakeups, with the types it needs.      *)
(***************************************************************************)
Request == [pc : RequestSteps, user : Users \cup {NoUser}, version : Nat]
MainSteps == {"down", "waiting", "blocked", "woken", "started"}

Typed ==
    /\ vstate \in {"setup_required", "sealed", "unsealed"}
    /\ vuser \in Users \cup {NoUser}
    /\ secrets \in Nat
    /\ channel \in Nat
    /\ closed \subseteq 0..channel
    /\ request \in [Requests -> Request]
    /\ main \in [pc : MainSteps, channel : Nat]

\* Handlers that act for a user know it, and one that unseals has a payload.
Bearing == {"ensureUser", "lookUp", "store", "setUser", "sealSetup", "update"}
EntryOK(q) ==
    /\ q.pc = "unseal" => q.version # 0
    /\ q.pc \in Bearing => q.user \in Users
TableOK ==
    /\ request \in [Requests -> Request]
    /\ \A r \in Requests : EntryOK(request[r])

\* The current channel is closed exactly while the vault is unsealed.  A main goroutine
\* waits on the current channel or on a closed one: only a closed channel is ever
\* replaced.
Signalled ==
    /\ secrets # 0 <=> vstate = "unsealed"
    /\ readyClosed <=> vstate = "unsealed"
    /\ readyClosed <=> channel \in closed
    /\ main.pc = "down" => vstate = "setup_required"
    /\ main.pc = "blocked" => main.channel = channel \/ main.channel \in closed
    /\ TableOK

\* What the steps of a handler do to the table of requests: it keeps its type, and
\* only the handler's own entry changes.
OnlyAt(r) ==
    /\ request' \in [Requests -> Request]
    /\ \A s \in Requests \ {r} : request'[s] = request[s]

\* A handler that moves on keeps its user and version.
LEMMA GotoStep ==
    ASSUME Typed, NEW r \in Requests, NEW pc \in RequestSteps, Continue(r, pc)
    PROVE  /\ OnlyAt(r)
           /\ request'[r].pc = pc
           /\ request'[r].user = request[r].user
           /\ request'[r].version = request[r].version
  BY DEF Typed, Continue, OnlyAt, Request

\* A handler that answers is idle again.
LEMMA ReturnStep ==
    ASSUME Typed, NEW r \in Requests, Return(r)
    PROVE  OnlyAt(r) /\ request'[r].pc = "idle"
<1>1. Idle \in Request /\ Idle.pc = "idle"
  BY DEF Idle, Request, RequestSteps
<1> QED
  BY <1>1 DEF Typed, Return, OnlyAt

\* A request starts an idle handler at its first step.
LEMMA CallStep ==
    ASSUME Typed, NEW r \in Requests, NEW pc \in RequestSteps, NEW u \in Users \cup {NoUser},
           NEW v \in Nat, Call(r, pc, u, v)
    PROVE  /\ OnlyAt(r)
           /\ request[r].pc = "idle"
           /\ request'[r].pc = pc
           /\ request'[r].user = u
           /\ request'[r].version = v
<1> DEFINE q == [pc |-> pc, user |-> u, version |-> v]
<1>1. q \in Request /\ q.pc = pc /\ q.user = u /\ q.version = v
  BY DEF Request
<1>2. request' = [request EXCEPT ![r] = q] /\ request[r].pc = "idle"
  BY DEF Call, At
<1> HIDE DEF q
<1> QED
  BY <1>1, <1>2 DEF Typed, OnlyAt

\* An update goes on for the controller's user.
LEMMA OwnerStep ==
    ASSUME Typed, NEW r \in Requests,
           request' = [request EXCEPT ![r].pc = "update", ![r].user = vuser]
    PROVE  /\ OnlyAt(r)
           /\ request'[r].pc = "update"
           /\ request'[r].user = vuser
           /\ request'[r].version = request[r].version
<1> DEFINE q == [request[r] EXCEPT !.pc = "update", !.user = vuser]
<1>1. request[r] \in Request /\ vuser \in Users \cup {NoUser}
  BY DEF Typed
<1>2. q \in Request /\ q.pc = "update" /\ q.user = vuser /\ q.version = request[r].version
  BY <1>1 DEF Request, RequestSteps
<1>3. request' = [request EXCEPT ![r] = q]
  BY DEF Typed
<1> HIDE DEF q
<1> QED
  BY <1>2, <1>3 DEF Typed, OnlyAt

\* Sealing replaces the current channel only when it is closed.
LEMMA SealKeeps ==
    ASSUME Typed, Signalled, Seal, main.pc # "down", UNCHANGED main, TableOK'
    PROVE  Typed' /\ Signalled'
<1>1. CASE vstate = "sealed"
  <2>1. UNCHANGED <<vstate, vuser, secrets, channel, readyClosed, closed>>
    BY <1>1 DEF Seal, controller, readyVars
  <2> QED
    BY <2>1 DEF Typed, Signalled, TableOK
<1>2. CASE vstate # "sealed"
  <2>1. /\ vstate' = "sealed" /\ secrets' = 0 /\ vuser' = vuser
        /\ readyClosed' = FALSE
        /\ closed' = closed
        /\ channel' = IF readyClosed THEN channel + 1 ELSE channel
    BY <1>2 DEF Seal, resetReadyLocked
  <2>2. CASE readyClosed
    <3>1. channel' = channel + 1
      BY <2>1, <2>2
    <3>2. Typed'
      BY <2>1, <3>1 DEF Typed, TableOK
    <3>3. channel' \notin closed'
      BY <2>1, <3>1 DEF Typed
    <3>4. channel \in closed
      BY <2>2 DEF Signalled
    <3> QED
      BY <2>1, <3>1, <3>2, <3>3, <3>4 DEF Signalled, TableOK
  <2>3. CASE ~readyClosed
    <3>1. channel' = channel /\ channel \notin closed
      BY <2>1, <2>3 DEF Signalled
    <3>2. Typed'
      BY <2>1, <3>1 DEF Typed, TableOK
    <3> QED
      BY <2>1, <3>1, <3>2 DEF Signalled, TableOK
  <2> QED
    BY <2>2, <2>3
<1> QED
  BY <1>1, <1>2

\* Unsealing closes the current channel, unless it is closed already.
LEMMA UnsealKeeps ==
    ASSUME Typed, Signalled, NEW v \in Nat \ {0}, Unseal(v), main.pc # "down",
           UNCHANGED main, TableOK'
    PROVE  Typed' /\ Signalled'
<1>1. /\ vstate' = "unsealed" /\ secrets' = v /\ vuser' = vuser
      /\ readyClosed' = TRUE
      /\ channel' = channel
      /\ closed' = IF readyClosed THEN closed ELSE closed \cup {channel}
  BY DEF Unseal, signalReadyLocked
<1>2. closed' = closed \cup {channel}
  BY <1>1 DEF Signalled
<1>3. Typed'
  BY <1>1, <1>2 DEF Typed, TableOK
<1> QED
  BY <1>1, <1>2, <1>3 DEF Signalled, TableOK

\* The table stays sound when the one entry that changes is sound.
LEMMA TableKept ==
    ASSUME Typed, Signalled, NEW r \in Requests, OnlyAt(r),
           EntryOK(request'[r])
    PROVE  TableOK'
  BY DEF Signalled, OnlyAt, TableOK

\* Steps that leave the controller and the main goroutine alone.
LEMMA FrameKeeps ==
    ASSUME Typed, Signalled, TableOK', UNCHANGED <<controller, main>>
    PROVE  Typed' /\ Signalled'
<1>1. UNCHANGED <<vstate, vuser, secrets, channel, readyClosed, closed, main>>
  BY DEF controller, readyVars
<1> QED
  BY <1>1 DEF Typed, Signalled, TableOK

\* The process is down: nothing is decrypted, and no channel is closed.
LEMMA SignalledInit == InitVault => Typed /\ Signalled
<1> SUFFICES ASSUME InitVault PROVE Typed /\ Signalled
  OBVIOUS
<1>1. Idle \in Request /\ Idle.pc = "idle"
  BY DEF Idle, Request, RequestSteps
<1>2. request \in [Requests -> Request] /\ \A r \in Requests : request[r].pc = "idle"
  BY <1>1 DEF InitVault
<1>3. main \in [pc : MainSteps, channel : Nat] /\ main.pc = "down"
  BY DEF InitVault, MainSteps
<1>4. Typed
  BY <1>2, <1>3 DEF InitVault, Typed
<1> QED
  BY <1>2, <1>3, <1>4 DEF InitVault, Signalled, TableOK, EntryOK, Bearing

\* Every step of a running handler, and a failing store, keep the invariant.
LEMMA HandlerKeeps ==
    ASSUME Typed, Signalled, NEW r \in Requests, Handler(r) \/ StoreFails(r)
    PROVE  Typed' /\ Signalled'
<1> USE DEF RequestSteps, EntryOK, Bearing
<1>1. CASE SetupEnsuresUser(r)
  <2>1. /\ request[r].pc = "ensureUser" /\ Continue(r, "lookUp")
        /\ UNCHANGED <<controller, main>>
    BY <1>1 DEF SetupEnsuresUser, At
  <2>2. TableOK'
    BY <2>1, GotoStep, TableKept DEF Signalled, TableOK
  <2> QED
    BY <2>1, <2>2, FrameKeeps
<1>2. CASE SetupLooksUp(r)
  <2>1. /\ request[r].pc = "lookUp"
        /\ Return(r) \/ Continue(r, "store")
        /\ UNCHANGED <<controller, main>>
    BY <1>2 DEF SetupLooksUp, At
  <2>2. EntryOK(request'[r]) /\ OnlyAt(r)
    <3>1. CASE Return(r)
      BY <3>1, ReturnStep
    <3>2. CASE Continue(r, "store")
      BY <2>1, <3>2, GotoStep DEF Signalled, TableOK
    <3> QED
      BY <2>1, <3>1, <3>2
  <2>3. TableOK'
    BY <2>2, TableKept
  <2> QED
    BY <2>1, <2>3, FrameKeeps
<1>3. CASE SetupStores(r)
  <2>1. /\ request[r].pc = "store" /\ Continue(r, "setUser")
        /\ UNCHANGED <<controller, main>>
    BY <1>3 DEF SetupStores, At
  <2>2. TableOK'
    BY <2>1, GotoStep, TableKept DEF Signalled, TableOK
  <2> QED
    BY <2>1, <2>2, FrameKeeps
<1>4. CASE SetupSetsUser(r)
  <2>1. /\ request[r].pc = "setUser" /\ Continue(r, "sealSetup")
        /\ vuser' = request[r].user
        /\ UNCHANGED <<vstate, secrets, readyVars, main>>
    BY <1>4 DEF SetupSetsUser, At
  <2>2. TableOK'
    BY <2>1, GotoStep, TableKept DEF Signalled, TableOK
  <2> QED
    BY <2>1, <2>2 DEF Typed, Signalled, TableOK, readyVars, Request
<1>5. CASE SealStep(r)
  <2>1. Continue(r, "clear") /\ Seal /\ main.pc # "down" /\ UNCHANGED main
    BY <1>5 DEF SealStep, At, Up
  <2>2. TableOK'
    BY <2>1, GotoStep, TableKept DEF Signalled, TableOK
  <2> QED
    BY <2>1, <2>2, SealKeeps
<1>6. CASE ClearSession(r)
  <2>1. Return(r) /\ UNCHANGED <<controller, main>>
    BY <1>6 DEF ClearSession
  <2>2. TableOK'
    BY <2>1, ReturnStep, TableKept
  <2> QED
    BY <2>1, <2>2, FrameKeeps
<1>7. CASE UnsealStep(r)
  <2>1. /\ Continue(r, "issue") /\ request[r].pc = "unseal"
        /\ Unseal(request[r].version)
        /\ main.pc # "down" /\ UNCHANGED main
    BY <1>7 DEF UnsealStep, At, Up
  <2>2. TableOK'
    BY <2>1, GotoStep, TableKept DEF Signalled, TableOK
  <2>3. request[r].version \in Nat \ {0}
    BY <2>1 DEF Signalled, Typed, Request, TableOK
  <2> QED
    BY <2>1, <2>2, <2>3, UnsealKeeps
<1>8. CASE IssueSession(r)
  <2>1. Return(r) /\ UNCHANGED <<controller, main>>
    BY <1>8 DEF IssueSession
  <2>2. TableOK'
    BY <2>1, ReturnStep, TableKept
  <2> QED
    BY <2>1, <2>2, FrameKeeps
<1>9. CASE UpdateChecksStatus(r)
  <2>1. UNCHANGED <<controller, main>>
    BY <1>9 DEF UpdateChecksStatus
  <2>2. CASE Return(r)
    <3>1. TableOK'
      BY <2>2, ReturnStep, TableKept
    <3> QED
      BY <2>1, <3>1, FrameKeeps
  <2>3. CASE /\ vuser # NoUser
             /\ request' = [request EXCEPT ![r].pc = "update", ![r].user = vuser]
    <3>1. vuser \in Users \cup {NoUser}
      BY DEF Typed
    <3>2. OnlyAt(r) /\ request'[r].pc = "update" /\ request'[r].user = vuser
      BY <2>3, OwnerStep
    <3>3. TableOK'
      BY <2>3, <3>1, <3>2, TableKept
    <3> QED
      BY <2>1, <3>3, FrameKeeps
  <2> QED
    BY <1>9, <2>2, <2>3 DEF UpdateChecksStatus
<1>10. CASE UpdateStores(r)
  <2>1. Return(r) /\ UNCHANGED <<controller, main>>
    BY <1>10 DEF UpdateStores
  <2>2. TableOK'
    BY <2>1, ReturnStep, TableKept
  <2> QED
    BY <2>1, <2>2, FrameKeeps
<1>11. CASE StoreFails(r)
  <2>1. Return(r) /\ UNCHANGED <<controller, main>>
    BY <1>11 DEF StoreFails
  <2>2. TableOK'
    BY <2>1, ReturnStep, TableKept
  <2> QED
    BY <2>1, <2>2, FrameKeeps
<1> QED
  BY <1>1, <1>2, <1>3, <1>4, <1>5, <1>6, <1>7, <1>8, <1>9, <1>10, <1>11 DEF Handler

\* So do the requests and ceremonies that clients begin, and a session's expiry.
LEMMA ClientKeeps ==
    ASSUME Typed, Signalled, Client \/ SessionExpires
    PROVE  Typed' /\ Signalled'
<1> USE DEF RequestSteps, EntryOK, Bearing
<1>1. ASSUME NEW r \in Requests, NEW u \in Users, NEW v \in Versions, SetupVault(r, u, v)
      PROVE  Typed' /\ Signalled'
  <2>1. Call(r, "ensureUser", u, v) /\ UNCHANGED <<controller, main>> /\ v \in Nat
    BY <1>1 DEF SetupVault, Versions
  <2>2. TableOK'
    BY <2>1, CallStep, TableKept
  <2> QED
    BY <2>1, <2>2, FrameKeeps
<1>2. ASSUME NEW r \in Requests, NEW v \in Versions, UnsealVault(r, v)
      PROVE  Typed' /\ Signalled'
  <2>1. Call(r, "unseal", NoUser, v) /\ UNCHANGED <<controller, main>> /\ v \in Nat /\ v # 0
    BY <1>2 DEF UnsealVault, Versions
  <2>2. TableOK'
    BY <2>1, CallStep, TableKept
  <2> QED
    BY <2>1, <2>2, FrameKeeps
<1>3. ASSUME NEW r \in Requests, NEW t, SealVault(r, t) \/ requireSessionExpired(r, t)
      PROVE  Typed' /\ Signalled'
  <2>1. Call(r, "seal", NoUser, 0) /\ UNCHANGED <<controller, main>>
    BY <1>3 DEF SealVault, requireSessionExpired
  <2>2. TableOK'
    BY <2>1, CallStep, TableKept
  <2> QED
    BY <2>1, <2>2, FrameKeeps
<1>4. ASSUME NEW r \in Requests, NEW t, NEW v \in Versions, UpdateVaultPayload(r, t, v)
      PROVE  Typed' /\ Signalled'
  <2>1. Call(r, "status", NoUser, v) /\ UNCHANGED <<controller, main>> /\ v \in Nat
    BY <1>4 DEF UpdateVaultPayload, Versions
  <2>2. TableOK'
    BY <2>1, CallStep, TableKept
  <2> QED
    BY <2>1, <2>2, FrameKeeps
<1>5. ASSUME NEW r \in Requests, NEW c, FinishLogin(r, c)
      PROVE  Typed' /\ Signalled'
  <2>1. Call(r, "issue", NoUser, 0) /\ UNCHANGED <<controller, main>>
    BY <1>5 DEF FinishLogin
  <2>2. TableOK'
    BY <2>1, CallStep, TableKept
  <2> QED
    BY <2>1, <2>2, FrameKeeps
<1>6. ASSUME UNCHANGED <<controller, main, request>>
      PROVE  Typed' /\ Signalled'
  BY <1>6, FrameKeeps DEF Typed, Signalled, TableOK
<1>7. ASSUME NEW u, BeginRegistration(u) \/ BeginLogin(u)
      PROVE  Typed' /\ Signalled'
  BY <1>6, <1>7 DEF BeginRegistration, BeginLogin
<1>8. ASSUME NEW c, FinishRegistration(c) \/ FinishLoginFails(c)
      PROVE  Typed' /\ Signalled'
  BY <1>6, <1>8 DEF FinishRegistration, FinishLoginFails
<1>9. CASE SessionExpires
  BY <1>6, <1>9 DEF SessionExpires
<1> QED
  BY <1>1, <1>2, <1>3, <1>4, <1>5, <1>7, <1>8, <1>9 DEF Client

\* An exit or a crash drops all that the process held.
LEMMA ExitKeeps ==
    ASSUME Exit
    PROVE  /\ Typed' /\ Signalled'
           /\ request' \in [Requests -> Request]
           /\ \A r \in Requests : request'[r].pc = "idle"
<1>1. Idle \in Request /\ Idle.pc = "idle"
  BY DEF Idle, Request, RequestSteps
<1>2. request' \in [Requests -> Request] /\ \A r \in Requests : request'[r].pc = "idle"
  BY <1>1 DEF Exit
<1>3. main' \in [pc : MainSteps, channel : Nat] /\ main'.pc = "down"
  BY DEF Exit, MainSteps
<1>4. /\ vstate' = "setup_required" /\ vuser' = NoUser /\ secrets' = 0
      /\ channel' = 0 /\ readyClosed' = FALSE /\ closed' = {}
  BY DEF Exit
<1>5. Typed'
  BY <1>2, <1>3, <1>4 DEF Typed
<1> QED
  BY <1>2, <1>3, <1>4, <1>5 DEF Signalled, TableOK, EntryOK, Bearing

\* While the process is down nothing of it is left, and it comes up sealed or without
\* a vault.
LEMMA MainKeeps ==
    ASSUME Typed, Signalled, users \in Seq(Users), Main \/ NewApp \/ Crash
    PROVE  Typed' /\ Signalled'
<1> USE DEF MainSteps
<1>1. CASE WaitUntilUnsealed
  <2>1. UNCHANGED <<controller, request>>
    BY <1>1 DEF WaitUntilUnsealed
  <2>2. /\ main' \in [pc : MainSteps, channel : Nat]
        /\ main'.pc = "blocked" => main'.channel = channel
        /\ main'.pc # "down"
    BY <1>1 DEF WaitUntilUnsealed, Typed
  <2> QED
    BY <2>1, <2>2 DEF Typed, Signalled, TableOK, controller, readyVars
<1>2. CASE Woken \/ Start
  <2>1. UNCHANGED <<controller, request>>
    BY <1>2 DEF Woken, Start
  <2>2. main' \in [pc : MainSteps, channel : Nat] /\ main'.pc \notin {"blocked", "down"}
    BY <1>2 DEF Woken, Start, Typed
  <2> QED
    BY <2>1, <2>2 DEF Typed, Signalled, TableOK, controller, readyVars
<1>3. CASE NewApp
  <2>1. /\ vstate = "setup_required"
        /\ vstate' \in {"setup_required", "sealed"}
        /\ vuser' \in Users \cup {NoUser}
        /\ UNCHANGED <<secrets, readyVars, request>>
    BY <1>3 DEF NewApp, InitialState, ExistingUser, Signalled
  <2>2. main' \in [pc : MainSteps, channel : Nat] /\ main'.pc \notin {"blocked", "down"}
    BY <1>3 DEF NewApp, Typed
  <2> QED
    BY <2>1, <2>2 DEF Typed, Signalled, TableOK, readyVars
<1>4. CASE StartFails \/ Crash
  BY <1>4, ExitKeeps DEF StartFails, Crash
<1> QED
  BY <1>1, <1>2, <1>3, <1>4 DEF Main

---------------------------------------------------------------------------
(***************************************************************************)
(* The store: rows are added and replaced, never removed.                  *)
(***************************************************************************)
StoreTyped == users \in Seq(Users) /\ payload \in [Users -> Nat]

\* Registration and setup keep the row there is or add one.
LEMMA WithUserKeeps ==
    ASSUME users \in Seq(Users), NEW u \in Users
    PROVE  WithUser(u) \in Seq(Users) /\ WithUser(u) # <<>>
  BY DEF WithUser

\* No step takes a row of the store away from its type.
LEMMA StoreKeeps ==
    ASSUME Typed, Signalled, StoreTyped, [NextVault]_vaultVars
    PROVE  StoreTyped'
<1>1. ASSUME UNCHANGED <<users, payload>> PROVE StoreTyped'
  BY <1>1 DEF StoreTyped
<1>2. ASSUME NEW r \in Requests, Handler(r) \/ StoreFails(r) PROVE StoreTyped'
  <2>1. CASE SetupEnsuresUser(r)
    <3>1. request[r].user \in Users
      BY <2>1 DEF SetupEnsuresUser, At, Signalled, TableOK, EntryOK, Bearing
    <3> QED
      BY <2>1, <3>1, WithUserKeeps DEF SetupEnsuresUser, StoreTyped
  <2>2. CASE SetupStores(r) \/ UpdateStores(r)
    BY <2>2 DEF SetupStores, UpdateStores, upsertVaultPayload, StoreTyped, Typed, Request
  <2>3. CASE SetupLooksUp(r) \/ SetupSetsUser(r) \/ SealStep(r) \/ ClearSession(r) \/ UnsealStep(r)
    BY <1>1, <2>3 DEF SetupLooksUp, SetupSetsUser, SealStep, ClearSession, UnsealStep, store
  <2>4. CASE IssueSession(r) \/ UpdateChecksStatus(r) \/ StoreFails(r)
    BY <1>1, <2>4 DEF IssueSession, UpdateChecksStatus, StoreFails, store
  <2> QED
    BY <1>2, <2>1, <2>2, <2>3, <2>4 DEF Handler
<1>3. ASSUME Client \/ SessionExpires PROVE StoreTyped'
  <2>1. ASSUME NEW u \in Users, BeginRegistration(u) PROVE StoreTyped'
    BY <2>1, WithUserKeeps DEF BeginRegistration, StoreTyped
  <2>2. ASSUME NEW r, NEW u, NEW v, SetupVault(r, u, v) \/ UnsealVault(r, v)
        PROVE  StoreTyped'
    BY <1>1, <2>2 DEF SetupVault, UnsealVault, store
  <2>3. ASSUME NEW r, NEW t, NEW v,
               SealVault(r, t) \/ requireSessionExpired(r, t) \/ UpdateVaultPayload(r, t, v)
        PROVE  StoreTyped'
    BY <1>1, <2>3 DEF SealVault, requireSessionExpired, UpdateVaultPayload, store
  <2>4. ASSUME NEW r, NEW u, NEW c,
               BeginLogin(u) \/ FinishLogin(r, c) \/ FinishRegistration(c) \/ FinishLoginFails(c)
        PROVE  StoreTyped'
    BY <1>1, <2>4 DEF BeginLogin, FinishLogin, FinishRegistration, FinishLoginFails, store
  <2>5. CASE SessionExpires
    BY <1>1, <2>5 DEF SessionExpires, store
  <2> QED
    BY <1>3, <2>1, <2>2, <2>3, <2>4, <2>5 DEF Client
<1>4. ASSUME Main \/ NewApp \/ Crash PROVE StoreTyped'
  BY <1>1, <1>4 DEF Main, NewApp, Crash, WaitUntilUnsealed, Woken, Start, StartFails, Exit, store
<1>5. CASE UNCHANGED vaultVars
  BY <1>1, <1>5 DEF vaultVars, store
<1> QED
  BY <1>2, <1>3, <1>4, <1>5 DEF NextVault

\* One step keeps all three.
LEMMA StepKeeps ==
    ASSUME Typed, Signalled, StoreTyped, [NextVault]_vaultVars
    PROVE  Typed' /\ Signalled' /\ StoreTyped'
<1>1. CASE UNCHANGED vaultVars
  BY <1>1, FrameKeeps, StoreKeeps DEF vaultVars, Typed, Signalled, TableOK, controller, readyVars
<1>2. ASSUME NEW r \in Requests, Handler(r) \/ StoreFails(r) PROVE Typed' /\ Signalled'
  BY <1>2, HandlerKeeps
<1>3. CASE Client \/ SessionExpires
  BY <1>3, ClientKeeps, StoreKeeps
<1>4. CASE Main \/ NewApp \/ Crash
  BY <1>4, MainKeeps, StoreKeeps DEF StoreTyped
<1> QED
  BY <1>1, <1>2, <1>3, <1>4, StoreKeeps DEF NextVault

\* The invariant holds of every behaviour.
LEMMA Sound == SpecVault => [](Typed /\ Signalled /\ StoreTyped)
<1>1. InitVault => Typed /\ Signalled /\ StoreTyped
  BY SignalledInit DEF InitVault, StoreTyped
<1>2. Typed /\ Signalled /\ StoreTyped /\ [NextVault]_vaultVars => (Typed /\ Signalled /\ StoreTyped)'
  BY StepKeeps
<1> QED
  BY <1>1, <1>2, PTL DEF SpecVault

\* Decrypted secrets are in memory exactly while the vault is unsealed (controller.go:191,
\* 214), for any number of handlers.
THEOREM SecretsMatchState == SpecVault => []SecretsIffUnsealed
<1>1. Signalled => SecretsIffUnsealed
  BY DEF Signalled, SecretsIffUnsealed
<1> QED
  BY <1>1, Sound, PTL

\* The main goroutine finds the channel it waits on closed whenever the vault is unsealed
\* (controller.go:247-277): no sequence of seals and unseals loses its wakeup.
THEOREM NoLostWakeup == SpecVault => []WakeupNotLost
<1>1. Signalled => WakeupNotLost
  BY DEF Signalled, WakeupNotLost
<1> QED
  BY <1>1, Sound, PTL

---------------------------------------------------------------------------
(***************************************************************************)
(* Controller and store agree, for one user and while no passkey is used   *)
(* before setup.  With a second user a restart that looks at the first     *)
(* only, and with an early login a seal of a vault that was never set up,  *)
(* break the agreement: both are described in the README.                  *)
(***************************************************************************)
OneUser == \A u, w \in Users : u = w
Completing == {"setUser", "sealSetup"}
AfterSetup == {"seal", "clear", "unseal", "issue", "status", "update"}

\* What a handler has seen to before it comes to its step: a setup has a row of its user
\* and something to store, one that has stored it finds it stored, and every handler of a
\* session runs in a vault that is set up.
HandlerAgrees(r) ==
    /\ request[r].pc \in {"lookUp", "store"} \cup Completing => users # <<>>
    /\ request[r].pc \in {"ensureUser", "lookUp", "store", "status", "update"}
        => request[r].version # 0
    /\ request[r].pc \in Completing => payload[request[r].user] # 0
    /\ request[r].pc = "sealSetup" => vuser # NoUser
    /\ request[r].pc \in AfterSetup => vstate # "setup_required"

\* A vault that is set up has its user's payload.  One that is not has none, unless a
\* setup is about to be completed; then no session can be there, nor a login.  A payload
\* has a user's row, which a restart looks for.
Agreed ==
    /\ \A r \in Requests : HandlerAgrees(r)
    /\ session.token # 0 => vstate # "setup_required"
    /\ \A c \in ceremonies : c.kind = "login" => vstate # "setup_required"
    /\ vstate # "setup_required" => vuser # NoUser /\ payload[vuser] # 0
    /\ Up /\ vstate = "setup_required" /\ ~InSetup => \A u \in Users : payload[u] = 0
    /\ \A u \in Users : payload[u] # 0 => users # <<>>

\* Nothing that a handler relies on is taken back while the process is up.
Grows ==
    /\ users # <<>> => users' # <<>>
    /\ \A u \in Users : payload[u] # 0 => payload'[u] # 0
    /\ vuser # NoUser => vuser' # NoUser
    /\ vstate # "setup_required" => vstate' # "setup_required"

\* The other handlers still find what they rely on.
LEMMA OthersAgree ==
    ASSUME Typed, Signalled, Agreed, Grows, NEW r \in Requests, OnlyAt(r), HandlerAgrees(r)'
    PROVE  \A s \in Requests : HandlerAgrees(s)'
<1> SUFFICES ASSUME NEW s \in Requests \ {r} PROVE HandlerAgrees(s)'
  OBVIOUS
<1>1. request'[s] = request[s]
  BY DEF OnlyAt
<1>2. request[s].pc \in Completing => request[s].user \in Users
  BY DEF Signalled, TableOK, EntryOK, Bearing, Completing
<1>3. HandlerAgrees(s)
  BY DEF Agreed
<1> QED
  BY <1>1, <1>2, <1>3 DEF HandlerAgrees, Grows

\* Steps that touch neither the rows nor the controller.
LEMMA QuietAgrees ==
    ASSUME Agreed, UNCHANGED <<users, payload, vstate, vuser>>, Up' => Up,
           \A s \in Requests :
              HandlerAgrees(s)' /\ (request[s].pc \in Completing => request'[s] = request[s]),
           session'.token # 0 => vstate # "setup_required",
           \A c \in ceremonies' : c.kind = "login" => vstate # "setup_required"
    PROVE  Agreed'
<1>1. InSetup => InSetup'
  BY DEF InSetup, Completing
<1> QED
  BY <1>1 DEF Agreed

\* A step of a handler that touches neither the rows nor the controller.
LEMMA QuietHandler ==
    ASSUME Typed, Signalled, Agreed, UNCHANGED <<users, payload, vstate, vuser, main>>,
           NEW r \in Requests, OnlyAt(r), HandlerAgrees(r)', request[r].pc \notin Completing,
           session'.token # 0 => session.token # 0 \/ request[r].pc = "issue",
           ceremonies' \subseteq ceremonies
    PROVE  Agreed'
<1>1. Grows
  BY DEF Grows
<1>2. \A s \in Requests : HandlerAgrees(s)'
  BY <1>1, OthersAgree
<1>3. \A s \in Requests : request[s].pc \in Completing => request'[s] = request[s]
  BY DEF OnlyAt
<1>4. session'.token # 0 => vstate # "setup_required"
  BY DEF Agreed, HandlerAgrees, AfterSetup
<1>5. \A c \in ceremonies' : c.kind = "login" => vstate # "setup_required"
  BY DEF Agreed
<1> QED
  BY <1>2, <1>3, <1>4, <1>5, QuietAgrees DEF Up

\* A step of a handler that ends with it being idle relies on nothing any more.
LEMMA IdleAgrees == ASSUME NEW r \in Requests, request'[r].pc = "idle" PROVE HandlerAgrees(r)'
  BY DEF HandlerAgrees, Completing, AfterSetup

\* Every step of a running handler, and a failing store, keep the agreement.
LEMMA HandlerKeepsAgreed ==
    ASSUME OneUser, Typed, Signalled, StoreTyped, Agreed, NEW r \in Requests,
           Handler(r) \/ StoreFails(r)
    PROVE  Agreed'
<1> USE DEF RequestSteps, Completing, AfterSetup
<1>h. HandlerAgrees(r)
  BY DEF Agreed
<1>1. CASE SetupEnsuresUser(r)
  <2>1. /\ request[r].pc = "ensureUser" /\ Continue(r, "lookUp")
        /\ users' = WithUser(request[r].user)
        /\ UNCHANGED <<payload, vstate, vuser, session, ceremonies, main>>
    BY <1>1 DEF SetupEnsuresUser, At, controller, passkeys
  <2>2. request[r].user \in Users
    BY <2>1 DEF Signalled, TableOK, EntryOK, Bearing
  <2>3. users' # <<>>
    BY <2>1, <2>2, WithUserKeeps DEF StoreTyped
  <2>4. OnlyAt(r) /\ request'[r].pc = "lookUp" /\ request'[r].version = request[r].version
    BY <2>1, GotoStep
  <2>5. HandlerAgrees(r)' /\ Grows
    BY <1>h, <2>1, <2>3, <2>4 DEF HandlerAgrees, Grows
  <2>6. \A s \in Requests : HandlerAgrees(s)'
    BY <2>4, <2>5, OthersAgree
  <2>7. InSetup => InSetup'
    BY <2>1, <2>4 DEF InSetup, OnlyAt
  <2> QED
    BY <2>1, <2>3, <2>6, <2>7 DEF Agreed, Up
<1>2. CASE SetupLooksUp(r)
  <2>1. /\ request[r].pc = "lookUp" /\ (Return(r) \/ Continue(r, "store"))
        /\ UNCHANGED <<users, payload, vstate, vuser, session, ceremonies, main>>
    BY <1>2 DEF SetupLooksUp, At, controller, passkeys, store
  <2>2. OnlyAt(r) /\ HandlerAgrees(r)'
    <3>1. CASE Return(r)
      BY <3>1, ReturnStep, IdleAgrees
    <3>2. CASE Continue(r, "store")
      BY <1>h, <2>1, <3>2, GotoStep DEF HandlerAgrees
    <3> QED
      BY <2>1, <3>1, <3>2
  <2> QED
    BY <2>1, <2>2, QuietHandler
<1>3. CASE SetupStores(r)
  <2>1. /\ request[r].pc = "store" /\ Continue(r, "setUser") /\ Up
        /\ payload' = [payload EXCEPT ![request[r].user] = request[r].version]
        /\ UNCHANGED <<users, vstate, vuser, session, ceremonies, main>>
    BY <1>3 DEF SetupStores, At, controller, passkeys, upsertVaultPayload
  <2>2. request[r].user \in Users /\ request[r].version # 0 /\ users # <<>>
    BY <1>h, <2>1 DEF Signalled, TableOK, EntryOK, Bearing, HandlerAgrees
  <2>3. \A u \in Users : payload'[u] = IF u = request[r].user THEN request[r].version ELSE payload[u]
    BY <2>1 DEF StoreTyped
  <2>4. /\ OnlyAt(r) /\ request'[r].pc = "setUser"
        /\ request'[r].version = request[r].version /\ request'[r].user = request[r].user
    BY <2>1, GotoStep
  <2>5. HandlerAgrees(r)' /\ Grows
    BY <2>1, <2>2, <2>3, <2>4 DEF HandlerAgrees, Grows
  <2>6. \A s \in Requests : HandlerAgrees(s)'
    BY <2>4, <2>5, OthersAgree
  <2>7. InSetup'
    BY <2>4 DEF InSetup
  <2>8. vstate' # "setup_required" => vuser' # NoUser /\ payload'[vuser'] # 0
    BY <2>1, <2>2, <2>3 DEF Agreed, Typed
  <2> QED
    BY <2>1, <2>2, <2>6, <2>7, <2>8 DEF Agreed, Up
<1>4. CASE SetupSetsUser(r)
  <2>1. /\ request[r].pc = "setUser" /\ Continue(r, "sealSetup") /\ vuser' = request[r].user
        /\ UNCHANGED <<users, payload, vstate, session, ceremonies, main>>
    BY <1>4 DEF SetupSetsUser, At, passkeys, store
  <2>2. request[r].user \in Users /\ payload[request[r].user] # 0 /\ users # <<>>
    BY <1>h, <2>1 DEF Signalled, TableOK, EntryOK, Bearing, HandlerAgrees
  <2>3. vuser' # NoUser
    BY <2>1, <2>2, VaultAssumption
  <2>4. /\ OnlyAt(r) /\ request'[r].pc = "sealSetup" /\ request'[r].user = request[r].user
    BY <2>1, GotoStep
  <2>5. HandlerAgrees(r)' /\ Grows
    BY <2>1, <2>2, <2>3, <2>4 DEF HandlerAgrees, Grows
  <2>6. \A s \in Requests : HandlerAgrees(s)'
    BY <2>4, <2>5, OthersAgree
  <2>7. InSetup'
    BY <2>4 DEF InSetup
  <2> QED
    BY <2>1, <2>2, <2>3, <2>6, <2>7 DEF Agreed, Up
<1>5. CASE SealStep(r)
  <2>1. /\ request[r].pc \in {"seal", "sealSetup"} /\ Continue(r, "clear") /\ Seal
        /\ UNCHANGED <<users, payload, session, ceremonies, main>>
    BY <1>5 DEF SealStep, At, passkeys, store
  <2>2. vstate' = "sealed" /\ vuser' = vuser
    BY <2>1 DEF Seal, controller
  <2>3. OnlyAt(r) /\ request'[r].pc = "clear"
    BY <2>1, GotoStep
  <2>4. HandlerAgrees(r)' /\ Grows
    BY <2>1, <2>2, <2>3 DEF HandlerAgrees, Grows
  <2>5. \A s \in Requests : HandlerAgrees(s)'
    BY <2>3, <2>4, OthersAgree
  <2>6. vuser # NoUser /\ payload[vuser] # 0
    <3>1. CASE request[r].pc = "seal"
      BY <1>h, <3>1 DEF HandlerAgrees, Agreed
    <3>2. CASE request[r].pc = "sealSetup"
      <4>1. request[r].user \in Users /\ payload[request[r].user] # 0 /\ vuser # NoUser
        BY <1>h, <3>2 DEF Signalled, TableOK, EntryOK, Bearing, HandlerAgrees
      <4>2. vuser \in Users
        BY <4>1 DEF Typed
      <4> QED
        BY <4>1, <4>2 DEF OneUser
    <3> QED
      BY <2>1, <3>1, <3>2
  <2> QED
    BY <2>1, <2>2, <2>5, <2>6 DEF Agreed, Up
<1>6. CASE ClearSession(r)
  <2>1. /\ request[r].pc = "clear" /\ Return(r) /\ session'.token = 0
        /\ UNCHANGED <<users, payload, vstate, vuser, ceremonies, main>>
    BY <1>6 DEF ClearSession, At, controller, passkeys, store, NoSession
  <2> QED
    BY <2>1, ReturnStep, IdleAgrees, QuietHandler
<1>7. CASE UnsealStep(r)
  <2>1. /\ request[r].pc = "unseal" /\ Continue(r, "issue") /\ vstate' = "unsealed"
        /\ UNCHANGED <<users, payload, vuser, session, ceremonies, main>>
    BY <1>7 DEF UnsealStep, Unseal, At, passkeys, store
  <2>2. OnlyAt(r) /\ request'[r].pc = "issue"
    BY <2>1, GotoStep
  <2>3. HandlerAgrees(r)' /\ Grows
    BY <2>1, <2>2 DEF HandlerAgrees, Grows
  <2>4. \A s \in Requests : HandlerAgrees(s)'
    BY <2>2, <2>3, OthersAgree
  <2>5. vuser # NoUser /\ payload[vuser] # 0
    BY <1>h, <2>1 DEF HandlerAgrees, Agreed
  <2> QED
    BY <2>1, <2>4, <2>5 DEF Agreed, Up
<1>8. CASE IssueSession(r)
  <2>1. /\ request[r].pc = "issue" /\ Return(r)
        /\ UNCHANGED <<users, payload, vstate, vuser, ceremonies, main>>
    BY <1>8 DEF IssueSession, At, controller, passkeys, store
  <2> QED
    BY <2>1, ReturnStep, IdleAgrees, QuietHandler
<1>9. CASE UpdateChecksStatus(r)
  <2>1. /\ request[r].pc = "status"
        /\ UNCHANGED <<users, payload, vstate, vuser, session, ceremonies, main>>
    BY <1>9 DEF UpdateChecksStatus, At, controller, passkeys, store
  <2>2. OnlyAt(r) /\ HandlerAgrees(r)'
    <3>1. CASE Return(r)
      BY <3>1, ReturnStep, IdleAgrees
    <3>2. CASE request' = [request EXCEPT ![r].pc = "update", ![r].user = vuser]
      <4>1. /\ OnlyAt(r) /\ request'[r].pc = "update"
            /\ request'[r].version = request[r].version
        BY <3>2, OwnerStep
      <4> QED
        BY <1>h, <2>1, <4>1 DEF HandlerAgrees
    <3> QED
      BY <1>9, <3>1, <3>2 DEF UpdateChecksStatus
  <2> QED
    BY <2>1, <2>2, QuietHandler
<1>10. CASE UpdateStores(r)
  <2>1. /\ request[r].pc = "update" /\ Return(r)
        /\ payload' = [payload EXCEPT ![request[r].user] = request[r].version]
        /\ UNCHANGED <<users, vstate, vuser, session, ceremonies, main>>
    BY <1>10 DEF UpdateStores, At, controller, passkeys, upsertVaultPayload
  <2>2. /\ request[r].user \in Users /\ request[r].version # 0
        /\ vstate # "setup_required" /\ vuser # NoUser /\ payload[vuser] # 0
    BY <1>h, <2>1 DEF Signalled, TableOK, EntryOK, Bearing, HandlerAgrees, Agreed
  <2>3. \A u \in Users : payload'[u] = IF u = request[r].user THEN request[r].version ELSE payload[u]
    BY <2>1 DEF StoreTyped
  <2>4. OnlyAt(r) /\ request'[r].pc = "idle"
    BY <2>1, ReturnStep
  <2>5. HandlerAgrees(r)' /\ Grows
    BY <2>1, <2>2, <2>3, <2>4, IdleAgrees DEF Grows
  <2>6. \A s \in Requests : HandlerAgrees(s)'
    BY <2>4, <2>5, OthersAgree
  <2>7. vuser' # NoUser /\ payload'[vuser'] # 0 /\ users # <<>>
    <3>1. vuser \in Users
      BY <2>2 DEF Typed
    <3> QED
      BY <2>1, <2>2, <2>3, <3>1 DEF Agreed
  <2> QED
    BY <2>1, <2>2, <2>6, <2>7 DEF Agreed, Up
<1>11. CASE StoreFails(r)
  <2>1. /\ request[r].pc \in {"ensureUser", "lookUp", "store", "unseal", "update"} /\ Return(r)
        /\ UNCHANGED <<users, payload, vstate, vuser, session, ceremonies, main>>
    BY <1>11 DEF StoreFails, At, controller, passkeys, store
  <2> QED
    BY <2>1, ReturnStep, IdleAgrees, QuietHandler
<1> QED
  BY <1>1, <1>2, <1>3, <1>4, <1>5, <1>6, <1>7, <1>8, <1>9, <1>10, <1>11 DEF Handler

\* So do the requests and ceremonies that clients begin, and a session's expiry: before
\* setup there is no session to come with and, as assumed, no login.
LEMMA ClientKeepsAgreed ==
    ASSUME ~LoginBeforeSetup, Typed, Signalled, StoreTyped, Agreed, Client \/ SessionExpires
    PROVE  Agreed'
<1> USE DEF RequestSteps, Completing, AfterSetup
<1>1. ASSUME NEW r \in Requests, NEW u \in Users, NEW v \in Versions, SetupVault(r, u, v)
      PROVE  Agreed'
  <2>1. /\ Call(r, "ensureUser", u, v) /\ v \in Nat /\ v # 0
        /\ UNCHANGED <<users, payload, vstate, vuser, session, ceremonies, main>>
    BY <1>1 DEF SetupVault, Versions, controller, passkeys, store
  <2>2. /\ OnlyAt(r) /\ request[r].pc = "idle" /\ request'[r].pc = "ensureUser"
        /\ request'[r].version = v
    BY <2>1, CallStep
  <2>3. HandlerAgrees(r)'
    BY <2>1, <2>2 DEF HandlerAgrees
  <2> QED
    BY <2>1, <2>2, <2>3, QuietHandler
<1>2. ASSUME NEW r \in Requests, NEW v \in Versions, UnsealVault(r, v)
      PROVE  Agreed'
  <2>1. /\ Call(r, "unseal", NoUser, v) /\ v \in Nat /\ vstate # "setup_required"
        /\ UNCHANGED <<users, payload, vstate, vuser, session, ceremonies, main>>
    BY <1>2 DEF UnsealVault, Versions, controller, passkeys, store
  <2>2. OnlyAt(r) /\ request[r].pc = "idle" /\ request'[r].pc = "unseal"
    BY <2>1, CallStep
  <2>3. HandlerAgrees(r)'
    BY <2>1, <2>2 DEF HandlerAgrees
  <2> QED
    BY <2>1, <2>2, <2>3, QuietHandler
<1>3. ASSUME NEW r \in Requests, NEW t \in 1..issued,
             SealVault(r, t) \/ requireSessionExpired(r, t)
      PROVE  Agreed'
  <2>1. /\ Call(r, "seal", NoUser, 0) /\ session.token # 0
        /\ UNCHANGED <<users, payload, vstate, vuser, ceremonies, main>>
    BY <1>3 DEF SealVault, requireSessionExpired, Authorized, controller, passkeys, store
  <2>2. OnlyAt(r) /\ request[r].pc = "idle" /\ request'[r].pc = "seal"
    BY <2>1, CallStep
  <2>3. HandlerAgrees(r)'
    BY <2>1, <2>2 DEF HandlerAgrees, Agreed
  <2> QED
    BY <2>1, <2>2, <2>3, QuietHandler
<1>4. ASSUME NEW r \in Requests, NEW t \in 1..issued, NEW v \in Versions,
             UpdateVaultPayload(r, t, v)
      PROVE  Agreed'
  <2>1. /\ Call(r, "status", NoUser, v) /\ v \in Nat /\ v # 0 /\ session.token # 0
        /\ UNCHANGED <<users, payload, vstate, vuser, session, ceremonies, main>>
    BY <1>4 DEF UpdateVaultPayload, Authorized, Versions, controller, passkeys, store
  <2>2. /\ OnlyAt(r) /\ request[r].pc = "idle" /\ request'[r].pc = "status"
        /\ request'[r].version = v
    BY <2>1, CallStep
  <2>3. HandlerAgrees(r)'
    BY <2>1, <2>2 DEF HandlerAgrees, Agreed
  <2> QED
    BY <2>1, <2>2, <2>3, QuietHandler
<1>5. ASSUME NEW r \in Requests, NEW c \in ceremonies, FinishLogin(r, c)
      PROVE  Agreed'
  <2>1. /\ Call(r, "issue", NoUser, 0) /\ c.kind = "login" /\ ceremonies' \subseteq ceremonies
        /\ UNCHANGED <<users, payload, vstate, vuser, session, main>>
    BY <1>5 DEF FinishLogin, controller, store
  <2>2. OnlyAt(r) /\ request[r].pc = "idle" /\ request'[r].pc = "issue"
    BY <2>1, CallStep
  <2>3. HandlerAgrees(r)'
    BY <2>1, <2>2 DEF HandlerAgrees, Agreed
  <2> QED
    BY <2>1, <2>2, <2>3, QuietHandler
<1>6. ASSUME UNCHANGED <<users, payload, vstate, vuser, main, request>>,
             session'.token = session.token,
             \A c \in ceremonies' : c.kind = "login" => vstate # "setup_required"
      PROVE  Agreed'
  <2>1. \A s \in Requests : HandlerAgrees(s)'
    BY <1>6 DEF Agreed, HandlerAgrees
  <2> QED
    BY <1>6, <2>1, QuietAgrees DEF Agreed, Up
<1>7. ASSUME NEW u \in Users, BeginRegistration(u) PROVE Agreed'
  <2>1. /\ users' = WithUser(u)
        /\ UNCHANGED <<payload, vstate, vuser, session, request, main>>
        /\ ceremonies' = ceremonies \cup {[id |-> begun + 1, kind |-> "registration", user |-> u]}
    BY <1>7 DEF BeginRegistration, Begin, controller
  <2>2. users' # <<>>
    BY <2>1, WithUserKeeps DEF StoreTyped
  <2>3. \A s \in Requests : HandlerAgrees(s)'
    BY <2>1, <2>2 DEF Agreed, HandlerAgrees
  <2>4. \A c \in ceremonies' : c.kind = "login" => c \in ceremonies
    BY <2>1
  <2>5. InSetup' <=> InSetup
    BY <2>1 DEF InSetup
  <2> QED
    BY <2>1, <2>2, <2>3, <2>4, <2>5 DEF Agreed, Up
<1>8. ASSUME NEW u \in Users, BeginLogin(u) PROVE Agreed'
  <2>1. /\ vstate # "setup_required"
        /\ UNCHANGED <<users, payload, vstate, vuser, session, request, main>>
    BY <1>8 DEF BeginLogin, controller, store
  <2> QED
    BY <1>6, <2>1
<1>9. ASSUME NEW c \in ceremonies, FinishRegistration(c) \/ FinishLoginFails(c) PROVE Agreed'
  <2>1. /\ ceremonies' \subseteq ceremonies
        /\ UNCHANGED <<users, payload, vstate, vuser, session, request, main>>
    BY <1>9 DEF FinishRegistration, FinishLoginFails, controller, store
  <2>2. \A d \in ceremonies' : d.kind = "login" => vstate # "setup_required"
    BY <2>1 DEF Agreed
  <2> QED
    BY <1>6, <2>1, <2>2
<1>10. CASE SessionExpires
  <2>1. /\ session' = [session EXCEPT !.expired = TRUE]
        /\ UNCHANGED <<users, payload, vstate, vuser, ceremonies, request, main>>
    BY <1>10 DEF SessionExpires, controller, store, passkeys
  <2>2. session'.token = session.token
    BY <2>1
  <2>3. \A d \in ceremonies' : d.kind = "login" => vstate # "setup_required"
    BY <2>1 DEF Agreed
  <2> QED
    BY <1>6, <2>1, <2>2, <2>3
<1> QED
  BY <1>1, <1>2, <1>3, <1>4, <1>5, <1>7, <1>8, <1>9, <1>10 DEF Client

\* A process that comes up finds its state in the first user's payload; one that goes
\* down leaves no handler, session or ceremony.
LEMMA MainKeepsAgreed ==
    ASSUME OneUser, Typed, Signalled, StoreTyped, Agreed, Main \/ NewApp \/ Crash
    PROVE  Agreed'
<1>1. CASE WaitUntilUnsealed \/ Woken \/ Start
  <2>1. /\ Up /\ UNCHANGED <<users, payload, vstate, vuser, session, ceremonies, request>>
    BY <1>1 DEF WaitUntilUnsealed, Woken, Start, Up, controller, store, passkeys
  <2>2. \A s \in Requests : HandlerAgrees(s)'
    BY <2>1 DEF Agreed, HandlerAgrees
  <2> QED
    BY <2>1, <2>2, QuietAgrees DEF Agreed
<1>2. CASE NewApp
  <2>1. /\ ~Up /\ vstate' = InitialState /\ vuser' = ExistingUser
        /\ UNCHANGED <<users, payload, session, ceremonies, request>>
    BY <1>2 DEF NewApp, Up, store, passkeys
  <2>2. vstate = "setup_required"
    BY <2>1 DEF Signalled, Up
  <2>3. \A u \in Users : payload[u] # 0 => ExistingUser = u
    <3>1. users # <<>> => ExistingUser \in Users
      BY DEF ExistingUser, StoreTyped
    <3> QED
      BY <3>1 DEF OneUser, Agreed
  <2>4. /\ vstate' # "setup_required" => vuser' # NoUser /\ payload[vuser'] # 0
        /\ vstate' = "setup_required" => \A u \in Users : payload[u] = 0
    BY <2>1, <2>3, VaultAssumption DEF InitialState
  <2>5. ASSUME NEW s \in Requests PROVE HandlerAgrees(s)'
    <3>1. HandlerAgrees(s) /\ request'[s] = request[s]
      BY <2>1 DEF Agreed
    <3>2. request[s].pc = "sealSetup" => vuser' # NoUser
      <4>1. request[s].pc = "sealSetup" => request[s].user \in Users /\ payload[request[s].user] # 0
        BY <3>1 DEF HandlerAgrees, Completing, Signalled, TableOK, EntryOK, Bearing
      <4> QED
        BY <2>1, <2>3, <4>1, VaultAssumption
    <3>3. request[s].pc \notin AfterSetup
      BY <2>2, <3>1 DEF HandlerAgrees
    <3> QED
      BY <2>1, <3>1, <3>2, <3>3 DEF HandlerAgrees
  <2> QED
    BY <2>1, <2>2, <2>4, <2>5 DEF Agreed
<1>3. CASE StartFails \/ Crash
  <2>1. Exit
    BY <1>3 DEF StartFails, Crash
  <2>2. /\ main'.pc = "down" /\ vstate' = "setup_required" /\ session'.token = 0
        /\ ceremonies' = {} /\ UNCHANGED <<users, payload>>
    BY <2>1 DEF Exit, NoSession, store
  <2>3. \A s \in Requests : HandlerAgrees(s)'
    BY <2>1, ExitKeeps, IdleAgrees
  <2> QED
    BY <2>2, <2>3 DEF Agreed, Up
<1> QED
  BY <1>1, <1>2, <1>3 DEF Main

\* The controller says what the store says, through setup, sessions, seals and restarts
\* (vault.go:339, app.go:205), however the steps of the handlers interleave, while there
\* is one user and no passkey is used before setup.
THEOREM StoreAgrees ==
    ASSUME OneUser, ~LoginBeforeSetup
    PROVE  SpecVault => []InitializedAgrees
<1>1. InitVault => Agreed
  <2> SUFFICES ASSUME InitVault PROVE Agreed
    OBVIOUS
  <2>1. \A r \in Requests : request[r].pc = "idle"
    BY DEF InitVault, Idle
  <2> QED
    BY <2>1 DEF InitVault, Agreed, HandlerAgrees, Completing, AfterSetup, NoSession, Up
<1>2. Typed /\ Signalled /\ StoreTyped /\ Agreed /\ [NextVault]_vaultVars => Agreed'
  <2> SUFFICES ASSUME Typed, Signalled, StoreTyped, Agreed, [NextVault]_vaultVars PROVE Agreed'
    OBVIOUS
  <2>1. CASE UNCHANGED vaultVars
    <3>1. UNCHANGED <<users, payload, vstate, vuser, session, ceremonies, request, main>>
      BY <2>1 DEF vaultVars, store, controller, passkeys
    <3>2. \A s \in Requests : HandlerAgrees(s)'
      BY <3>1 DEF Agreed, HandlerAgrees
    <3> QED
      BY <3>1, <3>2, QuietAgrees DEF Agreed, Up
  <2>2. CASE \E r \in Requests : Handler(r) \/ StoreFails(r)
    BY <2>2, HandlerKeepsAgreed
  <2>3. CASE Client \/ SessionExpires
    BY <2>3, ClientKeepsAgreed
  <2>4. CASE Main \/ NewApp \/ Crash
    BY <2>4, MainKeepsAgreed
  <2> QED
    BY <2>1, <2>2, <2>3, <2>4 DEF NextVault
<1>3. Agreed => InitializedAgrees
  BY DEF Agreed, InitializedAgrees
<1> QED
  BY <1>1, <1>2, <1>3, Sound, PTL DEF SpecVault

---------------------------------------------------------------------------
(***************************************************************************)
(* The full types, with the bounds.  That no token passes its bound takes  *)
(* counting: a request that will issue one reserves it when it comes in.   *)
(***************************************************************************)
IssuingNow == {r \in Requests : request[r].pc \in Issuing}

TokensOK ==
    /\ issued \in Nat
    /\ session \in [token : Nat, expired : BOOLEAN] /\ session.token <= issued
    /\ issued + Cardinality(IssuingNow) <= MaxTokens

\* How one handler's step changes the number of handlers that will issue a token.
LEMMA IssuingCount ==
    ASSUME NEW r \in Requests, OnlyAt(r)
    PROVE  /\ Cardinality(IssuingNow) \in Nat /\ Cardinality(IssuingNow') \in Nat
           /\ request'[r].pc \notin Issuing => Cardinality(IssuingNow') <= Cardinality(IssuingNow)
           /\ request'[r].pc \notin Issuing /\ request[r].pc \in Issuing
               => Cardinality(IssuingNow') = Cardinality(IssuingNow) - 1
           /\ request'[r].pc \in Issuing => Cardinality(IssuingNow') <= Cardinality(IssuingNow) + 1
           /\ request'[r].pc \in Issuing /\ request[r].pc \in Issuing
               => Cardinality(IssuingNow') = Cardinality(IssuingNow)
<1>1. IsFiniteSet(IssuingNow) /\ IsFiniteSet(IssuingNow')
  <2>1. IssuingNow \in SUBSET Requests /\ IssuingNow' \in SUBSET Requests
    BY DEF IssuingNow
  <2> QED
    BY <2>1, FS_Subset, VaultAssumption
<1>2. Cardinality(IssuingNow) \in Nat /\ Cardinality(IssuingNow') \in Nat
  BY <1>1, FS_CardinalityType
<1>3. request'[r].pc \notin Issuing => IssuingNow' = IssuingNow \ {r}
  BY DEF IssuingNow, OnlyAt
<1>4. request'[r].pc \in Issuing => IssuingNow' = IssuingNow \cup {r}
  BY DEF IssuingNow, OnlyAt
<1>5. request[r].pc \in Issuing <=> r \in IssuingNow
  BY DEF IssuingNow
<1>6. /\ Cardinality(IssuingNow \ {r}) =
            IF r \in IssuingNow THEN Cardinality(IssuingNow) - 1 ELSE Cardinality(IssuingNow)
      /\ Cardinality(IssuingNow \cup {r}) =
            IF r \in IssuingNow THEN Cardinality(IssuingNow) ELSE Cardinality(IssuingNow) + 1
  BY <1>1, FS_RemoveElement, FS_AddElement
<1>7. CASE request'[r].pc \in Issuing
  <2>1. Cardinality(IssuingNow') = Cardinality(IssuingNow \cup {r})
    BY <1>4, <1>7
  <2> QED
    BY <1>2, <1>5, <1>6, <1>7, <2>1
<1>8. CASE request'[r].pc \notin Issuing
  <2>1. Cardinality(IssuingNow') = Cardinality(IssuingNow \ {r})
    BY <1>3, <1>8
  <2> QED
    BY <1>2, <1>5, <1>6, <1>8, <2>1
<1> QED
  BY <1>7, <1>8

\* A step of a handler that will issue no token.
LEMMA TokensQuiet ==
    ASSUME Typed, TokensOK, NEW r \in Requests, OnlyAt(r), request'[r].pc \notin Issuing,
           issued' = issued, session' \in {session, NoSession}
    PROVE  TokensOK'
<1>1. session' \in [token : Nat, expired : BOOLEAN] /\ session'.token <= issued
  <2>1. /\ NoSession \in [token : Nat, expired : BOOLEAN] /\ NoSession.token = 0
        /\ issued \in Nat
    BY DEF TokensOK, NoSession
  <2>2. session \in [token : Nat, expired : BOOLEAN] /\ session.token <= issued
    BY DEF TokensOK
  <2>3. CASE session' = session
    BY <2>2, <2>3
  <2>4. CASE session' = NoSession
    BY <2>1, <2>4
  <2> QED
    BY <2>3, <2>4
<1>2. /\ Cardinality(IssuingNow) \in Nat /\ Cardinality(IssuingNow') \in Nat
      /\ Cardinality(IssuingNow') <= Cardinality(IssuingNow)
  BY IssuingCount
<1> QED
  BY <1>1, <1>2, VaultAssumption DEF TokensOK

\* A request that will issue one comes in while one is left.
LEMMA TokensReserved ==
    ASSUME Typed, TokensOK, TokenLeft, NEW r \in Requests, OnlyAt(r),
           request'[r].pc \in Issuing, UNCHANGED <<issued, session>>
    PROVE  TokensOK'
<1>1. issued + Cardinality(IssuingNow) < MaxTokens
  BY DEF TokenLeft, IssuingNow
<1>2. /\ Cardinality(IssuingNow) \in Nat /\ Cardinality(IssuingNow') \in Nat
      /\ Cardinality(IssuingNow') <= Cardinality(IssuingNow) + 1
  BY IssuingCount
<1> QED
  BY <1>1, <1>2, VaultAssumption DEF TokensOK

\* Steps that start, end or move no handler.
LEMMA TokensFrame ==
    ASSUME TokensOK, UNCHANGED <<issued, request>>,
           session' \in [token : Nat, expired : BOOLEAN], session'.token <= issued
    PROVE  TokensOK'
<1>1. IssuingNow' = IssuingNow
  BY DEF IssuingNow
<1> QED
  BY <1>1 DEF TokensOK

\* Every step keeps the bound on tokens.
LEMMA TokensKept ==
    ASSUME Typed, TokensOK, [NextVault]_vaultVars
    PROVE  TokensOK'
<1> USE DEF RequestSteps, Issuing
<1>s. session \in [token : Nat, expired : BOOLEAN] /\ session.token <= issued
  BY DEF TokensOK
<1>1. CASE UNCHANGED vaultVars
  BY <1>1, <1>s, TokensFrame DEF vaultVars
<1>2. ASSUME NEW r \in Requests,
             SetupEnsuresUser(r) \/ SetupLooksUp(r) \/ SetupStores(r) \/ SetupSetsUser(r)
               \/ SealStep(r)
      PROVE  TokensOK'
  <2>1. /\ \/ Continue(r, "lookUp") \/ Continue(r, "store") \/ Continue(r, "setUser")
           \/ Continue(r, "sealSetup") \/ Continue(r, "clear") \/ Return(r)
        /\ UNCHANGED <<issued, session>>
    BY <1>2 DEF SetupEnsuresUser, SetupLooksUp, SetupStores, SetupSetsUser, SealStep
  <2>2. OnlyAt(r) /\ request'[r].pc \notin Issuing
    BY <2>1, GotoStep, ReturnStep
  <2> QED
    BY <2>1, <2>2, TokensQuiet
<1>3. ASSUME NEW r \in Requests, ClearSession(r) \/ UpdateStores(r) \/ StoreFails(r)
      PROVE  TokensOK'
  <2>1. Return(r) /\ issued' = issued /\ session' \in {session, NoSession}
    BY <1>3 DEF ClearSession, UpdateStores, StoreFails
  <2> QED
    BY <2>1, ReturnStep, TokensQuiet
<1>4. ASSUME NEW r \in Requests, UnsealStep(r) PROVE TokensOK'
  <2>1. request[r].pc = "unseal" /\ Continue(r, "issue") /\ UNCHANGED <<issued, session>>
    BY <1>4 DEF UnsealStep, At
  <2>2. OnlyAt(r) /\ request'[r].pc = "issue"
    BY <2>1, GotoStep
  <2>3. /\ Cardinality(IssuingNow) \in Nat
        /\ Cardinality(IssuingNow') = Cardinality(IssuingNow)
    BY <2>1, <2>2, IssuingCount
  <2> QED
    BY <2>1, <2>3 DEF TokensOK
<1>5. ASSUME NEW r \in Requests, IssueSession(r) PROVE TokensOK'
  <2>1. /\ request[r].pc = "issue" /\ Return(r) /\ issued' = issued + 1
        /\ session' = [token |-> issued + 1, expired |-> FALSE]
    BY <1>5 DEF IssueSession, At
  <2>2. OnlyAt(r) /\ request'[r].pc = "idle"
    BY <2>1, ReturnStep
  <2>3. /\ Cardinality(IssuingNow) \in Nat
        /\ Cardinality(IssuingNow') = Cardinality(IssuingNow) - 1
    BY <2>1, <2>2, IssuingCount
  <2>4. session' \in [token : Nat, expired : BOOLEAN] /\ session'.token <= issued'
    BY <2>1 DEF TokensOK
  <2>5. issued' \in Nat /\ issued' + Cardinality(IssuingNow') <= MaxTokens
    BY <2>1, <2>3, VaultAssumption DEF TokensOK
  <2> QED
    BY <2>4, <2>5 DEF TokensOK
<1>6. ASSUME NEW r \in Requests, UpdateChecksStatus(r) PROVE TokensOK'
  <2>1. UNCHANGED <<issued, session>>
    BY <1>6 DEF UpdateChecksStatus
  <2>2. OnlyAt(r) /\ request'[r].pc \notin Issuing
    <3>1. CASE Return(r)
      BY <3>1, ReturnStep
    <3>2. CASE request' = [request EXCEPT ![r].pc = "update", ![r].user = vuser]
      BY <3>2, OwnerStep
    <3> QED
      BY <1>6, <3>1, <3>2 DEF UpdateChecksStatus
  <2> QED
    BY <2>1, <2>2, TokensQuiet
<1>7. ASSUME NEW r \in Requests, NEW u \in Users, NEW v \in Versions, SetupVault(r, u, v)
      PROVE  TokensOK'
  <2>1. Call(r, "ensureUser", u, v) /\ v \in Nat /\ UNCHANGED <<issued, session>>
    BY <1>7 DEF SetupVault, Versions
  <2>2. OnlyAt(r) /\ request'[r].pc = "ensureUser"
    BY <2>1, CallStep
  <2> QED
    BY <2>1, <2>2, TokensQuiet
<1>8. ASSUME NEW r \in Requests, NEW v \in Versions, UnsealVault(r, v) PROVE TokensOK'
  <2>1. /\ Call(r, "unseal", NoUser, v) /\ v \in Nat /\ TokenLeft
        /\ UNCHANGED <<issued, session>>
    BY <1>8 DEF UnsealVault, Versions
  <2>2. OnlyAt(r) /\ request'[r].pc = "unseal"
    BY <2>1, CallStep
  <2> QED
    BY <2>1, <2>2, TokensReserved
<1>9. ASSUME NEW r \in Requests, NEW t, SealVault(r, t) \/ requireSessionExpired(r, t)
      PROVE  TokensOK'
  <2>1. Call(r, "seal", NoUser, 0) /\ issued' = issued /\ session' \in {session, NoSession}
    BY <1>9 DEF SealVault, requireSessionExpired
  <2>2. OnlyAt(r) /\ request'[r].pc = "seal"
    BY <2>1, CallStep
  <2> QED
    BY <2>1, <2>2, TokensQuiet
<1>10. ASSUME NEW r \in Requests, NEW t, NEW v \in Versions, UpdateVaultPayload(r, t, v)
       PROVE  TokensOK'
  <2>1. Call(r, "status", NoUser, v) /\ v \in Nat /\ UNCHANGED <<issued, session>>
    BY <1>10 DEF UpdateVaultPayload, Versions
  <2>2. OnlyAt(r) /\ request'[r].pc = "status"
    BY <2>1, CallStep
  <2> QED
    BY <2>1, <2>2, TokensQuiet
<1>11. ASSUME NEW r \in Requests, NEW c, FinishLogin(r, c) PROVE TokensOK'
  <2>1. Call(r, "issue", NoUser, 0) /\ TokenLeft /\ UNCHANGED <<issued, session>>
    BY <1>11 DEF FinishLogin
  <2>2. OnlyAt(r) /\ request'[r].pc = "issue"
    BY <2>1, CallStep
  <2> QED
    BY <2>1, <2>2, TokensReserved
<1>12. ASSUME NEW u, BeginRegistration(u) \/ BeginLogin(u) PROVE TokensOK'
  BY <1>12, <1>s, TokensFrame DEF BeginRegistration, BeginLogin
<1>13. ASSUME NEW c, FinishRegistration(c) \/ FinishLoginFails(c) PROVE TokensOK'
  BY <1>13, <1>s, TokensFrame DEF FinishRegistration, FinishLoginFails
<1>14. CASE SessionExpires
  <2>1. session' = [session EXCEPT !.expired = TRUE] /\ UNCHANGED <<issued, request>>
    BY <1>14 DEF SessionExpires
  <2>2. session' \in [token : Nat, expired : BOOLEAN] /\ session'.token <= issued
    BY <1>s, <2>1
  <2> QED
    BY <2>1, <2>2, TokensFrame
<1>15. CASE WaitUntilUnsealed \/ Woken \/ Start \/ NewApp
  BY <1>15, <1>s, TokensFrame DEF WaitUntilUnsealed, Woken, Start, NewApp
<1>16. CASE StartFails \/ Crash
  <2>1. Exit
    BY <1>16 DEF StartFails, Crash
  <2>2. issued' = issued /\ session' = NoSession
    BY <2>1 DEF Exit
  <2>3. IssuingNow' = {}
    BY <2>1, ExitKeeps DEF IssuingNow
  <2>4. Cardinality(IssuingNow') = 0
    BY <2>3, FS_EmptySet
  <2>5. Cardinality(IssuingNow) \in Nat
    <3>1. IssuingNow \in SUBSET Requests
      BY DEF IssuingNow
    <3> QED
      BY <3>1, FS_Subset, FS_CardinalityType, VaultAssumption
  <2>6. issued' + Cardinality(IssuingNow') <= MaxTokens
    BY <2>2, <2>4, <2>5, VaultAssumption DEF TokensOK
  <2> QED
    BY <2>2, <2>6 DEF TokensOK, NoSession
<1> QED
  BY <1>1, <1>2, <1>3, <1>4, <1>5, <1>6, <1>7, <1>8, <1>9, <1>10, <1>11, <1>12, <1>13,
     <1>14, <1>15, <1>16 DEF NextVault, Handler, Client, Main

\* Every version that is stored, decrypted or carried by a handler came with a request.
VersionsOK ==
    /\ payload \in [Users -> 0..MaxVersions]
    /\ secrets \in 0..MaxVersions
    /\ \A r \in Requests : request[r].version \in 0..MaxVersions

\* The version of a handler that moves on, answers or begins.
LEMMA VersionsOf ==
    ASSUME Typed, VersionsOK, NEW r \in Requests, OnlyAt(r),
           request'[r].version \in 0..MaxVersions
    PROVE  \A s \in Requests : request'[s].version \in 0..MaxVersions
  BY DEF VersionsOK, OnlyAt

\* No version passes its bound.
LEMMA VersionsKept ==
    ASSUME Typed, Signalled, VersionsOK, [NextVault]_vaultVars
    PROVE  VersionsOK'
<1> USE DEF RequestSteps
<1>0. 0 \in 0..MaxVersions /\ \A v \in Versions : v \in 0..MaxVersions /\ v \in Nat
  BY VaultAssumption DEF Versions
<1>1. CASE UNCHANGED vaultVars
  BY <1>1 DEF vaultVars, VersionsOK, controller, store
<1>2. ASSUME NEW r \in Requests, UNCHANGED <<payload, secrets>>,
             \/ \E pc \in RequestSteps : Continue(r, pc)
             \/ Return(r)
             \/ \E pc \in RequestSteps, u \in Users \cup {NoUser}, v \in 0..MaxVersions :
                  Call(r, pc, u, v)
      PROVE  VersionsOK'
  <2>1. OnlyAt(r) /\ request'[r].version \in 0..MaxVersions
    <3>1. ASSUME NEW pc \in RequestSteps, Continue(r, pc)
          PROVE  OnlyAt(r) /\ request'[r].version \in 0..MaxVersions
      BY <3>1, GotoStep DEF VersionsOK
    <3>2. CASE Return(r)
      <4>1. request'[r] = Idle
        BY <3>2 DEF Return, Typed
      <4> QED
        BY <1>0, <3>2, <4>1, ReturnStep DEF Idle
    <3>3. ASSUME NEW pc \in RequestSteps, NEW u \in Users \cup {NoUser},
                 NEW v \in 0..MaxVersions, Call(r, pc, u, v)
          PROVE  OnlyAt(r) /\ request'[r].version \in 0..MaxVersions
      <4>1. v \in Nat
        BY VaultAssumption
      <4> QED
        BY <3>3, <4>1, CallStep
    <3> QED
      BY <1>2, <3>1, <3>2, <3>3
  <2>2. \A s \in Requests : request'[s].version \in 0..MaxVersions
    BY <2>1, VersionsOf
  <2> QED
    BY <1>2, <2>2 DEF VersionsOK
<1>3. ASSUME NEW r \in Requests,
             SetupEnsuresUser(r) \/ SetupLooksUp(r) \/ SetupSetsUser(r) \/ ClearSession(r)
               \/ IssueSession(r) \/ StoreFails(r)
      PROVE  VersionsOK'
  <2>1. /\ UNCHANGED <<payload, secrets>>
        /\ Continue(r, "lookUp") \/ Continue(r, "store") \/ Continue(r, "sealSetup") \/ Return(r)
    BY <1>3 DEF SetupEnsuresUser, SetupLooksUp, SetupSetsUser, ClearSession, IssueSession,
                StoreFails, controller, store
  <2> QED
    BY <1>2, <2>1
<1>4. ASSUME NEW r \in Requests, SetupStores(r) \/ UpdateStores(r) PROVE VersionsOK'
  <2>1. /\ payload' = [payload EXCEPT ![request[r].user] = request[r].version]
        /\ secrets' = secrets
        /\ Continue(r, "setUser") \/ Return(r)
    BY <1>4 DEF SetupStores, UpdateStores, upsertVaultPayload, controller
  <2>2. payload' \in [Users -> 0..MaxVersions]
    BY <2>1 DEF VersionsOK
  <2>3. OnlyAt(r) /\ request'[r].version \in 0..MaxVersions
    <3>1. CASE Return(r)
      <4>1. request'[r] = Idle
        BY <3>1 DEF Return, Typed
      <4> QED
        BY <1>0, <3>1, <4>1, ReturnStep DEF Idle
    <3>2. CASE Continue(r, "setUser")
      BY <3>2, GotoStep DEF VersionsOK
    <3> QED
      BY <2>1, <3>1, <3>2
  <2>4. \A s \in Requests : request'[s].version \in 0..MaxVersions
    BY <2>3, VersionsOf
  <2> QED
    BY <2>1, <2>2, <2>4 DEF VersionsOK
<1>5. ASSUME NEW r \in Requests, SealStep(r) \/ UnsealStep(r) PROVE VersionsOK'
  <2>1. payload' = payload /\ (Continue(r, "clear") \/ Continue(r, "issue"))
    BY <1>5 DEF SealStep, UnsealStep, store
  <2>2. secrets' \in {secrets, 0, request[r].version}
    BY <1>5 DEF SealStep, UnsealStep, Seal, Unseal, controller
  <2>3. OnlyAt(r) /\ request'[r].version = request[r].version
    BY <2>1, GotoStep
  <2>4. \A s \in Requests : request'[s].version \in 0..MaxVersions
    BY <2>3, VersionsOf DEF VersionsOK
  <2> QED
    BY <1>0, <2>1, <2>2, <2>4 DEF VersionsOK
<1>6. ASSUME NEW r \in Requests, UpdateChecksStatus(r) PROVE VersionsOK'
  <2>1. UNCHANGED <<payload, secrets>>
    BY <1>6 DEF UpdateChecksStatus, controller, store
  <2>2. CASE Return(r)
    BY <1>2, <2>1, <2>2
  <2>3. CASE request' = [request EXCEPT ![r].pc = "update", ![r].user = vuser]
    <3>1. OnlyAt(r) /\ request'[r].version = request[r].version
      BY <2>3, OwnerStep
    <3>2. \A s \in Requests : request'[s].version \in 0..MaxVersions
      BY <3>1, VersionsOf DEF VersionsOK
    <3> QED
      BY <2>1, <3>2 DEF VersionsOK
  <2> QED
    BY <1>6, <2>2, <2>3 DEF UpdateChecksStatus
<1>7. ASSUME NEW r \in Requests, NEW u \in Users, NEW v \in Versions, SetupVault(r, u, v)
      PROVE  VersionsOK'
  <2>1. /\ UNCHANGED <<payload, secrets>> /\ v \in 0..MaxVersions
        /\ Call(r, "ensureUser", u, v)
    BY <1>0, <1>7 DEF SetupVault, controller, store
  <2> QED
    BY <1>2, <2>1
<1>8. ASSUME NEW r \in Requests, NEW v \in Versions, UnsealVault(r, v)
      PROVE  VersionsOK'
  <2>1. /\ UNCHANGED <<payload, secrets>> /\ v \in 0..MaxVersions
        /\ Call(r, "unseal", NoUser, v)
    BY <1>0, <1>8 DEF UnsealVault, controller, store
  <2> QED
    BY <1>2, <2>1
<1>9. ASSUME NEW r \in Requests, NEW t, NEW v \in Versions, UpdateVaultPayload(r, t, v)
      PROVE  VersionsOK'
  <2>1. /\ UNCHANGED <<payload, secrets>> /\ v \in 0..MaxVersions
        /\ Call(r, "status", NoUser, v)
    BY <1>0, <1>9 DEF UpdateVaultPayload, controller, store
  <2> QED
    BY <1>2, <2>1
<1>10. ASSUME NEW r \in Requests, NEW t, NEW c,
              SealVault(r, t) \/ requireSessionExpired(r, t) \/ FinishLogin(r, c)
       PROVE  VersionsOK'
  <2>1. /\ UNCHANGED <<payload, secrets>>
        /\ Call(r, "seal", NoUser, 0) \/ Call(r, "issue", NoUser, 0)
    BY <1>10 DEF SealVault, requireSessionExpired, FinishLogin, controller, store
  <2> QED
    BY <1>0, <1>2, <2>1
<1>11. CASE UNCHANGED <<payload, secrets, request>>
  BY <1>11 DEF VersionsOK
<1>12. ASSUME NEW u, NEW c,
              \/ BeginRegistration(u) \/ BeginLogin(u)
              \/ FinishRegistration(c) \/ FinishLoginFails(c) \/ SessionExpires
              \/ WaitUntilUnsealed \/ Woken \/ Start \/ NewApp
       PROVE  VersionsOK'
  <2>1. UNCHANGED <<payload, secrets, request>>
    BY <1>12 DEF BeginRegistration, BeginLogin, FinishRegistration, FinishLoginFails,
                 SessionExpires, WaitUntilUnsealed, Woken, Start, NewApp, controller, store
  <2> QED
    BY <1>11, <2>1
<1>13. CASE StartFails \/ Crash
  <2>1. payload' = payload /\ secrets' = 0 /\ request' = [r \in Requests |-> Idle]
    BY <1>13 DEF StartFails, Crash, Exit, store
  <2> QED
    BY <1>0, <2>1 DEF VersionsOK, Idle
<1> QED
  BY <1>1, <1>3, <1>4, <1>5, <1>6, <1>7, <1>8, <1>9, <1>10, <1>12, <1>13
     DEF NextVault, Handler, Client, Main

\* What is left: rows, ceremonies and counters.
RowsOK ==
    /\ IsInjective(users)
    /\ credentials \subseteq Users
    /\ ceremonies \subseteq Ceremony
    /\ begun \in 0..MaxCeremonies
    /\ boots \in 0..MaxBoots
    /\ readyClosed \in BOOLEAN

\* A user has one row, however often it registers or is set up.
LEMMA WithUserOnce ==
    ASSUME users \in Seq(Users), IsInjective(users), NEW u \in Users
    PROVE  IsInjective(WithUser(u))
<1>1. CASE \E i \in DOMAIN users : users[i] = u
  BY <1>1 DEF WithUser
<1>2. CASE ~\E i \in DOMAIN users : users[i] = u
  <2>1. WithUser(u) = Append(users, u) /\ Len(users) \in Nat
    BY <1>2 DEF WithUser
  <2>2. /\ DOMAIN Append(users, u) = 1..(Len(users) + 1) /\ DOMAIN users = 1..Len(users)
        /\ Append(users, u)[Len(users) + 1] = u
        /\ \A i \in 1..Len(users) : Append(users, u)[i] = users[i]
    OBVIOUS
  <2>3. ASSUME NEW a \in 1..(Len(users) + 1), NEW b \in 1..(Len(users) + 1),
               Append(users, u)[a] = Append(users, u)[b]
        PROVE  a = b
    <3>1. a \in 1..Len(users) \/ a = Len(users) + 1
      BY <2>1
    <3>2. b \in 1..Len(users) \/ b = Len(users) + 1
      BY <2>1
    <3> QED
      BY <1>2, <2>2, <2>3, <3>1, <3>2 DEF IsInjective
  <2> QED
    BY <2>1, <2>2, <2>3 DEF IsInjective
<1> QED
  BY <1>1, <1>2

\* A ceremony that begins has the next number.
LEMMA CeremonyBegins ==
    ASSUME RowsOK, NEW kind \in {"registration", "login"}, NEW u \in Users, Begin(kind, u)
    PROVE  ceremonies' \subseteq Ceremony /\ begun' \in 0..MaxCeremonies
<1>1. begun + 1 \in 1..MaxCeremonies /\ begun' = begun + 1
  BY VaultAssumption DEF RowsOK, Begin
<1>2. [id |-> begun + 1, kind |-> kind, user |-> u] \in Ceremony
  BY <1>1 DEF Ceremony
<1> QED
  BY <1>1, <1>2, VaultAssumption DEF RowsOK, Begin

\* Every step keeps them.
LEMMA RowsKept ==
    ASSUME Typed, Signalled, StoreTyped, RowsOK, [NextVault]_vaultVars
    PROVE  RowsOK'
<1>1. ASSUME UNCHANGED <<users, credentials, ceremonies, begun, boots>>,
             readyClosed' \in BOOLEAN
      PROVE  RowsOK'
  BY <1>1 DEF RowsOK
<1>b. readyClosed \in BOOLEAN
  BY DEF RowsOK
<1>2. CASE UNCHANGED vaultVars
  BY <1>1, <1>2, <1>b DEF vaultVars, store, controller, readyVars, passkeys
<1>3. ASSUME NEW r \in Requests, SetupEnsuresUser(r) PROVE RowsOK'
  <2>1. /\ users' = WithUser(request[r].user)
        /\ UNCHANGED <<credentials, ceremonies, begun, boots, readyClosed>>
    BY <1>3 DEF SetupEnsuresUser, controller, readyVars, passkeys
  <2>2. request[r].user \in Users
    BY <1>3 DEF SetupEnsuresUser, At, Signalled, TableOK, EntryOK, Bearing
  <2> QED
    BY <2>1, <2>2, WithUserOnce DEF RowsOK, StoreTyped
<1>4. ASSUME NEW r \in Requests,
             \/ SetupLooksUp(r) \/ SetupStores(r) \/ SetupSetsUser(r)
             \/ ClearSession(r) \/ IssueSession(r) \/ UpdateChecksStatus(r)
             \/ UpdateStores(r) \/ StoreFails(r)
      PROVE  RowsOK'
  <2>1. UNCHANGED <<users, credentials, ceremonies, begun, boots, readyClosed>>
    BY <1>4 DEF SetupLooksUp, SetupStores, SetupSetsUser, ClearSession, IssueSession,
                UpdateChecksStatus, UpdateStores, StoreFails, store, controller, readyVars, passkeys
  <2> QED
    BY <1>1, <1>b, <2>1
<1>5. ASSUME NEW r \in Requests, SealStep(r) \/ UnsealStep(r) PROVE RowsOK'
  <2>1. UNCHANGED <<users, credentials, ceremonies, begun, boots>>
    BY <1>5 DEF SealStep, UnsealStep, store, passkeys
  <2>2. readyClosed' \in BOOLEAN
    BY <1>5, <1>b DEF SealStep, UnsealStep, Seal, Unseal, resetReadyLocked, signalReadyLocked,
                      controller, readyVars
  <2> QED
    BY <1>1, <2>1, <2>2
<1>6. ASSUME NEW r, NEW u, NEW v, NEW t,
             \/ SetupVault(r, u, v) \/ UnsealVault(r, v) \/ SealVault(r, t)
             \/ requireSessionExpired(r, t) \/ UpdateVaultPayload(r, t, v) \/ SessionExpires
             \/ WaitUntilUnsealed \/ Woken \/ Start
      PROVE  RowsOK'
  <2>1. UNCHANGED <<users, credentials, ceremonies, begun, boots, readyClosed>>
    BY <1>6 DEF SetupVault, UnsealVault, SealVault, requireSessionExpired, UpdateVaultPayload,
                SessionExpires, WaitUntilUnsealed, Woken, Start, store, controller, readyVars,
                passkeys
  <2> QED
    BY <1>1, <1>b, <2>1
<1>7. ASSUME NEW u \in Users, BeginRegistration(u) PROVE RowsOK'
  <2>1. /\ users' = WithUser(u) /\ Begin("registration", u)
        /\ UNCHANGED <<credentials, boots, readyClosed>>
    BY <1>7 DEF BeginRegistration, controller, readyVars
  <2> QED
    BY <2>1, WithUserOnce, CeremonyBegins DEF RowsOK, StoreTyped
<1>8. ASSUME NEW u \in Users, BeginLogin(u) PROVE RowsOK'
  <2>1. Begin("login", u) /\ UNCHANGED <<users, credentials, boots, readyClosed>>
    BY <1>8 DEF BeginLogin, controller, readyVars, store
  <2> QED
    BY <2>1, CeremonyBegins DEF RowsOK
<1>9. ASSUME NEW c \in ceremonies, NEW r,
             FinishRegistration(c) \/ FinishLoginFails(c) \/ FinishLogin(r, c)
      PROVE  RowsOK'
  <2>1. /\ ceremonies' \subseteq ceremonies
        /\ credentials' \in {credentials, credentials \cup {c.user}}
        /\ UNCHANGED <<users, begun, boots, readyClosed>>
    BY <1>9 DEF FinishRegistration, FinishLoginFails, FinishLogin, upsertWebauthnCredential,
                controller, readyVars, store
  <2>2. c.user \in Users
    BY DEF RowsOK, Ceremony
  <2> QED
    BY <2>1, <2>2 DEF RowsOK
<1>10. CASE NewApp
  <2>1. /\ UNCHANGED <<users, credentials, ceremonies, begun, readyClosed>>
        /\ boots' = boots + 1 /\ boots < MaxBoots
    BY <1>10 DEF NewApp, store, readyVars, passkeys
  <2>2. boots' \in 0..MaxBoots
    BY <2>1, VaultAssumption DEF RowsOK
  <2> QED
    BY <2>1, <2>2 DEF RowsOK
<1>11. CASE StartFails \/ Crash
  <2>1. /\ UNCHANGED <<users, credentials, begun, boots>>
        /\ ceremonies' = {} /\ readyClosed' = FALSE
    BY <1>11 DEF StartFails, Crash, Exit, store
  <2> QED
    BY <2>1 DEF RowsOK
<1> QED
  BY <1>2, <1>3, <1>4, <1>5, <1>6, <1>7, <1>8, <1>9, <1>10, <1>11
     DEF NextVault, Handler, Client, Main

\* The vault keeps its types: users have one row each, and no counter passes its bound
\* although several handlers that will issue a session run at the same time.
THEOREM VaultTypeCorrect == SpecVault => []VaultTypeOK
<1> DEFINE Inv == Typed /\ Signalled /\ StoreTyped /\ TokensOK /\ VersionsOK /\ RowsOK
<1>1. InitVault => Inv
  <2> SUFFICES ASSUME InitVault PROVE Inv
    OBVIOUS
  <2>1. Typed /\ Signalled /\ StoreTyped
    BY SignalledInit DEF InitVault, StoreTyped
  <2>2. IssuingNow = {}
    BY DEF InitVault, IssuingNow, Idle, Issuing
  <2>3. Cardinality(IssuingNow) = 0
    BY <2>2, FS_EmptySet
  <2>4. TokensOK
    BY <2>3, VaultAssumption DEF InitVault, TokensOK, NoSession
  <2>5. VersionsOK
    BY VaultAssumption DEF InitVault, VersionsOK, Idle
  <2>6. RowsOK
    <3>1. users = <<>> /\ DOMAIN users = {}
      BY DEF InitVault
    <3>2. IsInjective(users)
      BY <3>1 DEF IsInjective
    <3>3. begun \in 0..MaxCeremonies /\ boots \in 0..MaxBoots
      BY VaultAssumption DEF InitVault
    <3>4. credentials = {} /\ ceremonies = {} /\ readyClosed \in BOOLEAN
      BY DEF InitVault
    <3> QED
      BY <3>2, <3>3, <3>4 DEF RowsOK
  <2> QED
    BY <2>1, <2>4, <2>5, <2>6
<1>2. Inv /\ [NextVault]_vaultVars => Inv'
  BY StepKeeps, TokensKept, VersionsKept, RowsKept
<1>3. Inv => VaultTypeOK
  <2> SUFFICES ASSUME Inv PROVE VaultTypeOK
    OBVIOUS
  <2>1. issued \in 0..MaxTokens /\ session \in [token : 0..MaxTokens, expired : BOOLEAN]
    <3>1. Cardinality(IssuingNow) \in Nat
      <4>1. IssuingNow \in SUBSET Requests
        BY DEF IssuingNow
      <4> QED
        BY <4>1, FS_Subset, FS_CardinalityType, VaultAssumption
    <3> QED
      BY <3>1, VaultAssumption DEF TokensOK
  <2>2. request \in [Requests -> [pc : RequestSteps, user : Users \cup {NoUser},
                                  version : 0..MaxVersions]]
    BY DEF Typed, VersionsOK, Request
  <2> QED
    BY <2>1, <2>2 DEF VaultTypeOK, Typed, MainSteps, StoreTyped, VersionsOK, RowsOK
<1> QED
  BY <1>1, <1>2, <1>3, PTL DEF SpecVault
=============================================================================
