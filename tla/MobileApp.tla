----------------------------- MODULE MobileApp -----------------------------
(* The mobile client: the zustand store (session, lending, dashboard fetches), *)
(* the axios interceptor, sign-in, the app lock and the secure storage.  Each  *)
(* step runs from one await to the next; whatever is in flight outlives the    *)
(* screen that started it.  Token and address travel together as "session".    *)
EXTENDS Integers, FiniteSets, FiniteSetsExt, Functions

CONSTANTS
    Wallets,      \* key pairs
    NoWallet,
    Lendings,     \* calls of deposit/withdraw/borrow/repay, numbered
    Holdings,     \* what GET /portfolios may give as the balance
    Quotas,       \* how often a behaviour may take each kind of step
    MaxAttempts,  \* fetchWithRetry: attempts per request
    MaxLogouts    \* bound on logout requests in flight

ASSUME MobileAssumption ==
    /\ Holdings \subseteq Int
    /\ NoWallet \notin Wallets /\ "reading" \notin Wallets \cup {NoWallet}
    /\ MaxAttempts \in Nat \ {0} /\ MaxLogouts \in Nat

VARIABLES
    disk,      \* SecureStore: session, stellar_secret_key, applock.*
    mem,       \* zustand: session, loading flags, whether the assets are
               \* listed and a portfolio is shown, and its balance
    gate,      \* useAppLock
    away,      \* AppState: "active", "away", "long" (a minute or more)
    hydrating, \* triggerHydrationAfterUnlock calls in flight: what each has read
    connect,   \* generateWallet and importWallet of useStellarAuth in flight
    fetches,   \* dashboard requests in flight
    logouts,   \* POST /auth/logout in flight, per session sent
    lending,   \* runLending calls
    refused,   \* the wallets whose session the backend refuses
    quota,
    ghost      \* history the properties speak of; no guard reads it

mobileVars == <<disk, mem, gate, away, hydrating, connect, fetches, logouts, lending, refused, quota, ghost>>

Sessions == Wallets \cup {NoWallet}
\* "portfolio" stands for the requests cancelPendingRequests knows of (the
\* transactions too), "positions" for the others (the supported assets too).
Tracked == {"portfolio"}
Untracked == {"positions"}
NoLending == [at |-> "idle", tx |-> "none"]
FreshMemory == [session |-> NoWallet, restored |-> FALSE, signingIn |-> FALSE, lending |-> FALSE,
                listed |-> FALSE, shown |-> FALSE, balance |-> 0]
FreshGate == [loading |-> TRUE, methods |-> {}, locked |-> FALSE, pinEntry |-> FALSE, prompted |-> FALSE]

MobileInit ==
    /\ disk = [session |-> NoWallet, key |-> NoWallet, lock |-> {}]
    /\ mem = FreshMemory /\ gate = FreshGate /\ away = "active"
    /\ hydrating = {} /\ connect = {} /\ fetches = {}
    /\ logouts = [w \in Wallets |-> 0]
    /\ lending = [l \in Lendings |-> NoLending]
    /\ refused = {}
    /\ quota \in Quotas
    /\ ghost = [late |-> FALSE, proved |-> FALSE, overlapped |-> FALSE, abandoned |-> FALSE,
                settled |-> 0, over |-> {}, suspect |-> FALSE]

----------------------------------------------------------------------------
Takes(kind) == quota[kind] > 0 /\ quota' = [quota EXCEPT ![kind] = @ - 1]
Foreground == away = "active" /\ ~gate.loading /\ ~gate.locked
InFlight == {l \in Lendings : lending[l].at \notin {"idle", "done"}}
Busy == mem.signingIn \/ mem.lending
SessionWork == hydrating # {} \/ connect # {} \/ fetches # {} \/ \E w \in Wallets : logouts[w] > 0

(* logout: tracked requests are aborted, the backend is asked to revoke the    *)
(* session, and only its answer, or having no session, clears the device.      *)
CancelPendingRequests(fs) == {IF f.kind \in Tracked THEN [f EXCEPT !.live = FALSE] ELSE f : f \in fs}
Cleared(m) == [m EXCEPT !.session = NoWallet, !.restored = TRUE, !.signingIn = FALSE, !.lending = FALSE]
Deleted(d) == [d EXCEPT !.session = NoWallet, !.key = NoWallet]
Overlap(g) == [g EXCEPT !.overlapped = @ \/ hydrating # {} \/ connect # {}]

Logout(fs, g) ==
    /\ fetches' = CancelPendingRequests(fs)
    /\ IF mem.session # NoWallet
       THEN /\ logouts[mem.session] < MaxLogouts
            /\ logouts' = [logouts EXCEPT ![mem.session] = @ + 1]
            /\ UNCHANGED <<disk, mem>> /\ ghost' = g
       ELSE /\ mem' = Cleared(mem) /\ disk' = Deleted(disk)
            /\ ghost' = Overlap(g) /\ UNCHANGED logouts

\* handleLogout of the settings and dashboard screens.
HandleLogout ==
    /\ Foreground /\ mem.session # NoWallet
    /\ Takes("logout")
    /\ Logout(fetches, [ghost EXCEPT !.abandoned = @ \/ InFlight # {}])
    /\ UNCHANGED <<gate, away, hydrating, connect, lending, refused>>

\* The answer of /auth/logout.  A 401 goes through the interceptor first.
LogoutAnswered(w) ==
    LET again == w \in refused /\ ~Busy /\ mem.session # NoWallet IN
    /\ logouts[w] > 0
    /\ again => logouts[mem.session] <= MaxLogouts
    /\ logouts' = [v \in Wallets |-> logouts[v] - (IF v = w THEN 1 ELSE 0)
                                     + (IF again /\ v = mem.session THEN 1 ELSE 0)]
    /\ mem' = Cleared(mem) /\ disk' = Deleted(disk)
    /\ ghost' = Overlap(ghost)
    /\ \/ refused' = refused \cup {w}
       \/ UNCHANGED refused
    /\ fetches' = IF w \in refused /\ ~Busy THEN CancelPendingRequests(fetches) ELSE fetches
    /\ UNCHANGED <<gate, away, hydrating, connect, lending, quota>>

SessionExpires(w) ==
    /\ w \notin refused
    /\ Takes("expire")
    /\ refused' = refused \cup {w}
    /\ UNCHANGED <<disk, mem, gate, away, hydrating, connect, fetches, logouts, lending, ghost>>

----------------------------------------------------------------------------
(* Sign-in (useStellarAuth): the lock's flag is read and the key stored, then a *)
(* nonce is asked for, then the signature is verified.  The screen shows while  *)
(* no session is; its buttons wait for a sign-in to end, but the keyboard's     *)
(* "done" key imports another wallet next to one that is under way.             *)
StartConnect(w) ==
    /\ Foreground /\ mem.restored /\ mem.session = NoWallet
    /\ Takes("connect")
    /\ connect' = connect \cup {[at |-> "storing", who |-> w]}
    /\ ghost' = [ghost EXCEPT !.overlapped = @ \/ SessionWork]
    /\ UNCHANGED <<disk, mem, gate, away, hydrating, fetches, logouts, lending, refused>>

Onwards(c, at) == connect' = (connect \ {c}) \cup {[c EXCEPT !.at = at]}

StoreKey(c) ==
    /\ c.at = "storing" /\ Onwards(c, "nonce")
    /\ disk' = [disk EXCEPT !.key = c.who]
    /\ UNCHANGED <<mem, gate, away, hydrating, fetches, logouts, lending, refused, quota, ghost>>

ReceiveNonce(c) ==
    /\ c.at = "nonce" /\ Onwards(c, "verify")
    /\ mem' = [mem EXCEPT !.signingIn = TRUE]
    /\ UNCHANGED <<disk, gate, away, hydrating, fetches, logouts, lending, refused, quota, ghost>>

Verify(c) ==
    /\ c.at = "verify"
    /\ connect' = connect \ {c}
    /\ mem' = [mem EXCEPT !.session = c.who, !.signingIn = FALSE]
    /\ disk' = [disk EXCEPT !.session = c.who]
    /\ refused' = refused \ {c.who}
    /\ UNCHANGED <<gate, away, hydrating, fetches, logouts, lending, quota, ghost>>

\* A failed sign-in leaves the key.
ConnectFails(c) ==
    /\ connect' = connect \ {c}
    /\ mem' = [mem EXCEPT !.signingIn = @ /\ c.at # "verify"]
    /\ UNCHANGED <<disk, gate, away, hydrating, fetches, logouts, lending, refused, quota, ghost>>

ConnectStep(c) == StoreKey(c) \/ ReceiveNonce(c) \/ Verify(c) \/ ConnectFails(c)

----------------------------------------------------------------------------
(* Launch, hydration and the app lock. *)
\* The launch hydration and useAppLock read the lock keys independently.
\* Mutant: the secrets are read whether or not a lock is set.
LaunchHydratesAlways == TRUE
LaunchHydrates == disk.lock = {}

LaunchHydration ==
    /\ ~mem.restored /\ hydrating = {}
    /\ IF LaunchHydrates
       THEN hydrating' = {"reading"} /\ UNCHANGED mem
       ELSE mem' = [mem EXCEPT !.restored = TRUE] /\ UNCHANGED hydrating
    /\ UNCHANGED <<disk, gate, away, connect, fetches, logouts, lending, refused, quota, ghost>>

ReadGateState ==
    /\ gate.loading
    /\ gate' = [gate EXCEPT !.loading = FALSE, !.methods = disk.lock, !.locked = disk.lock # {}]
    /\ ghost' = [ghost EXCEPT !.late = FALSE, !.proved = FALSE]
    /\ UNCHANGED <<disk, mem, away, hydrating, connect, fetches, logouts, lending, refused, quota>>

\* triggerHydrationAfterUnlock: read, then set; nobody awaits it.
ReadSecrets ==
    /\ "reading" \in hydrating
    /\ hydrating' = (hydrating \ {"reading"}) \cup {disk.session}
    /\ UNCHANGED <<disk, mem, gate, away, connect, fetches, logouts, lending, refused, quota, ghost>>

SetSecrets(s) ==
    /\ s \in hydrating \cap Sessions
    /\ hydrating' = hydrating \ {s}
    /\ mem' = [mem EXCEPT !.restored = TRUE, !.session = IF s = NoWallet THEN @ ELSE s]
    /\ UNCHANGED <<disk, gate, away, connect, fetches, logouts, lending, refused, quota, ghost>>

\* enrollBiometrics and enrollPin, from the wizard of the settings screen.
EnrollLock(method) ==
    /\ Foreground /\ mem.session # NoWallet /\ method \notin gate.methods
    /\ Takes("lock")
    /\ disk' = [disk EXCEPT !.lock = @ \cup {method}]
    /\ gate' = [gate EXCEPT !.methods = @ \cup {method}]
    /\ UNCHANGED <<mem, away, hydrating, connect, fetches, logouts, lending, refused, ghost>>

\* disableLock removes both methods once either has been passed.
DisableLock ==
    /\ Foreground /\ mem.session # NoWallet /\ gate.methods # {}
    /\ Takes("lock")
    /\ disk' = [disk EXCEPT !.lock = {}]
    /\ gate' = [gate EXCEPT !.methods = {}]
    /\ UNCHANGED <<mem, away, hydrating, connect, fetches, logouts, lending, refused, ghost>>

GoAway ==
    /\ \/ away = "active" /\ Takes("away") /\ away' = "away"
       \/ away = "away" /\ away' = "long" /\ UNCHANGED quota
    /\ UNCHANGED <<disk, mem, gate, hydrating, connect, fetches, logouts, lending, refused, ghost>>

WipeHotSecretsFromStore(m) == [m EXCEPT !.session = NoWallet]

\* useAutoLock: a return after the threshold wipes the secrets and locks.
ComeBack ==
    /\ away # "active" /\ away' = "active"
    /\ IF away = "long" /\ gate.methods # {} /\ ~gate.locked
       THEN /\ mem' = WipeHotSecretsFromStore(mem)
            /\ gate' = [gate EXCEPT !.locked = TRUE]
            /\ ghost' = [ghost EXCEPT !.late = hydrating # {} \/ connect # {}, !.proved = FALSE]
       ELSE UNCHANGED <<mem, gate, ghost>>
    /\ UNCHANGED <<disk, hydrating, connect, fetches, logouts, lending, refused, quota>>

(* The gate offers the prompt, and the PIN on a view of its own; a wrong PIN or *)
(* a refused prompt changes nothing.                                            *)
Gated == gate.locked /\ away = "active"
GateOffers(method) == Gated /\ method \in gate.methods /\ (method = "bio" => ~gate.pinEntry)
TurnToPin ==
    /\ GateOffers("pin")
    /\ gate' = [gate EXCEPT !.pinEntry = ~@]
    /\ UNCHANGED <<disk, mem, away, hydrating, connect, fetches, logouts, lending, refused, quota, ghost>>

\* unlock() lifts the lock, and then the secrets are read.
LiftGate ==
    /\ gate' = [gate EXCEPT !.locked = FALSE, !.pinEntry = FALSE, !.prompted = FALSE]
    /\ hydrating' = hydrating \cup {"reading"}
    /\ ghost' = [ghost EXCEPT !.proved = TRUE]
    /\ UNCHANGED <<disk, mem, away, connect, fetches, logouts, lending, refused, quota>>
UnlockWithBiometrics == GateOffers("bio") /\ LiftGate
UnlockWithPin == GateOffers("pin") /\ gate.pinEntry /\ LiftGate

(* The prompt the gate shows once by itself, over the PIN view too: unlock()    *)
(* prompts a second time, and its refusal is not looked at before the secrets   *)
(* are read.                                                                    *)
AutoPromptHalfPassed ==
    /\ Gated /\ "bio" \in gate.methods /\ ~gate.prompted
    /\ Takes("half")
    /\ gate' = [gate EXCEPT !.prompted = TRUE]
    /\ hydrating' = hydrating \cup {"reading"}
    /\ ghost' = [ghost EXCEPT !.proved = TRUE]
    /\ UNCHANGED <<disk, mem, away, connect, fetches, logouts, lending, refused>>

\* handleForgotPin, after its warning: everything stored goes, the lock too.
ForgotPin ==
    /\ Gated
    /\ disk' = [Deleted(disk) EXCEPT !.lock = {}]
    /\ gate' = [FreshGate EXCEPT !.loading = FALSE]
    /\ ghost' = [Overlap(ghost) EXCEPT !.overlapped = @ \/ mem.session # NoWallet]
    /\ UNCHANGED <<mem, away, hydrating, connect, fetches, logouts, lending, refused, quota>>

\* The process dies: only the disk, the backend and the chain go on.
Relaunch ==
    /\ Takes("relaunch")
    /\ mem' = FreshMemory /\ gate' = FreshGate /\ away' = "active"
    /\ hydrating' = {} /\ connect' = {} /\ fetches' = {}
    /\ logouts' = [w \in Wallets |-> 0]
    /\ lending' = [l \in Lendings |-> IF lending[l].at = "idle" THEN NoLending
                                       ELSE [lending[l] EXCEPT !.at = "done"]]
    /\ ghost' = [ghost EXCEPT !.settled = 0, !.over = {}, !.suspect = FALSE]
    /\ UNCHANGED <<disk, refused>>

----------------------------------------------------------------------------
(* Dashboard requests.  Portfolio and transactions can be aborted and time out; *)
(* the others cannot.  A confirmed lending asks for one after the other.        *)
Request(kind, who, chain) ==
    [kind |-> kind, who |-> who, live |-> TRUE, tries |-> 1, chain |-> chain]
Following(f) == IF f.chain /\ f.kind = "portfolio" /\ mem.session # NoWallet THEN {"positions"} ELSE {}

StartFetches(kinds) ==
    /\ Foreground /\ mem.session # NoWallet
    /\ Takes("fetch")
    /\ fetches' = fetches \cup {Request(k, mem.session, FALSE) : k \in kinds}
    /\ UNCHANGED <<disk, mem, gate, away, hydrating, connect, logouts, lending, refused, ghost>>

HydrateDashboard == StartFetches(Tracked \cup Untracked)
RefreshDashboard == StartFetches(Tracked)

\* The lending screens ask, when they are mounted, for what is not there yet.
MountFetches ==
    {k \in Untracked : ~mem.listed /\ \A f \in fetches : f.kind # k}
    \cup {k \in Tracked : ~mem.shown}
MountLendingScreen == MountFetches # {} /\ StartFetches(MountFetches)

(* The balance is the wallet's holding of the native coin, as Horizon had it    *)
(* when the backend asked: any, whatever has been lent meanwhile.               *)
FetchSucceeds(f) ==
    /\ f \in fetches /\ f.live
    /\ f.who \notin refused
    /\ fetches' = (fetches \ {f}) \cup {Request(k, mem.session, TRUE) : k \in Following(f)}
    /\ \/ /\ f.kind = "portfolio"
          /\ \E held \in Holdings :
                /\ mem' = [mem EXCEPT !.balance = held, !.shown = TRUE]
                /\ ghost' = [ghost EXCEPT !.settled = held, !.over = InFlight, !.suspect = FALSE]
       \/ /\ f.kind = "positions"
          /\ mem' = [mem EXCEPT !.listed = TRUE] /\ UNCHANGED ghost
    /\ UNCHANGED <<disk, gate, away, hydrating, connect, logouts, lending, refused, quota>>

\* getRetryDecision: no answer or a 5xx is tried again.
FetchRetried(f) ==
    /\ f \in fetches /\ f.live /\ f.kind \in Tracked /\ f.tries < MaxAttempts
    /\ Takes("outage")
    /\ fetches' = (fetches \ {f}) \cup {[f EXCEPT !.tries = @ + 1]}
    /\ UNCHANGED <<disk, mem, gate, away, hydrating, connect, logouts, lending, refused, ghost>>

\* Aborted, timed out or out of attempts: the data shown stays.
FetchGivenUp(f) ==
    /\ f \in fetches
    /\ \/ ~f.live /\ UNCHANGED quota
       \/ f.live /\ Takes("outage")
    /\ fetches' = fetches \ {f}
    /\ UNCHANGED <<disk, mem, gate, away, hydrating, connect, logouts, lending, refused, ghost>>

\* Mutant: the interceptor does not look at lendingLoading.
SignsOutUnlessSigningIn == ~mem.signingIn
SignsOut == ~(mem.signingIn \/ mem.lending)

\* The interceptor on a 401: whoever is signed in by now is signed out.
FetchUnauthorized(f) ==
    /\ f \in fetches /\ f.live /\ f.who \in refused
    /\ IF SignsOut THEN Logout(fetches \ {f}, ghost)
       ELSE fetches' = fetches \ {f} /\ UNCHANGED <<disk, mem, logouts, ghost>>
    /\ UNCHANGED <<gate, away, hydrating, connect, lending, refused, quota>>

----------------------------------------------------------------------------
(* runLending: the balance is moved at once and moved back on any failure.      *)
StartLending(l, optimisticDelta) ==
    /\ Foreground /\ mem.session # NoWallet /\ mem.listed /\ ~mem.lending
    /\ lending[l] = NoLending /\ \A k \in Lendings : k < l => lending[k] # NoLending
    /\ Takes("lend")
    /\ mem' = [mem EXCEPT !.lending = TRUE, !.balance = @ + optimisticDelta]
    /\ lending' = [lending EXCEPT ![l] = [at |-> "signing", tx |-> "none", delta |-> optimisticDelta]]
    /\ ghost' = [ghost EXCEPT !.abandoned = @ \/ \E w \in Wallets : logouts[w] > 0]
    /\ UNCHANGED <<disk, gate, away, hydrating, connect, fetches, logouts, refused>>

\* The screens: an asset or a loan of those listed, an amount, one call of the
\* store; the keyboard's "done" key confirms while the button is disabled too.
Deposit(l) == StartLending(l, 1)
Borrow(l) == StartLending(l, 1)
Repay(l) == StartLending(l, -1)

\* signTransaction and sendTransaction, with whatever key is stored by now.
SendLending(l) ==
    /\ lending[l].at = "signing" /\ disk.key # NoWallet
    /\ lending' = [lending EXCEPT ![l].at = "polling", ![l].tx = "sent"]
    /\ UNCHANGED <<disk, mem, gate, away, hydrating, connect, fetches, logouts, refused, quota, ghost>>

\* The chain decides; once nobody polls any more it makes no difference here.
LendingLands(l, outcome) ==
    /\ lending[l].at = "polling" /\ lending[l].tx = "sent"
    /\ lending' = [lending EXCEPT ![l].tx = outcome]
    /\ UNCHANGED <<disk, mem, gate, away, hydrating, connect, fetches, logouts, refused, quota, ghost>>

(* A refresh that arrived under a call has replaced the balance it moved.       *)
ConfirmLending(l) ==
    /\ lending[l].at = "polling" /\ lending[l].tx = "SUCCESS"
    /\ lending' = [lending EXCEPT ![l].at = "done"]
    /\ mem' = [mem EXCEPT !.lending = FALSE]
    /\ fetches' = fetches \cup {Request("portfolio", s, TRUE) : s \in {mem.session} \ {NoWallet}}
    /\ ghost' = [ghost EXCEPT !.settled = IF l \in ghost.over THEN @ ELSE @ + lending[l].delta,
                              !.over = @ \ {l}]
    /\ UNCHANGED <<disk, gate, away, hydrating, connect, logouts, refused, quota>>

\* Mutant: an error before the broadcast leaves the optimistic balance.
RolledBackAfterSend(l) == [mem EXCEPT !.lending = FALSE,
                                      !.balance = IF lending[l].at = "polling" THEN @ - lending[l].delta ELSE @]
RolledBack(l) == [mem EXCEPT !.lending = FALSE, !.balance = @ - lending[l].delta]
\* Mutant: pollTransaction has no deadline.
PollsForever(l) == lending[l].tx = "FAILED"
PollEnds(l) == lending[l].tx \in {"FAILED", "sent", "SUCCESS"}

\* No key, a refused broadcast, a failed transaction, a poll that threw or timed out.
RollBackLending(l) ==
    /\ \/ lending[l].at = "signing"
       \/ lending[l].at = "polling" /\ PollEnds(l)
    /\ lending' = [lending EXCEPT ![l].at = "done"]
    /\ mem' = RolledBack(l)
    /\ ghost' = [ghost EXCEPT !.suspect = @ \/ l \in ghost.over, !.over = @ \ {l}]
    /\ UNCHANGED <<disk, gate, away, hydrating, connect, fetches, logouts, refused, quota>>

(* fetch has no time limit, and pollTransaction looks at its deadline between   *)
(* two calls only: one that Horizon or the RPC never answers holds runLending   *)
(* until the process dies.                                                      *)
LendingHangs(l) ==
    /\ lending[l].at \in {"signing", "polling"}
    /\ Takes("hang")
    /\ lending' = [lending EXCEPT ![l].at = "hung"]
    /\ UNCHANGED <<disk, mem, gate, away, hydrating, connect, fetches, logouts, refused, ghost>>

LendingStep(l) == SendLending(l) \/ ConfirmLending(l) \/ RollBackLending(l)

----------------------------------------------------------------------------
MobileNext ==
    \/ HandleLogout
    \/ \E w \in Wallets : LogoutAnswered(w) \/ SessionExpires(w)
    \/ \E w \in Wallets : StartConnect(w)
    \/ \E c \in connect : ConnectStep(c)
    \/ LaunchHydration \/ ReadGateState \/ ReadSecrets \/ \E s \in Sessions : SetSecrets(s)
    \/ \E method \in {"bio", "pin"} : EnrollLock(method)
    \/ DisableLock \/ GoAway \/ ComeBack
    \/ TurnToPin \/ UnlockWithBiometrics \/ UnlockWithPin \/ AutoPromptHalfPassed \/ ForgotPin \/ Relaunch
    \/ HydrateDashboard \/ RefreshDashboard
    \/ \E f \in fetches : FetchSucceeds(f) \/ FetchRetried(f) \/ FetchGivenUp(f) \/ FetchUnauthorized(f)
    \/ MountLendingScreen
    \/ \E l \in Lendings : \/ Deposit(l) \/ Borrow(l) \/ Repay(l)
                           \/ LendingStep(l) \/ LendingHangs(l)
                           \/ \E o \in {"SUCCESS", "FAILED"} : LendingLands(l, o)

MobileSpec == MobileInit /\ [][MobileNext]_mobileVars

----------------------------------------------------------------------------
(* Behind a closed gate the store holds no session, over launches, returns from *)
(* the background, sign-outs and expiries, unless a prompt has been passed      *)
(* since it closed or a read or sign-in was under way when it did.              *)
GateHolds == gate.locked /\ ~ghost.late /\ ~ghost.proved => mem.session = NoWallet

(* A signed-in device can sign for its own address: the key that is stored is   *)
(* the session's, unless session operations overlapped, such as two imports.    *)
SessionHasItsKey ==
    mem.session # NoWallet /\ ~ghost.overlapped => disk.key = mem.session

(* At most one lending call is under way, unless one met a sign-out by hand or   *)
(* was started during a sign-out: an expired session waits for it (the 401      *)
(* interceptor and the double-tap guard, both reading lendingLoading).          *)
OneLendingAtATime == ~ghost.abandoned => Cardinality(InFlight) <= 1

(* A failed lending call leaves no trace in the balance shown: with none under  *)
(* way it is the last answer of the backend and what was confirmed since, over  *)
(* overlapping calls, failures and refreshes, except after the failure of a     *)
(* call under which a refresh arrived, until the next refresh (runLending).     *)
FailedCallsLeaveNoTrace ==
    InFlight = {} /\ ~ghost.suspect => mem.balance = ghost.settled

(* Every lending call ends, whatever the chain does with its transaction, or    *)
(* one of its requests is never answered.                                       *)
LendingEnds == \A l \in Lendings : lending[l].at = "signing" ~> lending[l].at \in {"done", "hung"}
=============================================================================
