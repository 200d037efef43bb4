---------------------------- MODULE AdminActions ----------------------------
(* Privileged actions of the backend (admin.service.ts and its repository and *)
(* watcher) and the protocol configuration they change, which                 *)
(* protocol.service.ts serves from a cache the watcher invalidates.  Values   *)
(* of the configuration are the number of actions executed on chain; the two  *)
(* cache times are ticks of the clock.                                        *)
EXTENDS Integers, FiniteSets

CONSTANTS
    Actions,         \* AdminAction rows
    Txs,             \* hashes clients may report
    Submits,         \* POST submit-tx in flight, numbered
    Readers,         \* GET protocol/config in flight, as slots
    CacheTtl,        \* CACHE_TTL_MS
    FallbackAge,     \* how long lastKnownGood is served
    MaxClock, MaxRpcErrors

ASSUME AdminAssumption ==
    /\ CacheTtl \in Nat \ {0} /\ FallbackAge \in Nat /\ CacheTtl <= FallbackAge
    /\ MaxClock \in Nat /\ MaxRpcErrors \in Nat

VARIABLES
    action,      \* rows: status, xdr built, reported hash
    submit,      \* submitTransaction between read and update
    outcome,     \* the chain: outcome of each hash
    round,       \* runWatcher: rows listed, with the hash they had
    rpcErrors,
    replaced,    \* history: when configuration v was replaced; live = its length
    configCache, lastKnownGood,
    build        \* getConfig between its start and its chain read

adminVars == <<action, submit, outcome, round, rpcErrors>>
configVars == <<replaced, configCache, lastKnownGood, build>>
VARIABLE clock
adminAll == <<adminVars, configVars, clock>>

NoTx == "no tx"
NoEntry == [at |-> -1, params |-> 0, assets |-> 0]
Free == [at |-> "idle"]
live == Cardinality(DOMAIN replaced)

AdminInit ==
    /\ action = [a \in Actions |-> [status |-> "none", xdr |-> FALSE, tx |-> NoTx]]
    /\ submit = [s \in Submits |-> Free]
    /\ outcome = [t \in Txs |-> "NOT_FOUND"]
    /\ round = {} /\ rpcErrors = 0
    /\ replaced = [v \in {} |-> 0]
    /\ configCache = NoEntry /\ lastKnownGood = NoEntry
    /\ build = [r \in Readers |-> Free]
    /\ clock = 0

----------------------------------------------------------------------------
(* dispatchAction: the intent is stored, then the XDR is built; a failure      *)
(* marks the row FAILED.                                                       *)
RecordIntent(a) ==
    /\ action[a].status = "none"
    /\ action' = [action EXCEPT ![a].status = "PENDING"]
    /\ UNCHANGED <<submit, outcome, round, rpcErrors, configVars, clock>>

BuildXdr(a) ==
    /\ action[a].status = "PENDING" /\ ~action[a].xdr
    /\ \/ action' = [action EXCEPT ![a].xdr = TRUE]
       \/ action' = [action EXCEPT ![a].status = "FAILED"]
    /\ UNCHANGED <<submit, outcome, round, rpcErrors, configVars, clock>>

(* submitTransaction: the row is read and must be pending; markSent then       *)
(* addresses it by id alone.                                                   *)
ReadPending(s, a, t) ==
    /\ submit[s] = Free /\ \A q \in Submits : q < s => submit[q] # Free
    /\ action[a].status = "PENDING" /\ action[a].xdr
    /\ submit' = [submit EXCEPT ![s] = [at |-> "send", a |-> a, tx |-> t]]
    /\ UNCHANGED <<action, outcome, round, rpcErrors, configVars, clock>>

MarkSent(s) ==
    /\ submit[s].at = "send"
    /\ action' = [action EXCEPT ![submit[s].a].status = "SENT", ![submit[s].a].tx = submit[s].tx]
    /\ submit' = [submit EXCEPT ![s] = Free]
    /\ UNCHANGED <<outcome, round, rpcErrors, configVars, clock>>

(* The chain executes or refuses a signed transaction.                         *)
Execute(t, ok) ==
    /\ outcome[t] = "NOT_FOUND"
    /\ outcome' = [outcome EXCEPT ![t] = IF ok THEN "SUCCESS" ELSE "FAILED"]
    /\ replaced' = IF ok THEN [v \in 0 .. live |-> IF v = live THEN clock ELSE replaced[v]]
                         ELSE replaced
    /\ UNCHANGED <<action, submit, round, rpcErrors, configCache, lastKnownGood, build, clock>>

----------------------------------------------------------------------------
(* runWatcher: the rows are listed once; each is then looked up by the hash it *)
(* had and updated by id.                                                      *)
ListSent ==
    LET sent == {a \in Actions : action[a].status = "SENT"} IN
    /\ round = {} /\ sent # {}
    /\ round' = {[a |-> a, tx |-> action[a].tx] : a \in sent}
    /\ UNCHANGED <<action, submit, outcome, rpcErrors, configVars, clock>>

Resolved(tx) == outcome[tx] \in {"SUCCESS", "FAILED"}
PollAction(row) ==
    /\ row \in round /\ round' = round \ {row}
    /\ \/ /\ rpcErrors < MaxRpcErrors /\ rpcErrors' = rpcErrors + 1
          /\ UNCHANGED <<action, configCache>>
       \/ /\ UNCHANGED rpcErrors
          /\ IF Resolved(row.tx)
               THEN action' = [action EXCEPT ![row.a].status =
                        IF outcome[row.tx] = "SUCCESS" THEN "CONFIRMED" ELSE "FAILED"]
               ELSE UNCHANGED action
          /\ configCache' = IF outcome[row.tx] = "SUCCESS" THEN NoEntry ELSE configCache
    /\ UNCHANGED <<submit, outcome, replaced, lastKnownGood, build, clock>>

RunActionWatcher == ListSent \/ \E row \in round : PollAction(row)

----------------------------------------------------------------------------
(* getConfig: the time is taken first; a live entry answers at once, otherwise *)
(* the chain is read.  A build that was under way when the cache was cleared   *)
(* stores its result all the same.                                             *)
Expiry(e) == e.at + CacheTtl
StartBuild(r) ==
    /\ build[r] = Free
    /\ configCache = NoEntry \/ Expiry(configCache) <= clock
    /\ build' = [build EXCEPT ![r] = [at |-> "read", now |-> clock]]
    /\ UNCHANGED <<adminVars, replaced, configCache, lastKnownGood, clock>>

(* ProtocolChainReader.read: the parameters of the contract first, then every  *)
(* asset, so that a change may fall between the two.                           *)
ReadParameters(r) ==
    /\ build[r].at = "read"
    /\ build' = [build EXCEPT ![r] = [at |-> "assets", now |-> build[r].now, params |-> live]]
    /\ UNCHANGED <<adminVars, replaced, configCache, lastKnownGood, clock>>

ReadAssets(r) ==
    /\ build[r].at = "assets"
    /\ build' = [build EXCEPT ![r] = [at |-> "store", now |-> build[r].now,
                                     params |-> build[r].params, assets |-> live]]
    /\ UNCHANGED <<adminVars, replaced, configCache, lastKnownGood, clock>>

\* Mutant: the entry is stamped when it is stored.
StampAtStore(r) == clock
StampAt(r) == build[r].now
StoreConfig(r) ==
    /\ build[r].at = "store"
    /\ configCache' = [at |-> StampAt(r), params |-> build[r].params, assets |-> build[r].assets]
    /\ lastKnownGood' = configCache'
    /\ build' = [build EXCEPT ![r] = Free]
    /\ UNCHANGED <<adminVars, replaced, clock>>

\* The read failed: the last good configuration if it is young enough, else the
\* built-in defaults, and nothing is stored.
ServeFallback(r) ==
    /\ build[r].at \in {"read", "assets"}
    /\ build' = [build EXCEPT ![r] = Free]
    /\ UNCHANGED <<adminVars, replaced, configCache, lastKnownGood, clock>>
FallbackServable(now) == lastKnownGood # NoEntry /\ now - lastKnownGood.at <= FallbackAge

Tick ==
    /\ clock < MaxClock /\ clock' = clock + 1
    /\ UNCHANGED <<adminVars, configVars>>

AdminNext ==
    \/ \E a \in Actions : RecordIntent(a) \/ BuildXdr(a)
    \/ \E s \in Submits : MarkSent(s) \/ \E a \in Actions, t \in Txs : ReadPending(s, a, t)
    \/ \E t \in Txs, ok \in BOOLEAN : Execute(t, ok)
    \/ RunActionWatcher
    \/ \E r \in Readers : StartBuild(r) \/ ReadParameters(r) \/ ReadAssets(r) \/ StoreConfig(r) \/ ServeFallback(r)
    \/ Tick

AdminSpec == AdminInit /\ [][AdminNext]_adminAll

----------------------------------------------------------------------------
(* Each part of what getConfig answers was the contract's within the cache     *)
(* time, or within the fallback time when the chain cannot be read, even when  *)
(* an invalidation or a change falls into a build under way.                   *)
LiveSince(e, t) == \A v \in {e.params, e.assets} : v = live \/ replaced[v] >= t
ServedConfigIsRecent ==
    /\ (configCache # NoEntry /\ Expiry(configCache) > clock)
           => LiveSince(configCache, clock - CacheTtl + 1)
    /\ \A r \in Readers : (build[r].at \in {"read", "assets"} /\ FallbackServable(build[r].now))
           => LiveSince(lastKnownGood, build[r].now - FallbackAge)

(* An action whose transaction has an outcome leaves SENT, unless another      *)
(* submission puts a new hash in its place (runWatcher).                    *)
Sent(a, t) == action[a].status = "SENT" /\ action[a].tx = t
ActionsResolve ==
    \A a \in Actions, t \in Txs : (Sent(a, t) /\ outcome[t] # "NOT_FOUND") ~> ~Sent(a, t)
=============================================================================
