----------------------------- MODULE RpcBreaker -----------------------------
(* Soroban RPC and Horizon as the backend reaches them: the operations of     *)
(* soroban-rpc, horizon and stellar-account.service.ts, and under them the    *)
(* circuit breaker of retry-with-fallback.ts, one per service: providers in   *)
(* order of preference, calls that keep one across an await, and the          *)
(* connection check.                                                          *)
EXTENDS Integers, FiniteSets

CONSTANTS
    Services,        \* "soroban" and "horizon"
    NProviders,      \* NProviders[s]: the urls of s, in order
    RpcCalls,        \* slots for operations in flight
    MaxAttempts,     \* attempts of a read
    Threshold,       \* CIRCUIT_OPEN_FAILURES
    Loads            \* what a behaviour may meet: the operations other than
                     \* reads, how many at once, how often a provider goes down

ASSUME BreakerAssumption ==
    /\ NProviders \in [Services -> Nat \ {0}]
    /\ MaxAttempts \in Nat \ {0} /\ Threshold \in Nat \ {0} /\ RpcCalls \subseteq Nat

VARIABLES
    provider,        \* per service and url: state, failureCount up to
                     \* Threshold, cooling: the time is before nextProbeAt
    call,            \* per slot: the operation, the service and the attempt it
                     \* is at, the provider it waits for (0: none yet)
    up,              \* <<service, url>> that answer
    load             \* the load, with the outages that are left

breakerVars == <<provider, call, up, load>>

Providers(s) == 1 .. NProviders[s]
Urls == UNION {{s} \X Providers(s) : s \in Services}
NoCall == [op |-> "none"]

BreakerInit ==
    /\ provider = [s \in Services |->
                     [p \in Providers(s) |-> [state |-> "closed", failures |-> 0, cooling |-> FALSE]]]
    /\ call = [c \in RpcCalls |-> NoCall]
    /\ up = Urls
    /\ load \in Loads

----------------------------------------------------------------------------
\* Mutant: a half-open provider waits for the probe under way.
AvailableOneProbe(s, p) ==
    provider[s][p].state = "closed" \/ (provider[s][p].state = "open" /\ ~provider[s][p].cooling)
Available(s, p) ==
    \/ provider[s][p].state \in {"closed", "half-open"}
    \/ provider[s][p].state = "open" /\ ~provider[s][p].cooling

(* getNextAvailableProvider: the first one available; an open one whose        *)
(* cooldown is over becomes half-open.  A half-open one goes to every caller.  *)
Chosen(s, p) == Available(s, p) /\ \A q \in 1 .. (p - 1) : ~Available(s, q)
HandOut(s, p) == [provider EXCEPT ![s][p].state = IF @ = "open" THEN "half-open" ELSE @]

(* What an operation does when one of its calls has ended: the SAC check asks  *)
(* for symbol, name and decimals one after the other and gives up at the first *)
(* failure, an account is looked up on Soroban after Horizon failed.           *)
Ended(q, ok) ==
    CASE q.op = "validate" /\ ok /\ q.left > 1      -> [q EXCEPT !.left = @ - 1, !.attempt = 0, !.p = 0]
      [] q.op = "lookup" /\ ~ok /\ q.s = "horizon"  -> [q EXCEPT !.s = "soroban", !.attempt = 0, !.p = 0]
      [] OTHER                                      -> NoCall

(* execute: no provider available is an error, at the first attempt or later.  *)
Attempt(c, q) ==
    \/ \E p \in Providers(q.s) :
         /\ Chosen(q.s, p)
         /\ provider' = HandOut(q.s, p)
         /\ call' = [call EXCEPT ![c] = [q EXCEPT !.attempt = @ + 1, !.p = p, !.sent = <<q.s, p>> \in up]]
    \/ /\ \A p \in Providers(q.s) : ~Available(q.s, p)
       /\ call' = [call EXCEPT ![c] = Ended(q, FALSE)] /\ UNCHANGED provider

Operation(op, s, left) == [op |-> op, s |-> s, left |-> left, attempt |-> 0, p |-> 0, sent |-> FALSE]
Begin(c, q) ==
    /\ c <= load.atOnce /\ call[c] = NoCall /\ \A d \in RpcCalls : d < c => call[d] # NoCall
    /\ q.op \in load.ops \cup {"read"}
    /\ Attempt(c, q)
    /\ UNCHANGED <<up, load>>

(* The reads of each service (a simulation is one too), the one write, the     *)
(* check of an asset contract and the lookup of an account.                    *)
ReadSoroban(c) == Begin(c, Operation("read", "soroban", 1))
ReadHorizon(c) == Begin(c, Operation("read", "horizon", 1))
SendTransaction(c) == Begin(c, Operation("write", "soroban", 1))
ValidateStellarAssetContract(c) == Begin(c, Operation("validate", "soroban", 3))
LookupAccount(c) == Begin(c, Operation("lookup", "horizon", 1))

Waiting(c) == call[c] # NoCall /\ call[c].p # 0
Asked(c) == <<call[c].s, call[c].p>>
Answers(c) == call[c].sent \/ Asked(c) \in up
Refuses(c) == ~call[c].sent \/ Asked(c) \notin up

(* The outcome is that of the provider when the call was made or when it ends. *)
(* An answer closes the circuit; a client error (4xx but not 429) leaves it.   *)
Succeed(c) ==
    /\ Waiting(c) /\ Answers(c)
    /\ provider' = [provider EXCEPT ![call[c].s][call[c].p] =
                      [state |-> "closed", failures |-> 0, cooling |-> FALSE]]
    /\ call' = [call EXCEPT ![c] = Ended(@, TRUE)]
    /\ UNCHANGED <<up, load>>

ClientError(c) ==
    /\ Waiting(c) /\ Answers(c)
    /\ call' = [call EXCEPT ![c] = Ended(@, FALSE)]
    /\ UNCHANGED <<provider, up, load>>

(* A server error is counted; a probe or the last tolerated failure opens the  *)
(* circuit and starts its cooldown.  A read with attempts left goes on after a *)
(* backoff, a write never does.                                                *)
Retries(c) == call[c].op # "write" /\ call[c].attempt < MaxAttempts
Failed(b) ==
    LET n == IF b.failures < Threshold THEN b.failures + 1 ELSE b.failures
    IN  IF b.state = "half-open" \/ n >= Threshold
          THEN [state |-> "open", failures |-> n, cooling |-> TRUE]
          ELSE [b EXCEPT !.failures = n]
Fail(c) ==
    /\ Waiting(c) /\ Refuses(c)
    /\ provider' = [provider EXCEPT ![call[c].s][call[c].p] = Failed(@)]
    /\ call' = [call EXCEPT ![c] = IF Retries(c) THEN [@ EXCEPT !.p = 0] ELSE Ended(@, FALSE)]
    /\ UNCHANGED <<up, load>>

\* The next attempt of a call, or the next call of an operation.
Proceed(c) ==
    /\ call[c] # NoCall /\ call[c].p = 0
    /\ Attempt(c, call[c])
    /\ UNCHANGED <<up, load>>

(* nextProbeAt passes.                                                         *)
CoolDown(s, p) ==
    /\ provider[s][p].cooling
    /\ provider' = [provider EXCEPT ![s][p].cooling = FALSE]
    /\ UNCHANGED <<call, up, load>>

(* validateConnection asks one provider after the other and writes its state,  *)
(* leaving nextProbeAt as it was.                                              *)
ValidateConnection(s, p) ==
    /\ provider' = [provider EXCEPT ![s][p] =
                      IF <<s, p>> \in up THEN [@ EXCEPT !.state = "closed", !.failures = 0]
                                        ELSE [@ EXCEPT !.state = "open"]]
    /\ UNCHANGED <<call, up, load>>

GoDown(s, p) ==
    /\ <<s, p>> \in up /\ load.outages > 0
    /\ up' = up \ {<<s, p>>} /\ load' = [load EXCEPT !.outages = @ - 1]
    /\ UNCHANGED <<provider, call>>
ComeUp(s, p) ==
    /\ <<s, p>> \notin up /\ up' = up \cup {<<s, p>>}
    /\ UNCHANGED <<provider, call, load>>

CallStep(c) == Succeed(c) \/ ClientError(c) \/ Fail(c) \/ Proceed(c)

BreakerNext ==
    \/ \E c \in RpcCalls :
         \/ ReadSoroban(c) \/ ReadHorizon(c) \/ SendTransaction(c)
         \/ ValidateStellarAssetContract(c) \/ LookupAccount(c) \/ CallStep(c)
    \/ \E s \in Services : \E p \in Providers(s) :
         CoolDown(s, p) \/ ValidateConnection(s, p) \/ GoDown(s, p) \/ ComeUp(s, p)

----------------------------------------------------------------------------
IsHealthy(s) == \E p \in Providers(s) : provider[s][p].state # "open"

(* Once it answers for good, the preferred provider of a service is in use     *)
(* again for good and the service reports itself healthy, as long as it is     *)
(* read: whichever probe was lost, late or refused, and whatever the           *)
(* connection check wrote in between.                                          *)
PreferredRecovers ==
    \A s \in Services :
        (<>[](<<s, 1>> \in up)) => <>[](Available(s, 1) /\ IsHealthy(s))
=============================================================================
