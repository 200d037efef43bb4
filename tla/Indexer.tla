------------------------------ MODULE Indexer -------------------------------
(***************************************************************************)
(* The backend's event indexer: veilend-backend/src/indexer.  A poll loop  *)
(* and up to two replays run in one process and share the database and two *)
(* flags.  Each worker walks a range of ledgers chunk by chunk: it fetches *)
(* the pages of the chunk, then writes rows and checkpoint in one READ     *)
(* COMMITTED transaction.  The transaction is two steps, the duplicate     *)
(* checks and the commit, so that two of them may overlap; when both       *)
(* insert the same history row, the unique index aborts the second one.    *)
(* Progress reporting (ReplayState, counters, status) is left out.         *)
(***************************************************************************)
EXTENDS Integers, FiniteSets, FiniteSetsExt

CONSTANTS Events,        \* contract events, numbered as the RPC returns them
          Ledger,        \* Events -> the ledger that emitted it
          Kind,          \* Events -> EventKinds
          Amount,        \* Events -> amount
          MaxLedger,     \* bound on the chain
          StartLedger,   \* STELLAR_INDEXER_START_LEDGER
          Retention,     \* ledgers the RPC keeps
          DefaultChunk,  \* DEFAULT_CHUNK_SIZE
          Replays,       \* what replays ask for: from, to (0: none) and chunk
          PageSize,      \* events per page (100)
          MaxReplays,    \* bound on replays asked for
          MaxCrashes     \* bound on restarts

Workers == {"poll", "replay", "forced"}
EventKinds == {"deposit", "withdraw", "borrow", "repay", "interest", "reserve",
               "params", "configured", "other"}
TxKinds == {"deposit", "withdraw", "borrow", "repay"}

ASSUME IndexerAssumption ==
  /\ Events \subseteq Nat /\ IsFiniteSet(Events)
  /\ MaxLedger \in Nat /\ StartLedger \in 1 .. MaxLedger
  /\ Ledger \in [Events -> StartLedger .. MaxLedger]
  /\ \A d, e \in Events : d < e => Ledger[d] <= Ledger[e]
  /\ Kind \in [Events -> EventKinds] /\ Amount \in [Events -> Nat]
  /\ DefaultChunk \in Nat \ {0}
  /\ Replays \subseteq [from : Nat, to : Nat, chunk : Nat \ {0}]
  /\ PageSize \in Nat \ {0} /\ Retention \in Nat \ {0}

VARIABLES
  latest,        \* the chain's last ledger
  checkpoint,    \* IndexerCheckpoint row; 0 when there is none
  history,       \* events with a TransactionHistory row
  dedup,         \* events with an unexpired IndexerEventDedup row
  position,      \* Position row of the user: deposited and borrowed
  interestState, \* AssetInterestState row of the asset: supplied and borrowed
  params,        \* whether the AssetInterestParams row exists
  isProcessing, replayRunning,
  worker,        \* the poll loop, the controller's replay, the forced one
  replays, crashes,
  exposed        \* history variable: a cause of loss has occurred

db == <<checkpoint, history, dedup, position, interestState, params>>
vars == <<latest, db, isProcessing, replayRunning, worker, replays, crashes, exposed>>

Off == [pc |-> "off"]
NoInterest == [row |-> FALSE, supplied |-> 0, borrowed |-> 0]

IndexerInit ==
  /\ latest = StartLedger
  /\ checkpoint = 0 /\ history = {}
  /\ dedup = {}
  /\ position = [deposited |-> 0, borrowed |-> 0]
  /\ interestState = NoInterest /\ params = FALSE
  /\ isProcessing = FALSE /\ replayRunning = FALSE
  /\ worker = [w \in Workers |-> Off]
  /\ replays = 0 /\ crashes = 0
  /\ exposed = FALSE

Become(w, state) == worker' = [worker EXCEPT ![w] = state]

-----------------------------------------------------------------------------
(* Starting a worker.                                                      *)

\* runIndexer: nothing while the flag is up; else raise it.  Pruning the
\* lookaside rows that have expired changes nothing anybody can see.
PollStart ==
  /\ worker["poll"] = Off /\ ~isProcessing
  /\ isProcessing' = TRUE
  /\ Become("poll", [pc |-> "read"])
  /\ UNCHANGED <<latest, db, replayRunning, replays, crashes, exposed>>

\* The flags a worker clears in its finally blocks.
Stop(w) ==
  /\ Become(w, Off)
  /\ isProcessing' = FALSE
  /\ replayRunning' = IF w = "replay" THEN FALSE ELSE replayRunning

OldestLedger == IF latest > Retention THEN latest - Retention + 1 ELSE 1

\* Checkpoint, retention window and chain head decide the range to index.
Indexed == IF checkpoint = 0 THEN StartLedger - 1 ELSE checkpoint
LastLedger == IF Indexed + 1 < OldestLedger THEN OldestLedger - 1 ELSE Indexed

PollRead ==
  /\ worker["poll"].pc = "read"
  /\ IF latest > LastLedger
       THEN /\ Become("poll", [pc |-> "fetch", next |-> LastLedger + 1, end |-> latest,
                               chunk |-> DefaultChunk])
            /\ UNCHANGED <<isProcessing, replayRunning>>
       ELSE Stop("poll")
  /\ exposed' = (exposed \/ LastLedger > Indexed)
  /\ UNCHANGED <<latest, db, replays, crashes>>

\* POST indexer/replay.  The two checks and the flag are one synchronous step.
TriggerReplay(full, ask) ==
  /\ ~isProcessing /\ ~replayRunning /\ worker["replay"] = Off
  /\ replays < MaxReplays
  /\ replays' = replays + 1
  /\ replayRunning' = TRUE
  /\ Become("replay", [pc |-> IF full THEN "wipe" ELSE "start", from |-> ask.from, to |-> ask.to,
                       chunk |-> ask.chunk])
  /\ UNCHANGED <<latest, db, isProcessing, crashes, exposed>>

\* resetDatabase('full'): one transaction over everything the indexer owns.
ResetDatabase ==
  /\ checkpoint' = 0 /\ history' = {}
  /\ dedup' = {}
  /\ position' = [deposited |-> 0, borrowed |-> 0]
  /\ interestState' = NoInterest /\ params' = FALSE

\* forceReplay: wipe, then start a replay of its own without waiting for it;
\* the controller's replay goes on as well.
ForceReplay ==
  /\ worker["replay"].pc = "wipe" /\ worker["forced"] = Off
  /\ ResetDatabase
  /\ worker' = [worker EXCEPT !["replay"].pc = "start",
                 !["forced"] = [pc |-> "start", from |-> StartLedger, to |-> 0,
                                chunk |-> DefaultChunk]]
  /\ exposed' = (exposed \/ worker["poll"].pc \notin {"off", "read"})
  /\ UNCHANGED <<latest, isProcessing, replayRunning, replays, crashes>>

\* replay: reads the head (0 when the RPC fails), fixes the range and raises
\* the flag without looking at it.
StartReplay(w, head) ==
  LET from == worker[w].from
      to == IF worker[w].to # 0 THEN worker[w].to ELSE IF head > 0 THEN head ELSE from
  IN
  /\ worker[w].pc = "start"
  /\ IF to < from
       THEN /\ Become(w, Off)
            /\ replayRunning' = IF w = "replay" THEN FALSE ELSE replayRunning
            /\ UNCHANGED <<isProcessing, exposed>>
       ELSE /\ Become(w, [pc |-> "fetch", next |-> from, end |-> to, chunk |-> worker[w].chunk])
            /\ isProcessing' = TRUE
            /\ exposed' = (exposed \/ from > Indexed + 1 \/ to > latest)
            /\ UNCHANGED replayRunning
  /\ UNCHANGED <<latest, db, replays, crashes>>

-----------------------------------------------------------------------------
(* One chunk.                                                              *)

Min2(a, b) == IF a <= b THEN a ELSE b
\* Mutant: the last chunk is not cut at the end of the range.
ChunkEndUncut(w) == worker[w].next + worker[w].chunk - 1

ChunkEnd(w) == Min2(worker[w].next + worker[w].chunk - 1, worker[w].end)

\* The events of a chunk that exist when its pages are read.
ChunkEvents(w) == {e \in Events : Ledger[e] \in worker[w].next .. Min2(ChunkEnd(w), latest)}

(* getEvents: the first page is of the chunk.  The pages after a full one      *)
(* follow its cursor, which carries no last ledger.                            *)
Listed(w) ==
  IF Cardinality(ChunkEvents(w)) < PageSize THEN ChunkEvents(w)
  ELSE {e \in Events : Ledger[e] \in worker[w].next .. latest}

\* The worker with its chunk in hand.
Holding(w, pc, batch) == [pc |-> pc, next |-> worker[w].next, end |-> worker[w].end,
                          chunk |-> worker[w].chunk, batch |-> batch]

FirstOf(S, n) == {e \in S : Cardinality({d \in S : d < e}) < n}

(* parseEventToItem drops what it has no handler for.  asset_configured it   *)
(* applies while parsing, but the contract publishes its data as a map where *)
(* a boolean is stored: the write fails and the event is dropped.            *)
Parsed(S) == {e \in S : Kind[e] \notin {"configured", "other"}}

\* fetchAndParseEvents: a page that fails ends the loop, and what was read
\* before it counts as the chunk.
FetchAndParse(w, pages) ==
  LET read == FirstOf(Listed(w), pages * PageSize) IN
  /\ worker[w].pc = "fetch"
  /\ Become(w, Holding(w, "check", Parsed(read)))
  /\ exposed' = (exposed \/ ~(ChunkEvents(w) \subseteq read))
  /\ UNCHANGED <<latest, db, isProcessing, replayRunning, replays, crashes>>

\* isEventDuplicate.
IsDuplicate(e) == e \in dedup \/ e \in history

\* The transaction's duplicate checks.
CheckDuplicates(w) ==
  /\ worker[w].pc = "check"
  /\ Become(w, Holding(w, "commit", {e \in worker[w].batch : ~IsDuplicate(e)}))
  /\ UNCHANGED <<latest, db, isProcessing, replayRunning, replays, crashes, exposed>>

Clamp(n) == IF n < 0 THEN 0 ELSE n

DepositedDelta(e) == CASE Kind[e] = "deposit" -> Amount[e]
                       [] Kind[e] = "withdraw" -> -Amount[e]
                       [] OTHER -> 0
BorrowedDelta(e) == CASE Kind[e] = "borrow" -> Amount[e]
                      [] Kind[e] = "repay" -> -Amount[e]
                      [] OTHER -> 0

\* applyPositionDelta: the position is clamped at zero.
ApplyPositionDelta(pos, e) ==
  [deposited |-> Clamp(pos.deposited + DepositedDelta(e)),
   borrowed |-> Clamp(pos.borrowed + BorrowedDelta(e))]

\* The upsert of AssetInterestState that follows: an insert takes the default
\* totals and not the amounts, an update adds them.
ApplyTotals(st, e) ==
  IF Kind[e] \notin TxKinds THEN st
  ELSE IF st.row THEN [st EXCEPT !.supplied = @ + DepositedDelta(e),
                                 !.borrowed = @ + BorrowedDelta(e)]
  ELSE [st EXCEPT !.row = TRUE]

(* The other events are read as arrays with the asset in the fourth topic.   *)
(* The contract publishes maps, and its asset in the third topic where there *)
(* is no admin: interest_params_updated stores zeros, asset_reserve_updated  *)
(* goes to an asset without an address, and interest_accrued casts the asset *)
(* to a number, which fails.                                                 *)
Unstorable(e) == Kind[e] = "interest"

\* Mutant: the history table has no unique index.
NeverConflicts(w) == FALSE

\* Two transactions that both insert the history row of an event: the second
\* is aborted by the unique index, with everything it wrote.  So is one with an
\* event that cannot be stored.
Conflict(w) == \E e \in worker[w].batch : (Kind[e] \in TxKinds /\ e \in history) \/ Unstorable(e)

\* The events of a batch are applied one by one, as the RPC returned them.
InOrder(apply(_, _), state, batch) ==
  MapThenFoldSet(LAMBDA e, reached : apply(reached, e), state, LAMBDA e : e, Max, batch)

\* processChunk and processEventSafe, and the next chunk or the end.
CommitChunk(w) ==
  LET batch == worker[w].batch IN
  /\ worker[w].pc = "commit" /\ ~Conflict(w)
  /\ history' = history \cup {e \in batch : Kind[e] \in TxKinds}
  /\ position' = InOrder(ApplyPositionDelta, position, batch)
  /\ interestState' = InOrder(ApplyTotals, interestState, batch)
  /\ params' = (params \/ \E e \in batch : Kind[e] = "params")
  /\ dedup' = dedup \cup batch
  /\ checkpoint' = ChunkEnd(w)
  /\ IF ChunkEnd(w) < worker[w].end
       THEN /\ Become(w, [pc |-> "fetch", next |-> ChunkEnd(w) + 1, end |-> worker[w].end,
                          chunk |-> worker[w].chunk])
            /\ UNCHANGED <<isProcessing, replayRunning>>
       ELSE Stop(w)
  /\ UNCHANGED <<latest, replays, crashes, exposed>>

\* Mutant: the flag is cleared on success only.
RunFailsNoFinally(w) ==
  /\ \/ worker[w].pc = "commit" /\ Conflict(w)
     \/ worker[w].pc = "read"
     \/ worker[w].pc = "wipe"
  /\ Become(w, Off)
  /\ replayRunning' = IF w = "replay" THEN FALSE ELSE replayRunning
  /\ UNCHANGED <<isProcessing, latest, db, replays, crashes, exposed>>

\* An aborted transaction or a failed call: the error ends the run, and the
\* finally blocks clear the flags.
RunFails(w) ==
  /\ \/ worker[w].pc = "commit" /\ Conflict(w)
     \/ worker[w].pc = "read"
     \/ worker[w].pc = "wipe"
  /\ IF worker[w].pc = "wipe"
       THEN Become(w, Off) /\ replayRunning' = FALSE /\ UNCHANGED isProcessing
       ELSE Stop(w)
  /\ UNCHANGED <<latest, db, replays, crashes, exposed>>

-----------------------------------------------------------------------------
(* The environment.                                                        *)

CloseLedger ==
  /\ latest < MaxLedger
  /\ latest' = latest + 1
  /\ UNCHANGED <<db, isProcessing, replayRunning, worker, replays, crashes, exposed>>

\* An hour passes: the lookaside rows written so far no longer count.
ExpireDedup ==
  /\ dedup # {} /\ dedup' = {}
  /\ UNCHANGED <<latest, checkpoint, history, position, interestState, params,
                 isProcessing, replayRunning, worker, replays, crashes, exposed>>

Crash ==
  /\ crashes < MaxCrashes
  /\ crashes' = crashes + 1
  /\ worker' = [w \in Workers |-> Off]
  /\ isProcessing' = FALSE /\ replayRunning' = FALSE
  /\ UNCHANGED <<latest, db, replays, exposed>>

Step(w) ==
  \/ \E pages \in 0 .. Cardinality(Events) : FetchAndParse(w, pages)
  \/ CheckDuplicates(w) \/ CommitChunk(w) \/ RunFails(w)

ReplayStep(w) == \E head \in {0, latest} : StartReplay(w, head)

IndexerNext ==
  \/ PollStart \/ PollRead
  \/ \E full \in BOOLEAN, ask \in Replays : TriggerReplay(full, ask)
  \/ ForceReplay
  \/ \E w \in {"replay", "forced"} : ReplayStep(w)
  \/ \E w \in Workers : Step(w)
  \/ CloseLedger \/ ExpireDedup \/ Crash

(* The causes of loss that set exposed, each a path of the code: a page    *)
(* that failed, a checkpoint moved to the RPC's oldest ledger, a replay    *)
(* that starts past the checkpoint or ends past the head, and a wipe under *)
(* a poll that already fixed its range.                                    *)

\* Workers that have started are carried on, and a poll that keeps being
\* started is not refused by the RPC for ever.
IndexerFairness ==
  /\ WF_vars(PollStart) /\ SF_vars(PollRead) /\ WF_vars(ForceReplay)
  /\ \A w \in Workers : WF_vars(Step(w))
  /\ \A w \in {"replay", "forced"} : WF_vars(ReplayStep(w))

IndexerSpec == IndexerInit /\ [][IndexerNext]_vars /\ IndexerFairness

-----------------------------------------------------------------------------
(* Properties.                                                             *)

TxEvents(n) == {e \in Events : Kind[e] \in TxKinds /\ Ledger[e] <= n}
Net(delta(_), S) == SumFunctionOnSet([e \in Events |-> delta(e)], S)

\* Up to the checkpoint nothing is missing, whatever polls, replays, aborts
\* and restarts did, unless one of the named causes of loss occurred.
NoSilentGap == exposed \/ TxEvents(Min2(checkpoint, latest)) \subseteq history

\* A position is what its history rows add up to: no event is applied twice
\* or without its row; only after a loss may clamping leave it above.
PositionMatchesHistory ==
  /\ position.deposited >= Net(DepositedDelta, history)
  /\ position.borrowed >= Net(BorrowedDelta, history)
  /\ exposed \/ /\ position.deposited = Net(DepositedDelta, history)
                /\ position.borrowed = Net(BorrowedDelta, history)

\* The indexer reaches the head of the chain and stays there.
CatchesUp == <>[](checkpoint >= latest)
=============================================================================
