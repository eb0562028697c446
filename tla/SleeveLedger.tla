---------------------------- MODULE SleeveLedger ----------------------------
(***************************************************************************)
(* The rows of one stack and its sleeves in Postgres, and the handlers     *)
(* that read and write them: siyana-api (perceive, remember, sync,         *)
(* decommission), needlecast-router-svc and bandwidth-faucet.  A statement *)
(* is atomic; nothing holds a lock between two of them.  So a call is a    *)
(* sequence of steps, one for each statement or request it awaits, over    *)
(* the copies of the rows it read; calls interleave between the steps.     *)
(*                                                                         *)
(* A statement that fails has no effect.                                   *)
(*                                                                         *)
(* Compute is counted in halves, the price of a perception.  The memory    *)
(* and residue balances, drift and syncEpoch decide nothing here.  The     *)
(* history variables are not in the code.                                  *)
(***************************************************************************)
EXTENDS Integers, Sequences, FiniteSets, Functions

CONSTANTS
    Sleeves,        \* the sleeves spawned for the stack
    Calls,          \* the requests that may come in
    MaxActive,      \* how many are served at the same time; 1 is a serial service
    Initial,        \* tokens of a new sleeve
    Grant,          \* tokens of one drip
    Ops,            \* bound: the operations requested, of Operations
    MaxNodes,       \* bound: memory fragments
    MaxWindows,     \* bound: rate-limit windows that begin
    MaxErrors       \* bound: statements and requests that fail

Kinds == {"compute", "sync", "routing"}
Operations == {"perceive", "remember", "sync", "delete", "needlecast", "drip"}

ASSUME LedgerAssumption ==
    /\ Initial \in [Kinds -> Nat]
    /\ Grant \in [Kinds -> Nat]
    /\ Ops \subseteq Operations
    /\ {MaxActive, MaxNodes, MaxWindows, MaxErrors} \subseteq Nat

CastCost == 5

VARIABLES
    sleeve,         \* the Sleeve rows: alive and tokens
    episodicHead,   \* the stack's newest fragment, 0 if none
    parent,         \* the fragments in hippocampus, in the order put: each its link, 0 if none
    lastDrip,       \* the faucet's rate limit: window of the latest drip, 0 if none
    window,         \* time, in units of RATE_MS
    call,           \* call -> where it stands and what it read
    errors,         \* failures so far
    granted,        \* history: sleeve -> tokens the faucet wrote
    charged,        \* history: sleeve -> tokens the operations took
    deleted,        \* history: the sleeves that were decommissioned
    overlapped      \* history: two calls were ever under way at the same time

memory == <<episodicHead, parent>>
faucet == <<lastDrip, window>>
books == <<granted, charged>>
vars == <<sleeve, memory, faucet, call, errors, books, deleted, overlapped>>

Idle == [at |-> "idle"]
Done == [at |-> "done"]
Nothing == [k \in Kinds |-> 0]
Only(kind, n) == [Nothing EXCEPT ![kind] = n]
Plus(t, u) == [k \in Kinds |-> t[k] + u[k]]
Minus(t, u) == [k \in Kinds |-> t[k] - u[k]]

Init ==
    /\ sleeve = [s \in Sleeves |-> [alive |-> TRUE, tokens |-> Initial]]
    /\ episodicHead = 0
    /\ parent = <<>>
    /\ lastDrip = 0
    /\ window = 1
    /\ call = [p \in Calls |-> Idle]
    /\ errors = 0
    /\ granted = [s \in Sleeves |-> Nothing]
    /\ charged = [s \in Sleeves |-> Nothing]
    /\ deleted = {}
    /\ overlapped = FALSE

At(p, place) == call[p].at = place
Active == {p \in Calls : call[p] \notin {Idle, Done}}
Starts(p, locals) ==
    /\ call[p] = Idle
    /\ Cardinality(Active) < MaxActive
    /\ call' = [call EXCEPT ![p] = locals]
    /\ overlapped' = (overlapped \/ Active # {})
Becomes(p, locals) == call' = [call EXCEPT ![p] = locals] /\ UNCHANGED overlapped
Goes(p, place) == Becomes(p, [call[p] EXCEPT !.at = place])
Ends(p) == Becomes(p, Done)

\* The tokens of a row are written as a whole, from the copy the call read.
WriteTokens(s, tokens) == sleeve' = [sleeve EXCEPT ![s].tokens = tokens]
WriteAlive(s, alive) == sleeve' = [sleeve EXCEPT ![s].alive = alive]

Charge(s, cost) == charged' = [charged EXCEPT ![s] = Plus(@, cost)]

-----------------------------------------------------------------------------
(* siyana-api.                                                              *)

PerceiveRead(p, s) ==
    /\ "perceive" \in Ops
    /\ sleeve[s].tokens["compute"] >= 2
    /\ Starts(p, [at |-> "put", from |-> s, tokens |-> sleeve[s].tokens])
    /\ UNCHANGED <<sleeve, memory, faucet, errors, books, deleted>>

\* The stack is read; its head becomes the link of the fragment put in hippocampus.
PerceivePut(p) ==
    /\ At(p, "put")
    /\ Len(parent) < MaxNodes
    /\ parent' = Append(parent, episodicHead)
    /\ Becomes(p, [at |-> "perceived", cid |-> Len(parent'), from |-> call[p].from, tokens |-> call[p].tokens])
    /\ UNCHANGED <<sleeve, episodicHead, faucet, errors, books, deleted>>

\* One transaction over the stack and the sleeve.
PerceiveWrite(p) ==
    /\ At(p, "perceived")
    /\ episodicHead' = call[p].cid
    /\ WriteTokens(call[p].from, Minus(call[p].tokens, Only("compute", 1)))
    /\ Charge(call[p].from, Only("compute", 1))
    /\ Ends(p)
    /\ UNCHANGED <<parent, faucet, errors, granted, deleted>>

RememberPut(p) ==
    /\ "remember" \in Ops
    /\ Len(parent) < MaxNodes
    /\ parent' = Append(parent, episodicHead)
    /\ Starts(p, [at |-> "remembered", cid |-> Len(parent')])
    /\ UNCHANGED <<sleeve, episodicHead, faucet, errors, books, deleted>>

\* Mutated form of RememberWrite: the head stays at the fragment's link.
RememberWriteForgets(p) ==
    /\ At(p, "remembered")
    /\ episodicHead' = parent[call[p].cid]
    /\ Ends(p)
    /\ UNCHANGED <<sleeve, parent, faucet, errors, books, deleted>>

RememberWrite(p) ==
    /\ At(p, "remembered")
    /\ episodicHead' = call[p].cid
    /\ Ends(p)
    /\ UNCHANGED <<sleeve, parent, faucet, errors, books, deleted>>

SyncRead(p, s) ==
    /\ "sync" \in Ops
    /\ sleeve[s].tokens["sync"] >= 1
    /\ Starts(p, [at |-> "synced", from |-> s, tokens |-> sleeve[s].tokens])
    /\ UNCHANGED <<sleeve, memory, faucet, errors, books, deleted>>

SyncWrite(p) ==
    /\ At(p, "synced")
    /\ WriteTokens(call[p].from, Minus(call[p].tokens, Only("sync", 1)))
    /\ Charge(call[p].from, Only("sync", 1))
    /\ Ends(p)
    /\ UNCHANGED <<memory, faucet, errors, granted, deleted>>

\* DELETE decommissions the sleeve in one statement.
Delete(s) ==
    /\ "delete" \in Ops
    /\ WriteAlive(s, FALSE)
    /\ deleted' = deleted \cup {s}
    /\ UNCHANGED <<memory, faucet, call, errors, books, overlapped>>

-----------------------------------------------------------------------------
(* needlecast-router-svc: the saga.                                         *)

CastRead(p, s) ==
    /\ "needlecast" \in Ops
    /\ Starts(p, [at |-> "target", from |-> s, tokens |-> sleeve[s].tokens])
    /\ UNCHANGED <<sleeve, memory, faucet, errors, books, deleted>>

\* The target and the stack are read; a source that cannot pay gets its answer.
CastReadTarget(p, to) ==
    /\ At(p, "target")
    /\ IF call[p].tokens["routing"] < CastCost
        THEN Ends(p)
        ELSE Becomes(p, [at |-> "freeze", from |-> call[p].from, tokens |-> call[p].tokens,
                         to |-> to, ttokens |-> sleeve[to].tokens])
    /\ UNCHANGED <<sleeve, memory, faucet, errors, books, deleted>>

Freeze(p) ==
    /\ At(p, "freeze")
    /\ WriteAlive(call[p].from, FALSE)
    /\ Goes(p, "route")
    /\ UNCHANGED <<memory, faucet, errors, books, deleted>>

\* Recall and pin read the rows no more; needlecast.route is published.
Route(p) ==
    /\ At(p, "route")
    /\ Goes(p, "reconstruct")
    /\ UNCHANGED <<sleeve, memory, faucet, errors, books, deleted>>

\* Mutated form of Reconstruct: the target is credited the cost as a receipt.
ReconstructWithReceipt(p) ==
    /\ At(p, "reconstruct")
    /\ WriteTokens(call[p].to, Plus(call[p].ttokens, Only("routing", CastCost)))
    /\ Goes(p, "settle")
    /\ UNCHANGED <<memory, faucet, errors, books, deleted>>

Reconstruct(p) ==
    /\ At(p, "reconstruct")
    /\ WriteTokens(call[p].to, call[p].ttokens)
    /\ Goes(p, "settle")
    /\ UNCHANGED <<memory, faucet, errors, books, deleted>>

Settle(p) ==
    /\ At(p, "settle")
    /\ WriteTokens(call[p].from, Minus(call[p].tokens, Only("routing", CastCost)))
    /\ Charge(call[p].from, Only("routing", CastCost))
    /\ Goes(p, "unfreeze")
    /\ UNCHANGED <<memory, faucet, errors, granted, deleted>>

Unfreeze(p) ==
    /\ At(p, "unfreeze")
    /\ WriteAlive(call[p].from, TRUE)
    /\ Ends(p)
    /\ UNCHANGED <<memory, faucet, errors, books, deleted>>

\* Mutated form of Rollback: nothing is undone.
RollbackNothing(p) ==
    /\ At(p, "rollback")
    /\ Ends(p)
    /\ UNCHANGED <<sleeve, memory, faucet, errors, books, deleted>>

\* Mutated form of Rollback: the cost is refunded, debited or not.
RollbackRefunds(p) ==
    /\ At(p, "rollback")
    /\ Ends(p)
    /\ sleeve' = [sleeve EXCEPT ![call[p].from] =
                    [alive |-> TRUE, tokens |-> Plus(@.tokens, Only("routing", CastCost))]]
    /\ UNCHANGED <<memory, faucet, errors, books, deleted>>

\* The undo list holds one entry, the unfreezing; its failure is swallowed.
Rollback(p) ==
    /\ At(p, "rollback")
    /\ Ends(p)
    /\ \/ WriteAlive(call[p].from, TRUE) /\ UNCHANGED errors
       \/ errors < MaxErrors /\ errors' = errors + 1 /\ UNCHANGED sleeve
    /\ UNCHANGED <<memory, faucet, books, deleted>>

-----------------------------------------------------------------------------
(* bandwidth-faucet.                                                        *)

DripRead(p) ==
    /\ "drip" \in Ops
    /\ lastDrip < window
    /\ LET alive == {s \in Sleeves : sleeve[s].alive} IN
        /\ alive # {}
        /\ Starts(p, [at |-> "drip", now |-> window, left |-> [s \in alive |-> sleeve[s].tokens]])
    /\ UNCHANGED <<sleeve, memory, faucet, errors, books, deleted>>

\* One turn of the loop over the rows read at the start.
DripWrite(p) ==
    /\ At(p, "drip")
    /\ \E s \in DOMAIN call[p].left :
        /\ WriteTokens(s, Plus(call[p].left[s], Grant))
        /\ granted' = [granted EXCEPT ![s] = Plus(@, Grant)]
        /\ Becomes(p, [call[p] EXCEPT !.left = Restrict(@, DOMAIN @ \ {s})])
    /\ UNCHANGED <<memory, faucet, errors, charged, deleted>>

DripDone(p) ==
    /\ At(p, "drip")
    /\ call[p].left = <<>>
    /\ lastDrip' = call[p].now
    /\ Ends(p)
    /\ UNCHANGED <<sleeve, memory, window, errors, books, deleted>>

\* RATE_MS passes.
NewWindow ==
    /\ window < MaxWindows
    /\ window' = window + 1
    /\ UNCHANGED <<sleeve, memory, lastDrip, call, errors, books, deleted, overlapped>>

-----------------------------------------------------------------------------
InSaga == {"freeze", "route", "reconstruct", "settle", "unfreeze"}

\* What a call awaits fails.  The saga enters its catch block once it has frozen the
\* source, and answers the error at once before; other calls answer the error.
Throw(p) ==
    /\ p \in Active
    /\ ~At(p, "rollback")
    /\ errors < MaxErrors
    /\ errors' = errors + 1
    /\ IF call[p].at \in InSaga \ {"freeze"} THEN Goes(p, "rollback") ELSE Ends(p)
    /\ UNCHANGED <<sleeve, memory, faucet, books, deleted>>

Next ==
    \/ \E p \in Calls :
        \/ \E s \in Sleeves : PerceiveRead(p, s) \/ SyncRead(p, s) \/ CastRead(p, s) \/ CastReadTarget(p, s)
        \/ PerceivePut(p) \/ PerceiveWrite(p) \/ RememberPut(p) \/ RememberWrite(p) \/ SyncWrite(p)
        \/ Freeze(p) \/ Route(p) \/ Reconstruct(p) \/ Settle(p) \/ Unfreeze(p) \/ Rollback(p)
        \/ DripRead(p) \/ DripWrite(p) \/ DripDone(p)
        \/ Throw(p)
    \/ \E s \in Sleeves : Delete(s)
    \/ NewWindow

Spec == Init /\ [][Next]_vars

-----------------------------------------------------------------------------
\* The rows have their types; in particular no token balance is ever below zero,
\* whatever stale copies are written, because each write starts from a copy that
\* passed its own guard.
TypeOK ==
    /\ sleeve \in [Sleeves -> [alive : BOOLEAN, tokens : [Kinds -> Nat]]]
    /\ episodicHead \in {0} \cup DOMAIN parent
    /\ \A n \in DOMAIN parent : parent[n] < n
    /\ lastDrip \in 0 .. window

\* However calls interleave, overwrite each other and fail, no sleeve holds more than
\* it started with and was granted, and none goes below zero: a stale write may refund
\* a charge, never create.
NothingFromNowhere ==
    /\ TypeOK
    /\ \A s \in Sleeves, k \in Kinds : sleeve[s].tokens[k] <= Initial[k] + granted[s][k]

\* A sleeve is not alive only where it was decommissioned, inside a needlecast that
\* will release it, or where a needlecast failed and the undo failed as well.
FrozenOnlyInSaga ==
    \A s \in Sleeves : ~sleeve[s].alive =>
        \/ s \in deleted
        \/ errors > 1
        \/ \E p \in Calls : call[p].at \in InSaga \cup {"rollback"} /\ call[p].from = s

\* Served one at a time, and whatever fails: a sleeve's balance is what it got less
\* what it was charged; and it gets one drip for each window, and one more for each drip
\* that failed half way, as the rate limit is set at the end.
LedgerBalances ==
    ~overlapped => \A s \in Sleeves :
        /\ sleeve[s].tokens = Minus(Plus(Initial, granted[s]), charged[s])
        /\ \A k \in Kinds : granted[s][k] <= (window + errors) * Grant[k]

\* The fragments the head leads to.
Reachable ==
    LET past[n \in DOMAIN parent] == {n} \cup (IF parent[n] = 0 THEN {} ELSE past[parent[n]])
    IN IF episodicHead = 0 THEN {} ELSE past[episodicHead]

\* Served one at a time: every fragment that was put is reachable from the head, unless
\* its writing is still on the way or failed after the put.
HeadReachesAll ==
    ~overlapped => \A n \in DOMAIN parent :
        \/ n \in Reachable
        \/ \E p \in Calls : call[p].at \in {"perceived", "remembered"} /\ call[p].cid = n
        \/ errors > 0

-----------------------------------------------------------------------------
(* What the repository says of the handlers, and the code does not do.      *)

\* docs/needlecasting_spec.md:31 "Two needlecasts targeting the same source sleeve are
\* serialized at the Postgres row level": as each checks that the source can pay, no
\* source is charged for more needlecasts than it had the tokens for.
CastsAreCovered ==
    \A s \in Sleeves : charged[s]["routing"] <= Initial["routing"] + granted[s]["routing"]
=============================================================================
