--------------------------- MODULE CoherenceCycle ---------------------------
(***************************************************************************)
(* services/thalamus-router/src/server.ts driving the medulla daemon       *)
(* (Medulla) and the cortex contract (EpochAnchor).  The router is one     *)
(* JavaScript thread: what lies between two awaits of tick() is one step,  *)
(* and other ticks, bus deliveries and the daemon run between the steps.   *)
(* A tick is started by the interval timer, which does not wait for the    *)
(* tick before it, or by POST /v1/epoch/tick.                              *)
(*                                                                         *)
(* The three buffers travel together and are one set of events: the        *)
(* coherence tuple of a tick is the set of events under its shard roots.   *)
(* A request in flight when the router stops either was served before or   *)
(* is dropped.                                                             *)
(***************************************************************************)
EXTENDS Medulla, FiniteSets

CONSTANTS
    Events,             \* events that other services may publish
    kind,               \* the subject family of each event
    Ticks,              \* calls of tick() that may run at the same time
    Operator,           \* the account that signs commitAnchor
    MaxDeliveries,      \* bound: deliveries of one event
    MaxUnpublished,     \* bound: failures of the final publish
    MaxRouterRestarts   \* bound: restarts of the router

\* What the router subscribes to; needlecast.route is in the stream as well.
Subscribed == {"memory", "sleeve", "chain.evm"}
Kinds == Subscribed \cup {"needlecast.route"}

ASSUME CycleAssumption ==
    /\ kind \in [Events -> Kinds]
    /\ SUBSET Events \subseteq Tuples \ {ZeroTuple}
    /\ {MaxDeliveries, MaxUnpublished, MaxRouterRestarts} \subseteq Nat

VARIABLES
    buffered,           \* events in evmHashes, ipfsHashes and sleeveHashes
    deliveries,         \* event -> how often the bus handed it over
    currentEpoch,
    tick,               \* call -> where it stands and its local variables
    mined,              \* <<epoch, tuple>> of every block mined, in any life
    rows,               \* the Epoch table: epoch -> tuple, a partial function
    announced,          \* <<epoch, tuple>> of the epoch.transition events
    unpublished,        \* publishes that threw so far
    restarts,           \* restarts of the router so far
    byEpoch, head, lastMedullaHeight, bridgers  \* the contract

contractVars == <<byEpoch, head, lastMedullaHeight, bridgers>>
routerVars == <<buffered, deliveries, currentEpoch, tick, rows, announced, unpublished, restarts>>
vars == <<medullaVars, routerVars, mined, contractVars>>

Cortex == INSTANCE EpochAnchor WITH
    Accounts <- {Operator}, Deployer <- Operator, Roots <- Tuples, Fields <- {}, MaxUint <- MaxBlocks

\* A call that has not begun: its local variables hold nothing yet.
Idle == [at |-> "idle", tuple |-> {}, anchor |-> AnchorOf(Genesis(0, EmptyField)[1]), root |-> NoProof, epoch |-> 0]

\* deploy.ts never calls setBridger; here the operator has been made a bridger.
Init ==
    /\ MedullaInit
    /\ buffered = {}
    /\ deliveries = [e \in Events |-> 0]
    /\ currentEpoch = 0
    /\ tick = [p \in Ticks |-> Idle]
    /\ mined = {}
    /\ rows = <<>>
    /\ announced = {}
    /\ unpublished = 0
    /\ restarts = 0
    /\ byEpoch = [e \in Cortex!Uint |-> Cortex!NoAnchor]
    /\ head = 0
    /\ lastMedullaHeight = 0
    /\ bridgers = {Operator}

-----------------------------------------------------------------------------
(* The subscriptions.  The bus is at least once: an event may come again.   *)

Deliver(e) ==
    /\ deliveries[e] < MaxDeliveries
    /\ deliveries' = [deliveries EXCEPT ![e] = @ + 1]
    /\ buffered' = IF kind[e] \in Subscribed THEN buffered \cup {e} ELSE buffered
    /\ UNCHANGED <<medullaVars, currentEpoch, tick, mined, rows, announced, unpublished, restarts, contractVars>>

-----------------------------------------------------------------------------
(* One tick.                                                                *)

\* Call p goes on to `place`.
Goes(p, place) == tick' = [tick EXCEPT ![p].at = place]

Ends(p) == tick' = [tick EXCEPT ![p] = Idle]

\* The roots are computed from the buffers, which stay as they are.
Begin(p) ==
    /\ tick[p] = Idle
    /\ tick' = [tick EXCEPT ![p].at = "submit", ![p].tuple = buffered]
    /\ UNCHANGED <<medullaVars, buffered, deliveries, currentEpoch, mined, rows, announced, unpublished,
                   restarts, contractVars>>

\* The daemon mines the block; its answer arrives, or is lost on the way back.
Mined(p) ==
    /\ tick[p].at = "submit"
    /\ SubmitCoherenceRoot(tick[p].tuple)
    /\ mined' = mined \cup {<<Tip'.epoch, Tip'.tuple>>}
    /\ \/ tick' = [tick EXCEPT ![p].at = "answered", ![p].anchor = AnchorOf(Tip')]
       \/ Goes(p, "failed")
    /\ UNCHANGED <<buffered, deliveries, currentEpoch, rows, announced, unpublished, restarts, contractVars>>

\* The daemon exhausts its attempts, or cannot be reached.
SubmitFails(p) ==
    /\ tick[p].at = "submit"
    /\ Goes(p, "failed")
    /\ MiningFails(tick[p].tuple) \/ UNCHANGED medullaVars
    /\ UNCHANGED <<buffered, deliveries, currentEpoch, mined, rows, announced, unpublished, restarts, contractVars>>

\* Mutated form of GiveUp: a failed submission is tried again at once.
GiveUpRetries(p) ==
    /\ tick[p].at = "failed"
    /\ Goes(p, "submit")
    /\ UNCHANGED <<medullaVars, buffered, deliveries, currentEpoch, mined, rows, announced, unpublished,
                   restarts, contractVars>>

\* anchor is null: the tick only empties the buffers.
GiveUp(p) ==
    /\ tick[p].at = "failed"
    /\ Ends(p)
    /\ buffered' = {}
    /\ UNCHANGED <<medullaVars, deliveries, currentEpoch, mined, rows, announced, unpublished, restarts,
                   contractVars>>

\* Mutated form of Answered: the router counts epochs by itself.
AnsweredByCounting(p) ==
    /\ tick[p].at = "answered"
    /\ Goes(p, "prove")
    /\ currentEpoch' = currentEpoch + 1
    /\ UNCHANGED <<medullaVars, buffered, deliveries, mined, rows, announced, unpublished, restarts,
                   contractVars>>

\* The anchor's epoch becomes the router's; the proof request goes out.
Answered(p) ==
    /\ tick[p].at = "answered"
    /\ Goes(p, "prove")
    /\ currentEpoch' = tick[p].anchor.epoch
    /\ UNCHANGED <<medullaVars, buffered, deliveries, mined, rows, announced, unpublished, restarts,
                   contractVars>>

\* getsynapticproof answers, or fails and leaves the zero root.
Prove(p) ==
    /\ tick[p].at = "prove"
    /\ \E root \in {SynapticProofRoot(tick[p].anchor.blockHash), NoProof} :
            tick' = [tick EXCEPT ![p].at = "send", ![p].root = root]
    /\ UNCHANGED <<medullaVars, buffered, deliveries, currentEpoch, mined, rows, announced, unpublished,
                   restarts, contractVars>>

\* commitAnchor is signed, with the epoch the router is in by now.
Send(p) ==
    /\ tick[p].at = "send"
    /\ tick' = [tick EXCEPT ![p].at = "commit", ![p].epoch = currentEpoch]
    /\ UNCHANGED <<medullaVars, buffered, deliveries, currentEpoch, mined, rows, announced, unpublished,
                   restarts, contractVars>>

\* The transaction succeeds or reverts; a revert is logged and the tick goes on.
Commit(p) ==
    /\ tick[p].at = "commit"
    /\ Goes(p, "record")
    /\ LET t == tick[p] IN
        IF Cortex!CanCommit(Operator, t.epoch, t.anchor.height)
            THEN Cortex!CommitAnchor(Operator, t.epoch, t.tuple, t.root, t.anchor.height)
            ELSE UNCHANGED contractVars
    /\ UNCHANGED <<medullaVars, buffered, deliveries, currentEpoch, mined, rows, announced, unpublished, restarts>>

\* upsert with an empty update: the first row of an epoch stays.  Its errors are dropped.
Record(p) ==
    /\ tick[p].at = "record"
    /\ Goes(p, "publish")
    /\ \/ rows' = [n \in DOMAIN rows \cup {currentEpoch} |->
                    IF n \in DOMAIN rows THEN rows[n] ELSE tick[p].tuple]
       \/ UNCHANGED rows
    /\ UNCHANGED <<medullaVars, buffered, deliveries, currentEpoch, mined, announced, unpublished, restarts,
                   contractVars>>

Publish(p) ==
    /\ tick[p].at = "publish"
    /\ Goes(p, "clear")
    /\ announced' = announced \cup {<<currentEpoch, tick[p].tuple>>}
    /\ UNCHANGED <<medullaVars, buffered, deliveries, currentEpoch, mined, rows, unpublished, restarts, contractVars>>

\* Mutated form of PublishFails: the buffers are emptied in a `finally`.
PublishFailsClears(p) ==
    /\ tick[p].at = "publish"
    /\ unpublished < MaxUnpublished
    /\ unpublished' = unpublished + 1
    /\ Ends(p)
    /\ buffered' = {}
    /\ announced' \in {announced, announced \cup {<<currentEpoch, tick[p].tuple>>}}
    /\ UNCHANGED <<medullaVars, deliveries, currentEpoch, mined, rows, restarts, contractVars>>

\* publish throws, whether the stream has the event or not: the buffers stay as they are.
PublishFails(p) ==
    /\ tick[p].at = "publish"
    /\ unpublished < MaxUnpublished
    /\ unpublished' = unpublished + 1
    /\ Ends(p)
    /\ announced' \in {announced, announced \cup {<<currentEpoch, tick[p].tuple>>}}
    /\ UNCHANGED <<medullaVars, buffered, deliveries, currentEpoch, mined, rows, restarts, contractVars>>

\* Mutated form of Clear: the buffers are not emptied.
ClearNothing(p) ==
    /\ tick[p].at = "clear"
    /\ Ends(p)
    /\ UNCHANGED <<medullaVars, buffered, deliveries, currentEpoch, mined, rows, announced, unpublished,
                   restarts, contractVars>>

\* The buffers are emptied of all they hold by now.
Clear(p) ==
    /\ tick[p].at = "clear"
    /\ Ends(p)
    /\ buffered' = {}
    /\ UNCHANGED <<medullaVars, deliveries, currentEpoch, mined, rows, announced, unpublished, restarts,
                   contractVars>>

Step(p) ==
    \/ Mined(p) \/ SubmitFails(p) \/ GiveUp(p)
    \/ Answered(p) \/ Prove(p) \/ Send(p) \/ Commit(p) \/ Record(p)
    \/ Publish(p) \/ PublishFails(p) \/ Clear(p)

-----------------------------------------------------------------------------
(* Around the ticks.                                                        *)

\* An operator's `mineblock`: a block over the zero tuple.
MineBlock ==
    /\ SubmitCoherenceRoot(ZeroTuple)
    /\ mined' = mined \cup {<<Tip'.epoch, ZeroTuple>>}
    /\ UNCHANGED <<routerVars, contractVars>>

MedullaRestart == Restart /\ UNCHANGED <<routerVars, mined, contractVars>>

\* The buffers and the epoch live in memory; the table and the bus outlive the router.
RouterRestart ==
    /\ restarts < MaxRouterRestarts
    /\ restarts' = restarts + 1
    /\ buffered' = {}
    /\ currentEpoch' = 0
    /\ tick' = [p \in Ticks |-> Idle]
    /\ UNCHANGED <<medullaVars, deliveries, mined, rows, announced, unpublished, contractVars>>

Next ==
    \/ \E e \in Events : Deliver(e)
    \/ \E p \in Ticks : Begin(p) \/ Step(p)
    \/ MineBlock \/ MedullaRestart \/ RouterRestart

\* HTTP and chain clients answer or give up, so that each await ends.
Fairness == \A p \in Ticks : WF_vars(Step(p))

Spec == Init /\ [][Next]_vars /\ Fairness

-----------------------------------------------------------------------------
TypeOK ==
    /\ MedullaTypeOK
    /\ buffered \subseteq {e \in Events : kind[e] \in Subscribed}
    /\ currentEpoch \in 0 .. MaxBlocks
    /\ \A p \in Ticks : tick[p] # Idle => tick[p].tuple \subseteq Events
    /\ DOMAIN rows \subseteq 1 .. MaxBlocks

\* What the Epoch table and the bus say of an epoch was mined under that number,
\* through lost answers, failed publishes, manual blocks and restarts of either side;
\* until the daemon restarts the first row of an epoch is the block of that height.
RecordsAreMined ==
    /\ TypeOK
    /\ life = 0 => \A n \in DOMAIN rows : n < Len(blocks) /\ blocks[n + 1].tuple = rows[n]
    /\ \A n \in DOMAIN rows : <<n, rows[n]>> \in mined
    /\ announced \subseteq mined

\* An event is folded into at most one block for each time the bus delivered it and
\* each time a publish that failed left the buffers full.
FoldedPerDelivery ==
    \A e \in Events :
        Cardinality({m \in mined : m[2] # ZeroTuple /\ e \in m[2]}) <= deliveries[e] + unpublished

\* What leaves the buffers without being in a block, while the router lives, leaves them
\* in one of two ways: it was delivered after the roots of the tick that empties them
\* were computed, or the submission of that tick failed.  "Buffered event hashes per epoch
\* - drained at each epoch tick" (thalamus-router/src/server.ts:29) promises more.
HeardUntilFolded ==
    [][\A e \in buffered \ buffered' :
        \/ restarts' # restarts
        \/ \E m \in mined : m[2] # ZeroTuple /\ e \in m[2]
        \/ \E p \in Ticks :
            /\ tick'[p] = Idle
            /\ tick[p].at = "failed" \/ (tick[p].at = "clear" /\ e \notin tick[p].tuple)]_vars

\* Every tick that starts ends, whatever fails on the way.
TicksEnd == \A p \in Ticks : tick[p] # Idle ~> tick[p] = Idle

=============================================================================
