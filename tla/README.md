# TLA+ models of the ECCA Stack (dhf)

This directory models the ECCA Stack v3: the contracts that meter and settle
bandwidth, the two Go daemons (a proof-of-work chain for coherence roots and a
content-addressed memory lattice), the TypeScript services that keep identities,
sleeves and balances in Postgres, and the bus between them. TLC checks small
instances; TLAPS proves every invariant that TLC checks for every instance.

Paths below are relative to the repository.

## Inventory

| Part | State | Operations | What makes it correct |
|---|---|---|---|
| `contracts/src/EpochAnchor.sol` | anchors by epoch, head, last height, bridgers | `setBridger`, `commitAnchor`, `verifyContinuity` | one chain of growing heights; verdicts are final |
| `contracts/src/BandwidthToken.sol` (five kinds) | balance per stack, supply, minter, authorised spenders | `mint`, `spend`, `transferStack`, `setMinter`, `authorizeSleeve` | the supply is held, and derivable from the logs |
| `contracts/src/TripartiteGame.sol` | games, parties with budgets, consumption per epoch | `openGame`, `registerParty`, `consume` | nobody exceeds a budget; what is booked is burned |
| `contracts/src/RouteOracle.sol` | guardians, votes, pause flags, rolling residue counts | pause, approve, resume, observe, configure | a quorum behind each resume; a burst always pauses |
| `contracts/src/{QuellistTreasury,ResidueRegistry,ResidueToRoutingSwap}.sol`, `contracts/scripts/deploy.ts` | claims, bounties, swap counters, rates, who mints | issue, claim, detect, prove, swap, wire | every mint is in one contract's books, caps hold |
| `forks/medulla-pow-go` | blocks, epoch counter, Synaptic Field MMR | submit a coherence root, mine, prove, restart | epochs are heights; roots commit to an unbroken run of leaves |
| `forks/hippocampus-dag-go` | nodes, indices, pins and leases | put, pin, lease, status, recall, scan | leases hold; recalls and scans are exact about what they promise |
| `services/thalamus-router` | event buffers, epoch | the tick: submit, prove, commit, record, publish, clear | what it records was mined; nothing is folded too often |
| `services/{siyana-api,needlecast-router-svc,bandwidth-faucet}` | Postgres rows of stacks and sleeves | perceive, remember, sync, decommission, the needlecast saga, drip | balances, frozen sleeves, the chain of memories |
| `packages/bus`, `services/quellist-treasury-svc`, `workers/runner` | stream, durable consumers, counts in memory | publish, deliver, ack, nak; emit, meter, collect | at-least-once delivery without more than its share of duplicates |
| `services/dhf-compositor`, the pins of the saga, `workers/runner` (pinning-service, memory-reconciler) | none of their own: the head and the epoch of the stack, and the lattice | reconstruct, recall, pin | what is newest is decoded; what was needlecast stays readable |
| `services/agent-runtime`, `packages/semantic-address` | agents and their runs, a cache before a daemon | create, run, store, recall | own memories are found, runs end, the status says why |
| `packages/crypto` | | Merkle tree, mountain range, epoch keys, cipher | proofs verify; the range covers its leaves |
| `contracts/src/{StackIdentity,NeedlecastRouter,SleeveRegistry}.sol` | stacks, roots, sleeves | mint, route, register | only the ownership of stacks is modelled |
| `services/sleeve-runtime` | a timer | calls siyana-api | its calls are modelled where they arrive |

How they interact: services publish events on the bus; the thalamus router folds
what it hears into shard roots, has the medulla mine them into a block, commits
the anchor to the cortex contract `EpochAnchor`, writes the `Epoch` row and
announces `epoch.transition`, on which the treasury, the meter and other workers
act. siyana-api and the compositor keep memories in hippocampus; a needlecast
recalls and pins them and moves a stack's charge between sleeves; its event makes
the pinning-service pin them again. The agent runtime keeps to itself: its memory
store speaks to a daemon over `/api/v1/put`, `query` and `get`, which hippod does
not serve.

The hard behaviours are the ones a test seldom meets: every handler is a sequence
of awaited statements without locks, so requests interleave over stale copies;
the bus repeats and reorders; most errors are swallowed; three processes keep
their state in memory; contracts depend on the order in which they were wired.
`PROJECT.json` lists each hazard at its line, with the properties that cover it.

## Modules

| Module | Models | Extends / uses |
|---|---|---|
| `EpochAnchor` | the anchor contract; a revert is no step | |
| `BandwidthToken` | the five token contracts, one function per mapping, indexed by kind; `minted` and `spent` are what the logs add up to | |
| `TripartiteGame` | the game over the tokens, `consume` with its burn in one transaction | `BandwidthToken`, `Treaty` |
| `Treaty` | abstract specification: an allowance per party, epoch and resource that only goes down | |
| `TokenEconomy` | treasury, registry and swap over the tokens; `deployed` counts the wiring steps of `deploy.ts` that were mined | `BandwidthToken` |
| `RouteOracle` | guardians, votes, pauses, the residue heuristic; `clock` is the epoch of `block.timestamp` | |
| `MerkleMountainRange` | `mmr.go` and the TypeScript field as operators; a hash is the term it was made from | |
| `MerkleTree` | the binary tree of `packages/crypto`, its proofs and their verification | `MerkleMountainRange` |
| `Medulla` | the daemon: a call under the chain's mutex is one step; a mining failure keeps the field's leaf | `MerkleMountainRange` |
| `SynapticField` | reference definitions for what the field and the tree commit to, as functions by recursion on a number | `Medulla`, `MerkleTree` |
| `CoherenceCycle` | the router's tick, one step per await, over the daemon and the contract | `Medulla`, `EpochAnchor` |
| `SleeveLedger` | the rows of one stack and six kinds of request, one step per statement | |
| `HippocampusDag` | the lattice behind its lock; `/pin/status` takes it twice | |
| `Recall` | the depth-first walk and the scan, against a breadth-first reference | `HippocampusDag` |
| `Reconstruction` | the memory of one stack over its life: writers, the treasury's epochs, the compositor, the pins of saga, pinning-service and reconciler, one step per await | `Recall` |
| `SemanticAddress` | grammars, derivation, prefixes and the address book; a hash of a facet is the facet | |
| `AgentRuntime` | requests, the tool loop, the memory store and its cache, one step per await | `SemanticAddress` |
| `AxonalBus` | stream and durable subscriptions, redelivery included | |
| `EpochConsumers` | treasury service, bandwidth meter, residue collector, one step per awaited statement | `AxonalBus` |
| `MC...` | instances for TLC | |
| `EpochAnchorProofs`, `RouteOracleProofs`, `SleeveLedgerProofs`, `EpochConsumersProofs`, `AgentRuntimeProofs` | theorems about the module each is named after | that module |
| `CoherenceCycleProofs` | theorems about the daemon, its field, the Merkle tree and the tick over them | `CoherenceCycle`, `SynapticField` |
| `TokenProofs` | theorems about the tokens, the game and the economy | `BandwidthToken`, `TripartiteGame`, `TokenEconomy` |
| `HippocampusProofs` | theorems about the lattice, its reads, and the services over it | `Reconstruction` |

`PROJECT.json` maps every definition to the lines it stands for. Operators whose
comment begins with "Mutated form of" are wrong variants of the definition after
them, each a plausible bug; no specification uses them. Putting one in the place
of the definition makes the named property fail, which shows that the property
depends on that code.

Variables marked "history" record what happened and guard nothing.

Parts that compose: `TripartiteGame` and `TokenEconomy` stand over the same token
module, so that a burn or mint that reverts takes the whole call back.
`CoherenceCycle` joins three processes: the router between its awaits, the daemon
and the chain. `EpochConsumers` joins three consumers on one stream.
`Reconstruction` joins siyana-api, the treasury, the compositor, the saga and two
workers over the lattice of `HippocampusDag`, with the same `Put`, `Pin`, lease
check and walk that the lattice's own run checks.

## Runs

| Run | Question | States |
|---|---|---|
| `epoch_anchor` | Can any order of commits leave the anchors without growing heights, or change a verdict? | 2,372 |
| `tripartite_game` | Is every epoch fair, is booked consumption burned, do the contracts implement `Treaty`? | 49,356 |
| `route_oracle` | Does the counter count votes through rotations; is each resume backed by a quorum; does each burst pause? | 461,120 |
| `token_economy` | Are supply, logs, caps, rates, bounties and epoch claims consistent while minting rights move? | 973,392 |
| `synaptic_field` | Are blocks told apart; is the incremental field the range of its leaves, before and beyond the window, after failures and restarts; do Merkle proofs verify for every leaf and no other? | 68,730 |
| `coherence_cycle` | Is what the table and the bus say what was mined; how often may an event be folded, how can it be lost; does a tick end? | 454,250 |
| `sleeve_ledger` | What can three interleaved requests and two failures do to balances, sleeves and memory? | 1,354,304 |
| `hippocampus` | Do leases hold, indices agree, recalls and scans give what they promise, in every state? | 933,080 |
| `reconstruction` | While writers overlap each other and the epochs: what is decoded, what stays readable after a needlecast, what can the reconciler heal? | 4,107,104 |
| `epoch_consumers` | What do redeliveries, deaths and swallowed errors do to emissions, counts and residues? | 193,731 |
| `agent_runtime` | Does a query find its region, does the store recall its own, what does a status mean, does every run end? | 344,065 |
| `ledger_lost_debit` | finding: two needlecasts are paid from one balance | |

### Bounds, and why they are enough

- `epoch_anchor`: words up to 3 give four epochs and four heights, so that epochs
  are skipped and `head = 0` is met before and after the first commit. The proofs
  lift the bound.
- `tripartite_game`: two games over one token and one stack compete for one
  balance; two epochs; amounts up to 2, so that a budget is used up in two calls.
- `route_oracle`: guardian arrays up to two entries with duplicates, three
  epochs and windows of one and two, so that a burst lies inside, across and
  outside a window; two observations per epoch.
- `token_economy`: two stacks, two residues, one holder; amounts up to 2, caps of
  1 and of 1 and 2, a rate of one, and a rate of three quarters that decays by a
  half, so that the floor of a half binds. `Scale` is 4 where the contract has
  1,000,000: rounding happens at every step.
- `synaptic_field`: a window of four leaves and up to ten leaves, so that merges
  of every height and the dropping of mountains occur; two tuples, so that equal
  leaves occur too.
- `coherence_cycle`: one event, three blocks, one tick at a time, one failure of
  each kind. One event that comes while the tick awaits is what clears or folds
  too much. With two ticks at once `RecordsAreMined` is false (see Proofs); the instance
  grows beyond what a run can hold.
- `sleeve_ledger`: two sleeves whose tokens pay for one needlecast, one
  synchronisation and one perception, so that the second of two requests is the
  one that should be refused; three requests, two failures.
- `hippocampus`: three CIDs in every acyclic linking (a diamond's shortcut
  included), epochs inside and outside the drift of two, one foreign node, depths
  and tokens 0 to 2.
- `reconstruction`: two writers who overlap, two fragments with or without a link,
  epochs 0, 1 and 3, so that two of them lie within the drift of two and two do
  not; one reader at a time, next to the pinning-service; one fault. The readers
  change nothing for each other but pins, which the saga and the pinning-service
  set at the same time here.
- `agent_runtime`: two facets and two values, two requests to one agent or to the
  memory, answers with none, one or two calls, steps and tokens that meet, exceed
  and miss their bounds; one fault. `Depth` is 5 in the code; prefixes of length
  zero, one and two are all the cases there are.
- `epoch_consumers`: two messages of any kind and two faults of any kind: a
  redelivery after a later message, a death in the middle of a loop, a failed
  publish after a written row. With three messages the instance has more than
  500,000 states at one fault and shows nothing else.

`MaxBlocks`, `MaxFailures`, `MaxRestarts`, `MaxDeliveries`, `MaxUnpublished`,
`MaxRouterRestarts`, `MaxNodes`, `MaxWindows`, `MaxErrors`, `MaxMinted`,
`MaxObserved`, `MaxEpoch`, `MaxMessages`, `MaxReads`, `MaxFaults` bound counters; they stand
in guards and are commented as bounds where they are declared. Runs whose bounds
end every behaviour switch deadlock checking off.

Symmetry is used where no constant tells the permuted values apart and no
liveness property is checked: `token_economy` (stacks, residues), `sleeve_ledger`
(sleeves, requests) and `reconstruction` (writers).

### Fairness

- `CoherenceCycle`: weak fairness of each step of a started tick. Every await is
  an HTTP, database or chain call whose client answers or throws. Starting ticks
  and everything else stays unfair. `TicksEnd` says a tick then ends.
- `EpochConsumers`: weak fairness of each consumer. The bus client reconnects for
  ever and the server redelivers what is not acknowledged; statements end in a
  result or an error. Faults are bounded, that is, they stop at some point: with a
  handler that failed for ever no message could settle.

- `AgentRuntime`: weak fairness of each request. A `fetch` ends in an answer or an
  error, and the loop goes on by itself. What the model answers is not fair in any
  way: `AllRunsEnd` holds because steps are counted, though an answer may use no
  tokens and call tools for ever.

Nothing else is assumed fair; all other properties are safety properties.

## Proofs

All theorems are checked to the last leaf. They hold for every value of the
constants that satisfies the `ASSUME`s of the modules: any width of the machine
word, any epochs, depths, rates, windows and bounds, any number of requests and
readers, histories of any length. Sets that a sum or a count runs over are finite
(accounts, stacks, sleeves, residues, requests); the contracts' own accounts
(treasury, registry, swap, administrator) are distinct addresses; a CID is not the
null of the column that holds one; the tuple of zeros that starts the field is not a
set of events; an agent is configured with a positive number of steps and of tokens,
and its id is not the absence of one. The code gives each of these.

Every safety theorem has the same form: a predicate that every initial state
satisfies and every step keeps, from which the property follows. TLC checked each
of these predicates on the instances above before it was proved. Where a property
is not inductive the strengthening says why the code is right:

- `EpochAnchorProofs`. The mapping, `head` and `lastMedullaHeight` are written
  together, but the guard reads only the scalars. The strengthening is that the head
  bounds the epochs anchored and the last height the heights (`HeadIsNewest`); with
  it `HeightsFollowEpochs` is inductive, and a commit writes above everything a
  verdict has looked at (`VerdictsAreFinal`).
- `TokenProofs`, in three parts. *The tokens*: the supply is the sum of the balances,
  and what was minted less what was spent. A sum is a fold over the stacks; lemmas
  say that the fold exists and what it becomes when one term changes, and the two
  modules over the tokens use them. *The game*: fairness is not inductive alone, since
  a registration late in an epoch could cap a stack that had consumed before;
  `OnlyPartiesConsume` is the strengthening. What all games booked was burned
  (`BookedWasBurned`) is a sum over games, epochs and stacks kept in step with the log
  of the token. The refinement `ImplementsTheTreaty` maps `remaining` to budget less
  consumption: the initial states map to initial ones, each step of the game to `Join`,
  `Use` or a stutter, each step of the tokens to a stutter. *The economy*: the
  strengthening says who may mint at which stage of the wiring, so that each mint falls
  into the books of one contract, and that an open residue or epoch has not been paid.
  Swaps: the agents' counters add up to the epoch's, each within a cap the owner once
  set; a quote does not rise with age because the decay is a quotient by the scale.
- `RouteOracleProofs`. `executeResume` reads a counter. That the counter is the
  cardinality of the set of voters is inductive; from it every resume has a
  threshold of distinct votes behind it. `observeResidue` compares a rolling count
  with the rate, while the owner may change window and rate between two residues:
  that the count is never behind what the narrowest window saw before the last residue
  (`RollingOK`) makes every burst pause its agent (`BurstsPause`), with sums over
  epochs by induction on their bound.
- `SleeveLedgerProofs`. Requests write back rows they read several awaits before. The
  strengthening bounds every copy that a request holds as it bounds the rows, and
  says of each phase which sleeve it holds frozen. `LedgerBalances` and
  `HeadReachesAll` are proved for requests served one at a time, which is what they
  state; the memory is reachable by a walk whose length nothing bounds.
- `HippocampusProofs`, in three parts. *The lattice*: a status is put together from
  two reads, and is right because what the first saw of a lease is still granted at
  the second (`StillCovered`); no call takes a lease back; each index is a
  duplicate-free list of what has the attribute. *The reads*: `EpochScan` is the
  concatenation of such lists. `Recall` is compared with a breadth-first reference:
  a walk with n links left returns only nodes of the levels it may reach
  (`WalkGood`), and, where every node has one link at most, all of them (`WalkWhole`).
  *The services* (`MemoryInvariant`): what siyana-api wrote is a history of single
  links to what was written before, nobody leases it, the requests under way name
  only such fragments, a shard handed to a pinner is pinned or was refused or is lost,
  and until an old transition is handled epochs do not rise along any link, nor along
  one a writer is about to make. From it: what is decoded is a prefix of what is
  returned, a bond holds, and the reconciler heals nothing. `MemoryUsesHippod` says
  that the services' steps are steps of the lattice, so that everything proved about
  the lattice alone, recalls and scans included, holds under them.
- `CoherenceCycleProofs`. The router carries an epoch, a block and a proof across
  seven awaits. The invariant ties each of them, by the stage of the tick, to the block
  they came from. `RecordsAreMined` and `FoldedPerDelivery` are proved, with
  restarts of router and daemon and a failure at each await, under the proviso that a
  tick ends before the next one begins. The router does not ensure it (the timer
  does not wait), and without it they are false: with `Ticks = {"a", "b"}` TLC finds a
  record under the wrong number, since `currentEpoch` is read again after the awaits,
  and a delivery folded into two blocks.
  What holds for any number of overlapping ticks is `BuffersHeard`: an event that left
  the buffers unmined was delivered too late for the tick that cleared them, or its
  submission failed.

  The daemon alone (`ChainInvariant`): its epochs are heights, its field is over its
  leaves, its blocks are over ever more of them, through mining failures and restarts.
  *The field*: an append looks at the bits of the count and at the last peaks only.
  The invariant (`FieldOver`) says what these are: the peaks are the perfect trees that
  the binary number of all leaves asks for, from the highest that was not dropped down,
  so that a carry never meets a gap. From it `FieldIsRange`: the range of all leaves
  until the window is full, perfect trees over an unbroken run of the newest ever after.
  *The blocks*: a hash tells how many leaves are under it, and until the window is full
  each block is mined over more leaves than the one before (`BlocksDiffer`); beyond it
  the count goes down and up again, and nothing is claimed. *The client's field*: it
  merges by another rule, and any merge of neighbours keeps what is covered
  (`MirrorIsComplete`). *The tree*: the layers form a tower, each half of the one below,
  rounded up; a proof has one sibling for each step of it, and a hash made from it is a
  node of the tower only if each hash below was. The last leaf is reached along the
  right ends of the layers, where an odd layer repeats its last node: that is why the
  root misses a repeated last leaf, and nothing else (`TreeProofsVerify`).
- `EpochConsumersProofs`. The three consumers hold counts in memory that a restart
  clears, and the stream holds what was published. What a handler is busy with was
  handed to it and not acknowledged since; rows and counts are then added up message
  by message along the stream (`Tally`), each message standing for at most as many
  as it was delivered. `EmissionPerDelivery`, `MeterAccounts` and
  `EpochsFallOnRedelivery` follow.
- `AgentRuntimeProofs`. The address book is a list in which `put` replaces and
  `query` selects by prefix: that a query returns exactly the entries under its prefix
  is an induction over the list. The cache of the memory store holds everything it was
  asked to store or has taken from the daemon, which makes `RegionIsPrefix` and
  `OwnWritesRecalled` hold with any number of requests interleaved. `VerdictMatches`
  needs what each phase of a run knows of its steps, its tokens and its last answer.

Induction over data, that is, over the length of a walk, of a list or of a sum, is
done by showing that the set of the numbers for which a statement holds is all of
`Nat` (`InductiveSet`, from the well-foundedness of `<`); for a finite set the number
is its cardinality. This is why the walk of `Recall`, `Picked`, `Since`, the reach of `SleeveLedger`, the
passes over the address book, `Tally`, the merges
of the field, its reference range and the layers of the tree are functions defined by
recursion on a number. That such a function exists, with the equations that define it,
is a lemma of its own beside each (`...Exists`): everything after it uses the equations only.

Model-checked only: liveness (`TicksEnd`, `AllSettle`, `ResiduesAnnounced`,
`AllRunsEnd`), which rests on fairness and is beyond the prover. Every invariant and
every action property of the passing runs is a theorem, as are the refinements.

## Findings

One run ends in a counterexample to what the repository says:

- `ledger_lost_debit`. `needlecast-router-svc/src/server.ts:36` checks and
  `:78` writes a balance several awaits apart without the row lock of
  `docs/needlecasting_spec.md:31`.

Met while modelling, and described by the models' steps and by what the properties
except, without a run of their own:

- `RouteOracle.sol:104` sets `executed` for an action id made of the agent alone,
  and nothing clears it: after one resume the next pause of the agent is permanent,
  whoever approves. `ResumeNeedsQuorum` says that an agent comes back at most once.
- `thalamus-router/src/server.ts:103` clears the buffers after several awaits, with
  everything that arrived since the roots were computed, and `:57` does so when the
  submission failed: those events are in no block. `HeardUntilFolded` says that
  events are lost in these two ways only.
- The compositor decrypts every fragment with the key of the stack's present epoch
  (`dhf-compositor/src/server.ts:39`), so that older ones come back as errors though
  the lattice returned them. `DecodesNewest` says that the errors are the old end
  of the answer, unless an old transition was handled again.
- When the head itself is outside the window of epochs and not pinned, hippod
  answers `null` for the fragments, over which the compositor (`:41`) and the saga
  (`needlecast-router-svc/src/server.ts:51`) throw; siyana-api's recall does not.
  A needlecast's bond holds from its own first shard on (`BondHolds`): a newer
  fragment that was not pinned still hides it.
- The memory-reconciler (`workers/runner/src/server.ts:110`) leaves out the CIDs
  that came with a reason and pins the others, which are those hippod does not
  hold: nothing it does heals anything (`NothingToHeal`), and its log says it did.
- An agent whose memory call throws (`agent-runtime/src/agent.ts:149`, `:244`) is
  shown as running for ever; `VerdictMatches` says that no other is.
- An answer of Anthropic's that was cut off has no reason the loop knows, so that it
  ends the run when it has text and spends a step when it has none.
- A Merkle root does not tell an odd number of leaves from the same leaves with the
  last one repeated (`crypto/src/index.ts:130`): `ProofsVerify` excepts that case.
- `rpc.go:164` answers height 0 for every anchor, which `commitAnchor` never
  accepts, so every commit of the router reverts (`README.md:154` says it lands);
  `deploy.ts` also never calls `setBridger`. In `CoherenceCycle` the operator is a
  bridger and `Commit` still leaves the contract as it was.
- A tick whose `publish` fails leaves the buffers as they are, so its events are
  mined again; `FoldedPerDelivery` bounds how often.
- `needlecast.route` is in the stream, but the router does not subscribe to it,
  though the saga's comment says it is folded into the next root.
- `deploy.ts:130` takes the minting of routing from the treasury:
  `claimEpochRewards` reverts from then on, while `docs/token_economy.md:31` still
  describes claims. `ClaimsEndAtHandover` is that fact.
- A lease on a node that was pinned for ever (`PinExpiry` 0) turns the pin into a
  finite one, against the comment at `dag.go:119`; `LeasesHold` therefore speaks
  of nodes with an expiry, and `StatusCovers` excepts legacy pins.
- The recall is depth first with a visited set, not breadth first as `README.md:41`
  says: in a diamond a node first met deep is not walked again from a shorter
  path. `RecallSound` asks for every fragment over histories with one link per
  node, all that siyana-api writes; its other parts hold over all.
- The drip's rate limit is set at the end of the handler: two requests at once
  both pass, and a drip that fails half way may be repeated at once.
- Two writers of one stack link to the same head and the later hides the other's
  fragment (`siyana-api/src/server.ts:79`, `:83`); `HeadReachesAll` holds for
  requests served one at a time.
- The Synaptic Field drops whole mountains, so that after the window is full it
  covers between half the window and the window (`mmr.go:58`), and the TypeScript
  field merges differently (`crypto/src/index.ts:195`): equal leaves give
  different roots in the two languages.
- The treasury pays one epoch's emission per transition handed over, also again
  when it is handed over again, and sets a stack's epoch back when an old
  transition comes late (`EpochsFallOnRedelivery` says only then).

## Not modelled, and why

- `StackIdentity` beyond ownership, `NeedlecastRouter`, `SleeveRegistry`: deployed,
  and called by no part of the repository; each function is one guarded write.
- epoch-anchor, drift-detector and the stale-sleeve scan of the workers: they write
  rows and events that nothing modelled reads. The first stores the newest anchor
  under the epoch of whichever event it handles (`workers/runner/src/server.ts:28`).
- `sleeve-runtime`: a timer over siyana-api's calls. Creation of stacks and sleeves,
  the coherence view and the proxy calls of siyana-api.
- Ciphers beyond which key opens what, identities and signatures; JSON, HTTP and
  logging; prompts and the wording of an agent's answers; difficulty retargeting,
  pools and block subscribers; `effectiveBalance` and fidelity (floating point).
- The replica table of the lattice, which nothing fills; torn reads while
  `/dag/get` and `/dhf/recall` encode a node outside the lock; `publishLight`; the
  limits of the JetStream stream; `prefixDistance`, `queryByHexPrefix` and `delete`
  of the address book, which have no caller; `verifyShardInclusion`.
- Two overlapping ticks of the router are in the model and in the proof of
  `BuffersHeard`, and in no run: they need more states than a run can have.
- Experiments, papers, the bot, scripts, deployment manifests and the cortex genesis
  are not part of the system's own logic.

## Plan

Done: the anchor, token, game, oracle and economy contracts; the chain with its
field and the Merkle tree; the tick; the ledger of one stack; the lattice and the
life of a stack's memory over it; three consumers of the bus; the agent runtime.

All safety properties of the passing runs are theorems. What is left is a run with two
overlapping ticks, small enough to be checked, and the contracts that no service calls.
