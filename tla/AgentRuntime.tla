---------------------------- MODULE AgentRuntime -----------------------------
(***************************************************************************)
(* services/agent-runtime: agents that loop over a language model and its  *)
(* tool calls, and the memory store they share, an address book in front   *)
(* of a daemon.  A step is what happens between two awaits of a request.   *)
(* The prompts are left out: what the model answers is any result the      *)
(* client can make of a provider's response.                               *)
(***************************************************************************)
EXTENDS SemanticAddress

CONSTANTS Ids,          \* agents
          Runs,         \* requests in flight, of one life of the process
          None,
          Configs,      \* what agents are created with: maxSteps, tokenBudget
          Memories,     \* grammars that memories are stored under
          Queries,      \* grammars asked for, and what texts hint at
          Contents,
          CallLists,    \* tool calls of one answer
          Usages,       \* tokens that one answer may use
          MaxFaults     \* bound on refused, lost and failed calls

VARIABLES agents,    \* the Map of server.ts
          run,       \* the requests and the state of their agents
          cache,     \* the address book of the MemoryStore
          daemon,    \* what the daemon holds
          faults,    \* history: faults so far
          accepted,  \* history: what the daemon ever took
          mine       \* history: what store() returned for since the process started

vars == <<agents, run, cache, daemon, faults, accepted, mine>>

Entry(g, content) == [address |-> Derive(g, content), grammar |-> g]

\* The tools that touch the memory.  reflect is a recall by a text; a tool without its
\* required argument, an unknown one, or one that throws, only yields a message.
Remember == [tool : {"remember"}, entry : {Entry(g, c) : g \in Memories, c \in Contents}]
Recall == [tool : {"recall"}, grammar : Queries]
Reflect == [tool : {"recall"}, grammar : {ParseDescription(q) : q \in Queries}]
Calls == Remember \cup Recall \cup Reflect \cup {[tool |-> "other"]}

\* What a caller may configure is positive; a provider reports a number of tokens.
ASSUME RuntimeAssumption ==
    /\ None \notin Ids
    /\ Configs \subseteq [maxSteps : Nat \ {0}, tokenBudget : Nat \ {0}]
    /\ CallLists \subseteq Seq(Calls)
    /\ Usages \subseteq Nat

-----------------------------------------------------------------------------
(* What InferenceClient.complete makes of a response. *)

Results == [content : BOOLEAN, calls : CallLists, usage : Usages,
            finish : {"stop", "tool_calls", "length", "other"}]

\* OpenAI and compatible: the finish reason as given, "stop" where there is none.
OpenAiComplete == Results

\* Anthropic: calls make it "tool_calls"; its own reasons, such as "max_tokens", are none
\* of those the loop knows.
AnthropicComplete ==
    {r \in Results : IF r.calls # <<>> THEN r.finish = "tool_calls" ELSE r.finish \in {"stop", "other"}}

Complete(provider) == IF provider = "anthropic" THEN AnthropicComplete ELSE OpenAiComplete

-----------------------------------------------------------------------------
Idle == [phase |-> "idle", agent |-> None, config |-> None, step |-> 0, tokens |-> 0,
         status |-> "idle", calls |-> <<>>, last |-> 0, cause |-> None]

Init ==
    /\ agents = [id \in Ids |-> None]
    /\ run = [r \in Runs |-> Idle]
    /\ cache = <<>>
    /\ daemon = {} /\ accepted = {} /\ mine = {}
    /\ faults = 0

\* POST /agents: creating an agent again replaces it and forgets its run.
CreateAgent(id, config) ==
    /\ agents' = [agents EXCEPT ![id] = [config |-> config, instance |-> None]]
    /\ UNCHANGED <<run, cache, daemon, faults, accepted, mine>>

\* POST /agents/:id/run: a fresh Agent, shown as the agent's instance from now on; the
\* run begins with a recall of what its task hints at.
RunTask(r, id, q) ==
    /\ run[r].phase = "idle" /\ agents[id] # None
    /\ agents' = [agents EXCEPT ![id].instance = r]
    /\ run' = [run EXCEPT ![r] = [Idle EXCEPT !.phase = "work", !.agent = id,
                  !.config = agents[id].config, !.status = "running",
                  !.calls = <<[tool |-> "recall", grammar |-> ParseDescription(q)]>>]]
    /\ UNCHANGED <<cache, daemon, faults, accepted, mine>>

\* GET /agents/:id.
ShownStatus(id) ==
    IF agents[id].instance = None THEN "idle" ELSE run[agents[id].instance].status

\* POST /memory/store and /memory/recall: the same calls, without an agent.
ServeMemory(r, call) ==
    /\ run[r].phase = "idle"
    /\ run' = [run EXCEPT ![r].phase = "work", ![r].calls = <<call>>]
    /\ UNCHANGED <<agents, cache, daemon, faults, accepted, mine>>

-----------------------------------------------------------------------------
(* The steps of a request. *)

Working(r) == run[r].phase = "work" /\ run[r].calls # <<>>
CallDone(r) == [run EXCEPT ![r].phase = "work", ![r].calls = Tail(@)]

\* Nothing catches what a memory call throws: the request fails, the status stays.
Thrown(r) == [run EXCEPT ![r].phase = "done", ![r].cause = "thrown", ![r].calls = <<>>]
Finished(r, status, cause) ==
    [run EXCEPT ![r].phase = "done", ![r].status = status, ![r].cause = cause]

\* handleToolCall without the memory.
OtherTool(r) ==
    /\ Working(r) /\ Head(run[r].calls).tool = "other"
    /\ run' = CallDone(r)
    /\ UNCHANGED <<agents, cache, daemon, faults, accepted, mine>>

\* What a query finds in the cache: the oldest entries first, cut at the limit.
Cached(grammar, limit) ==
    LET found == BookQuery(cache, DerivePartial(grammar))
    IN  SubSeq(found, 1, Min({limit, Len(found)}))

\* GET /memory/:address: from the cache, or else from the daemon.
GetMemory(address) ==
    IF BookGet(cache, address) # {} THEN BookGet(cache, address)
    ELSE {e \in daemon : e.address = address}

\* MemoryStore.recall: one hit in the cache is an answer, a miss asks the daemon.
RecallCall(r) ==
    /\ Working(r) /\ Head(run[r].calls).tool = "recall"
    /\ run' = IF BookQuery(cache, DerivePartial(Head(run[r].calls).grammar)) # <<>>
              THEN CallDone(r)
              ELSE [run EXCEPT ![r].phase = "query"]
    /\ UNCHANGED <<agents, cache, daemon, faults, accepted, mine>>

\* The answer to dagQuery fills the cache.
QueryAnswered(r) ==
    /\ run[r].phase = "query"
    /\ LET partial == DerivePartial(Head(run[r].calls).grammar)
       IN  \E found \in SUBSET {e \in daemon : PrefixMatch(e.address, partial)} :
              \E answer \in SetToSeqs(found) : cache' = BookPutAll(cache, answer)
    /\ run' = CallDone(r)
    /\ UNCHANGED <<agents, daemon, faults, accepted, mine>>

\* A refused query finds nothing; one that gets no answer throws.
QueryFails(r) ==
    /\ run[r].phase = "query" /\ faults < MaxFaults
    /\ faults' = faults + 1
    /\ run' \in {CallDone(r), Thrown(r)}
    /\ UNCHANGED <<agents, cache, daemon, accepted, mine>>

\* MemoryStore.store: the PUT goes out first.
StoreCall(r) ==
    /\ Working(r) /\ Head(run[r].calls).tool = "remember"
    /\ run' = [run EXCEPT ![r].phase = "put"]
    /\ UNCHANGED <<agents, cache, daemon, faults, accepted, mine>>

Taken(e) ==
    /\ daemon' = {d \in daemon : d.address # e.address} \cup {e}
    /\ accepted' = accepted \cup {e}

\* Mutated form of PutAnswered: the entry is not cached.
PutAnsweredUncached(r) ==
    /\ run[r].phase = "put"
    /\ Taken(Head(run[r].calls).entry)
    /\ mine' = mine \cup {Head(run[r].calls).entry}
    /\ run' = CallDone(r)
    /\ UNCHANGED <<agents, cache, faults>>

\* The daemon has it: now it is cached and the call returns.
PutAnswered(r) ==
    /\ run[r].phase = "put"
    /\ LET entry == Head(run[r].calls).entry
       IN  /\ Taken(entry)
           /\ cache' = BookPut(cache, entry)
           /\ mine' = mine \cup {entry}
    /\ run' = CallDone(r)
    /\ UNCHANGED <<agents, faults>>

\* It refuses, or takes the entry and its answer is lost.
PutFails(r) ==
    /\ run[r].phase = "put" /\ faults < MaxFaults
    /\ faults' = faults + 1
    /\ Taken(Head(run[r].calls).entry) \/ UNCHANGED <<daemon, accepted>>
    /\ run' = Thrown(r)
    /\ UNCHANGED <<agents, cache, mine>>

\* The request without an agent answers.
Respond(r) ==
    /\ run[r].phase = "work" /\ run[r].calls = <<>> /\ run[r].agent = None
    /\ run' = [run EXCEPT ![r].phase = "done"]
    /\ UNCHANGED <<agents, cache, daemon, faults, accepted, mine>>

\* The head of the loop, reached when all calls of the last answer are done.
AtLoop(r) == run[r].phase = "work" /\ run[r].calls = <<>> /\ run[r].agent # None
WithinBounds(r) ==
    run[r].step < run[r].config.maxSteps /\ run[r].tokens < run[r].config.tokenBudget

\* Mutated form of NextStep: a step is counted when the model calls a tool only.
NextStepUncounted(r) ==
    /\ AtLoop(r) /\ WithinBounds(r)
    /\ run' = [run EXCEPT ![r].phase = "infer"]
    /\ UNCHANGED <<agents, cache, daemon, faults, accepted, mine>>

NextStep(r) ==
    /\ AtLoop(r) /\ WithinBounds(r)
    /\ run' = [run EXCEPT ![r].phase = "infer", ![r].step = @ + 1]
    /\ UNCHANGED <<agents, cache, daemon, faults, accepted, mine>>

\* Mutated form of Exhausted: a budget used up exactly is not exhausted.
ExhaustedBeyond(r) ==
    /\ AtLoop(r) /\ ~WithinBounds(r)
    /\ run' = Finished(r, IF run[r].tokens > run[r].config.tokenBudget
                          THEN "budget_exhausted" ELSE "completed", "exhausted")
    /\ UNCHANGED <<agents, cache, daemon, faults, accepted, mine>>

Exhausted(r) ==
    /\ AtLoop(r) /\ ~WithinBounds(r)
    /\ run' = Finished(r, IF run[r].tokens >= run[r].config.tokenBudget
                          THEN "budget_exhausted" ELSE "completed", "exhausted")
    /\ UNCHANGED <<agents, cache, daemon, faults, accepted, mine>>

\* The model answers.  "stop", or a text without calls, is the end, whatever else the
\* answer holds; otherwise its calls are processed in order, and an answer without
\* any, as one cut at its length, just goes on.
Infer(r, provider) ==
    /\ run[r].phase = "infer"
    /\ \E a \in Complete(provider) :
          LET final == a.finish = "stop" \/ (a.calls = <<>> /\ a.content)
              counted == [run EXCEPT ![r].tokens = @ + a.usage, ![r].last = a.usage]
          IN  run' = IF final
                     THEN [counted EXCEPT ![r].phase = "done", ![r].status = "completed",
                                          ![r].cause = "final"]
                     ELSE [counted EXCEPT ![r].phase = "work", ![r].calls = a.calls]
    /\ UNCHANGED <<agents, cache, daemon, faults, accepted, mine>>

InferFails(r) ==
    /\ run[r].phase = "infer" /\ faults < MaxFaults
    /\ faults' = faults + 1
    /\ run' = Finished(r, "error", "failed")
    /\ UNCHANGED <<agents, cache, daemon, accepted, mine>>

Step(r) ==
    \/ OtherTool(r) \/ RecallCall(r) \/ QueryAnswered(r) \/ QueryFails(r)
    \/ StoreCall(r) \/ PutAnswered(r) \/ PutFails(r)
    \/ Respond(r) \/ NextStep(r) \/ Exhausted(r)
    \/ \E provider \in {"openai", "anthropic"} : Infer(r, provider)
    \/ InferFails(r)

-----------------------------------------------------------------------------
\* The process starts again: agents, requests and cache are gone.
RuntimeRestart ==
    /\ faults < MaxFaults /\ faults' = faults + 1
    /\ agents' = [id \in Ids |-> None]
    /\ run' = [r \in Runs |-> Idle]
    /\ cache' = <<>> /\ mine' = {}
    /\ UNCHANGED <<daemon, accepted>>

\* The daemon starts again with nothing.
DaemonRestart ==
    /\ faults < MaxFaults /\ faults' = faults + 1
    /\ daemon' = {}
    /\ UNCHANGED <<agents, run, cache, accepted, mine>>

Next ==
    \/ \E id \in Ids, c \in Configs : CreateAgent(id, c)
    \/ \E r \in Runs, id \in Ids, q \in Queries : RunTask(r, id, q)
    \/ \E r \in Runs, call \in Remember \cup Recall : ServeMemory(r, call)
    \/ \E r \in Runs : Step(r)
    \/ RuntimeRestart \/ DaemonRestart

\* Every fetch ends, in an answer or an error.
Spec == Init /\ [][Next]_vars /\ \A r \in Runs : WF_vars(Step(r))
-----------------------------------------------------------------------------
\* What is asked for is a region: an entry is found exactly when it agrees with every
\* facet of the query up to the first one missing.  So a grammar with a gap widens to
\* its leading facets, and what is stored under a grammar is found by it.
RegionIsPrefix ==
    \A q \in Queries \cup Memories :
        LET wanted == Normalize(q)
            found == Range(BookQuery(cache, DerivePartial(q)))
        IN  \A i \in DOMAIN cache :
                cache[i] \in found <=>
                    \A f \in Facets :
                       (\A g \in 1 .. f : wanted[g] # Missing) => wanted[f] = Normalize(cache[i].grammar)[f]

\* Whatever other requests store, query or see fail in between, and whatever the daemon
\* loses: a memory this process stored is in every answer about its region unless the
\* limit cut it off, is found by its address, and no answer holds what the daemon never
\* took.
OwnWritesRecalled ==
    /\ \A m \in mine : GetMemory(m.address) # {}
    /\ \A q \in Queries, limit \in 1 .. Cardinality(mine) + 1 :
          LET told == {e.address : e \in Range(Cached(q, limit))}
              partial == DerivePartial(q)
          IN  /\ \A m \in mine : PrefixMatch(m.address, partial) =>
                    m.address \in told \/ Cardinality(told) = limit
              /\ told \subseteq {e.address : e \in accepted}

\* What a run ended with says why it ended, and is "running" for ever when a memory
\* call threw; it exceeds its tokens by less than its last answer, its steps never.  So
\* an agent is shown as running only while it runs, or for such a run.
VerdictMatches ==
    /\ \A id \in Ids :
          agents[id] # None /\ ShownStatus(id) = "running" =>
             \E r \in Runs : run[r].agent = id /\ (run[r].phase # "done" \/ run[r].cause = "thrown")
    /\ \A r \in {x \in Runs : run[x].agent # None} :
          LET s == run[r]
          IN  /\ s.step <= s.config.maxSteps
              /\ s.step > 0 => s.tokens - s.last < s.config.tokenBudget
              /\ s.phase # "done" => s.status = "running"
              /\ s.phase = "done" =>
                    /\ s.status = "running" <=> s.cause = "thrown"
                    /\ s.status = "error" <=> s.cause = "failed"
                    /\ s.status = "budget_exhausted" => s.tokens >= s.config.tokenBudget
                    /\ s.status = "completed" =>
                          \/ s.cause = "final"
                          \/ s.step = s.config.maxSteps /\ s.tokens < s.config.tokenBudget

\* Every request comes to an end, though a model may call tools, or say nothing and use
\* no tokens, for ever.
AllRunsEnd == \A r \in Runs : run[r].phase # "idle" ~> run[r].phase \in {"done", "idle"}
=============================================================================
