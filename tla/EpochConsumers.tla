--------------------------- MODULE EpochConsumers ---------------------------
(***************************************************************************)
(* Three consumers of the bus, each a process that may die at any moment:  *)
(* quellist-treasury-svc, and the bandwidth-meter and residue-collector of *)
(* workers/runner.  A handler is a sequence of steps, one for each         *)
(* statement it awaits; most failures of a statement are swallowed by a    *)
(* `.catch(() => {})`.  The meter has two subscriptions in one process,    *)
(* whose handlers interleave; what it counts lives in memory.              *)
(*                                                                         *)
(* Amounts are counted in units: one emission, one use.                    *)
(***************************************************************************)
EXTENDS Integers, Sequences, FiniteSetsExt

CONSTANTS
    Stacks,
    Desyncs,            \* sleeve.desync events that may come
    MaxEpoch,           \* bound: epoch transitions
    MaxMessages,        \* bound: messages on the stream
    MaxFaults           \* bound: statements and publishes that fail, deaths of a process,
                        \*        and acknowledgements that come late

ASSUME ConsumersAssumption == {MaxEpoch, MaxMessages, MaxFaults} \subseteq Nat

Durables == {"treasury-emit", "worker-bw", "worker-bw-flush", "worker-residue"}

\* The subjects of the subscriptions; the three of the meter that count are one.
Wants(d, message) ==
    message[1] = CASE d \in {"treasury-emit", "worker-bw-flush"} -> "epoch.transition"
                   [] d = "worker-bw" -> "use"
                   [] d = "worker-residue" -> "sleeve.desync"

VARIABLES
    stream, last, again, current, handed, faults,
    left,           \* treasury: stacks of its loop that are left
    emitting,       \* treasury: the stack between its two statements, or none, as a set
    emitted,        \* AuditLog: stack -> epoch -> rows treasury.emit
    stackEpoch,     \* Stack.epoch
    acc,            \* meter: stack -> uses not yet flushed
    flushed,        \* meter: stacks of its loop that have their row
    recorded,       \* AuditLog: stack -> uses in the rows bandwidth.consumed
    created,        \* collector: whether its handler is past the first statement
    residues,       \* Residue: the desyncs that have a row
    announced,      \* the desyncs of the coordination.residue.detected events
    disturbed       \* history: the meter died, failed, or counted while flushing

messageVars == <<stream, last, again, current, handed>>
busVars == <<messageVars, faults>>
treasuryVars == <<left, emitting, emitted, stackEpoch>>
meterVars == <<acc, flushed, recorded, disturbed>>
collectorVars == <<created, residues, announced>>
vars == <<busVars, treasuryVars, meterVars, collectorVars>>

Bus == INSTANCE AxonalBus

Init ==
    /\ Bus!BusInit
    /\ left = {}
    /\ emitting = {}
    /\ emitted = [s \in Stacks |-> [e \in 1 .. MaxEpoch |-> 0]]
    /\ stackEpoch = [s \in Stacks |-> 0]
    /\ acc = [s \in Stacks |-> 0]
    /\ flushed = {}
    /\ recorded = [s \in Stacks |-> 0]
    /\ created = FALSE
    /\ residues = {}
    /\ announced = {}
    /\ disturbed = FALSE

Fails == Bus!Fault
Works == Bus!NoFault
Room == Len(stream) < MaxMessages
Count(kind) == Cardinality({i \in DOMAIN stream : stream[i][1] = kind})

-----------------------------------------------------------------------------
(* What other services publish.                                             *)

Transition ==
    /\ Count("epoch.transition") < MaxEpoch /\ Room
    /\ Bus!Publish(<<"epoch.transition", Count("epoch.transition") + 1>>)
    /\ UNCHANGED <<treasuryVars, meterVars, collectorVars>>

Use(s) ==
    /\ Room
    /\ Bus!Publish(<<"use", s>>)
    /\ UNCHANGED <<treasuryVars, meterVars, collectorVars>>

Desync(x) ==
    /\ Room /\ \A i \in DOMAIN stream : stream[i] # <<"sleeve.desync", x>>
    /\ Bus!Publish(<<"sleeve.desync", x>>)
    /\ UNCHANGED <<treasuryVars, meterVars, collectorVars>>

-----------------------------------------------------------------------------
(* quellist-treasury-svc.                                                   *)

EpochOf(d) == Bus!Handling(d)[2]

TreasuryBegin ==
    /\ Bus!Deliver("treasury-emit")
    /\ left' = Stacks
    /\ UNCHANGED <<emitting, emitted, stackEpoch, meterVars, collectorVars>>

\* findMany throws, and the message goes back.
TreasuryThrows ==
    /\ Bus!Busy("treasury-emit") /\ left = Stacks /\ emitting = {}
    /\ Bus!Nak("treasury-emit")
    /\ left' = {}
    /\ UNCHANGED <<emitting, emitted, stackEpoch, meterVars, collectorVars>>

\* Mutated form of TreasuryEmit: a stack gets its row twice.
TreasuryEmitTwice(s) ==
    /\ Bus!Busy("treasury-emit") /\ emitting = {} /\ s \in left
    /\ emitting' = {s}
    /\ Works /\ emitted' = [emitted EXCEPT ![s][EpochOf("treasury-emit")] = @ + 2]
    /\ UNCHANGED <<messageVars, left, stackEpoch, meterVars, collectorVars>>

\* One turn of the loop: the audit row, ...
TreasuryEmit(s) ==
    /\ Bus!Busy("treasury-emit") /\ emitting = {} /\ s \in left
    /\ emitting' = {s}
    /\ \/ Works /\ emitted' = [emitted EXCEPT ![s][EpochOf("treasury-emit")] = @ + 1]
       \/ Fails /\ UNCHANGED emitted
    /\ UNCHANGED <<messageVars, left, stackEpoch, meterVars, collectorVars>>

\* Mutated form of TreasuryUpdate: a failure clears the epoch.
TreasuryUpdateClears(s) ==
    /\ Bus!Busy("treasury-emit") /\ s \in emitting
    /\ emitting' = {}
    /\ left' = left \ {s}
    /\ \/ Works /\ stackEpoch' = [stackEpoch EXCEPT ![s] = EpochOf("treasury-emit")]
       \/ Fails /\ stackEpoch' = [stackEpoch EXCEPT ![s] = 0]
    /\ UNCHANGED <<messageVars, emitted, meterVars, collectorVars>>

\* ... then the stack's epoch.
TreasuryUpdate(s) ==
    /\ Bus!Busy("treasury-emit") /\ s \in emitting
    /\ emitting' = {}
    /\ left' = left \ {s}
    /\ \/ Works /\ stackEpoch' = [stackEpoch EXCEPT ![s] = EpochOf("treasury-emit")]
       \/ Fails /\ UNCHANGED stackEpoch
    /\ UNCHANGED <<messageVars, emitted, meterVars, collectorVars>>

TreasuryDone ==
    /\ Bus!Busy("treasury-emit") /\ left = {}
    /\ Bus!Ack("treasury-emit")
    /\ UNCHANGED <<treasuryVars, meterVars, collectorVars>>

-----------------------------------------------------------------------------
(* workers/runner, bandwidth-meter.                                         *)

\* The handler of a use awaits nothing.
Bump ==
    /\ Bus!Deliver("worker-bw")
    /\ acc' = [acc EXCEPT ![stream[current'["worker-bw"]][2]] = @ + 1]
    /\ disturbed' = (disturbed \/ Bus!Busy("worker-bw-flush"))
    /\ UNCHANGED <<treasuryVars, flushed, recorded, collectorVars>>

BumpDone ==
    /\ Bus!Busy("worker-bw")
    /\ Bus!Ack("worker-bw")
    /\ UNCHANGED <<treasuryVars, meterVars, collectorVars>>

FlushBegin ==
    /\ Bus!Deliver("worker-bw-flush")
    /\ flushed' = {}
    /\ UNCHANGED <<treasuryVars, acc, recorded, disturbed, collectorVars>>

\* The loop meets the entries that are there by now, those added meanwhile included.
FlushRow(s) ==
    /\ Bus!Busy("worker-bw-flush") /\ acc[s] > 0 /\ s \notin flushed
    /\ flushed' = flushed \cup {s}
    /\ \/ Works /\ recorded' = [recorded EXCEPT ![s] = @ + acc[s]] /\ UNCHANGED disturbed
       \/ Fails /\ UNCHANGED recorded /\ disturbed' = TRUE
    /\ UNCHANGED <<messageVars, treasuryVars, acc, collectorVars>>

\* Mutated form of FlushDone: the counts are kept.
FlushDoneKeeps ==
    /\ Bus!Busy("worker-bw-flush") /\ \A s \in Stacks : acc[s] > 0 => s \in flushed
    /\ flushed' = {}
    /\ Bus!Ack("worker-bw-flush")
    /\ UNCHANGED <<treasuryVars, acc, recorded, disturbed, collectorVars>>

FlushDone ==
    /\ Bus!Busy("worker-bw-flush") /\ \A s \in Stacks : acc[s] > 0 => s \in flushed
    /\ acc' = [s \in Stacks |-> 0]
    /\ flushed' = {}
    /\ Bus!Ack("worker-bw-flush")
    /\ UNCHANGED <<treasuryVars, recorded, disturbed, collectorVars>>

-----------------------------------------------------------------------------
(* workers/runner, residue-collector.                                       *)

CollectorBegin ==
    /\ Bus!Deliver("worker-residue")
    /\ created' = FALSE
    /\ UNCHANGED <<treasuryVars, meterVars, residues, announced>>

DesyncOf == Bus!Handling("worker-residue")[2]

\* The id is made from the event, so a second row for it is refused, silently.
CollectorCreate ==
    /\ Bus!Busy("worker-residue") /\ ~created
    /\ created' = TRUE
    /\ \/ Works /\ residues' = residues \cup {DesyncOf}
       \/ Fails /\ UNCHANGED residues
    /\ UNCHANGED <<messageVars, treasuryVars, meterVars, announced>>

CollectorAnnounce ==
    /\ Bus!Busy("worker-residue") /\ created
    /\ announced' = announced \cup {DesyncOf}
    /\ created' = FALSE
    /\ Bus!Ack("worker-residue")
    /\ UNCHANGED <<treasuryVars, meterVars, residues>>

\* publish throws, and the message goes back.
CollectorThrows ==
    /\ Bus!Busy("worker-residue") /\ created
    /\ created' = FALSE
    /\ Bus!Nak("worker-residue")
    /\ UNCHANGED <<treasuryVars, meterVars, residues, announced>>

-----------------------------------------------------------------------------
Expire(d) ==
    /\ Bus!AckWaitExpires(d)
    /\ UNCHANGED <<treasuryVars, meterVars, collectorVars>>

TreasuryCrash ==
    /\ Bus!Drop({"treasury-emit"})
    /\ left' = {} /\ emitting' = {}
    /\ UNCHANGED <<emitted, stackEpoch, meterVars, collectorVars>>

MeterCrash ==
    /\ Bus!Drop({"worker-bw", "worker-bw-flush"})
    /\ acc' = [s \in Stacks |-> 0] /\ flushed' = {} /\ disturbed' = TRUE
    /\ UNCHANGED <<treasuryVars, recorded, collectorVars>>

CollectorCrash ==
    /\ Bus!Drop({"worker-residue"})
    /\ created' = FALSE
    /\ UNCHANGED <<treasuryVars, meterVars, residues, announced>>

Treasury == TreasuryBegin \/ TreasuryThrows \/ TreasuryDone \/ \E s \in Stacks : TreasuryEmit(s) \/ TreasuryUpdate(s)
Bumps == Bump \/ BumpDone
Flush == FlushBegin \/ FlushDone \/ \E s \in Stacks : FlushRow(s)
Collector == CollectorBegin \/ CollectorCreate \/ CollectorAnnounce \/ CollectorThrows

Next ==
    \/ Transition
    \/ \E s \in Stacks : Use(s)
    \/ \E x \in Desyncs : Desync(x)
    \/ Treasury \/ Bumps \/ Flush \/ Collector
    \/ \E d \in Durables : Expire(d)
    \/ TreasuryCrash \/ MeterCrash \/ CollectorCrash

\* Each process runs: the bus delivers what is due, and what a handler awaits ends.
Fairness == WF_vars(Treasury) /\ WF_vars(Bumps) /\ WF_vars(Flush) /\ WF_vars(Collector)

Spec == Init /\ [][Next]_vars /\ Fairness

-----------------------------------------------------------------------------
TypeOK ==
    /\ Bus!BusTypeOK
    /\ emitting \subseteq left /\ left \subseteq Stacks
    /\ left # {} => Bus!Busy("treasury-emit")
    /\ stackEpoch \in [Stacks -> 0 .. MaxEpoch]
    /\ created => Bus!Busy("worker-residue")

\* The sum of the counts at the places of a message.
Tally(messages, counts, message) ==
    LET upTo[n \in 0 .. Len(messages)] ==
            IF n = 0 THEN 0 ELSE upTo[n - 1] + IF messages[n] = message THEN counts[n] ELSE 0
    IN  upTo[Len(messages)]

\* How often a message was handed to durable d, all its places in the stream together.
Handed(d, message) == Tally(stream, handed[d], message)

\* A stack is paid for an epoch at most as often as the epoch was handed over: only a
\* redelivery pays twice, never the loop, a failure or a crash by itself.
EmissionPerDelivery ==
    /\ TypeOK
    /\ \A s \in Stacks, e \in 1 .. MaxEpoch :
        emitted[s][e] <= Handed("treasury-emit", <<"epoch.transition", e>>)

\* A stack's epoch falls only when an old transition is handed over again.
EpochsFallOnRedelivery ==
    [][\A s \in Stacks : stackEpoch'[s] < stackEpoch[s] =>
            \E i \in DOMAIN stream : handed["treasury-emit"][i] > 1]_vars

\* The audit log never shows more use of a stack than uses were handed to the meter,
\* and while the meter does not die or fail, and no use comes in during a flush, no less.
MeterAccounts ==
    \A s \in Stacks :
        LET used == Handed("worker-bw", <<"use", s>>)
        IN  /\ recorded[s] <= used
            /\ (~disturbed /\ ~Bus!Busy("worker-bw-flush")) => recorded[s] + acc[s] = used

\* Crashes, failures and late acknowledgements notwithstanding, every message is in the
\* end handled by all that want it,
AllSettle ==
    \A i \in 1 .. MaxMessages :
        (i \in DOMAIN stream) ~>
            (i \in DOMAIN stream /\ \A d \in Durables : Wants(d, stream[i]) => Bus!Settled(d, i))

\* and every residue that has a row is announced, though the row is written first.
ResiduesAnnounced == \A x \in Desyncs : x \in residues ~> x \in announced
=============================================================================
