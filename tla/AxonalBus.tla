------------------------------ MODULE AxonalBus ------------------------------
(***************************************************************************)
(* packages/bus: the JetStream stream that the services share, and the     *)
(* durable subscriptions over it.  A subscription hands one message at a   *)
(* time to its handler and acknowledges it when the handler returns; a     *)
(* handler that throws sends it back.  The server hands out new messages   *)
(* in order, and those that were sent back, or not acknowledged in time,   *)
(* again at any later moment.  The stream's limits are not reached.        *)
(***************************************************************************)
EXTENDS Integers, Sequences, FiniteSetsExt

CONSTANTS
    Durables,           \* names of durable consumers
    Wants(_, _),        \* whether a durable's subject matches a message
    MaxFaults           \* bound: acknowledgements that come late, and the faults of the subscribers

VARIABLES
    stream,             \* the messages published, in order
    last,               \* durable -> newest message handed over
    again,              \* durable -> messages to be handed over once more
    current,            \* durable -> message its handler is busy with, 0 if none
    handed,             \* history: durable -> message -> times handed over
    faults              \* faults so far

busVars == <<stream, last, again, current, handed, faults>>

BusInit ==
    /\ stream = <<>>
    /\ last = [d \in Durables |-> 0]
    /\ again = [d \in Durables |-> {}]
    /\ current = [d \in Durables |-> 0]
    /\ handed = [d \in Durables |-> <<>>]
    /\ faults = 0

Fault == faults < MaxFaults /\ faults' = faults + 1
NoFault == UNCHANGED faults

Publish(message) ==
    /\ stream' = Append(stream, message)
    /\ handed' = [d \in Durables |-> Append(handed[d], 0)]
    /\ UNCHANGED <<last, again, current, faults>>

New(d) == {i \in DOMAIN stream : i > last[d] /\ Wants(d, stream[i])}

\* Mutated form of Deliver: what was sent back is never handed over again.
DeliverNewOnly(d) ==
    /\ current[d] = 0
    /\ \E i \in {j \in New(d) : j = Min(New(d))} :
        /\ current' = [current EXCEPT ![d] = i]
        /\ last' = [last EXCEPT ![d] = Max({@, i})]
        /\ handed' = [handed EXCEPT ![d][i] = @ + 1]
    /\ UNCHANGED <<stream, again, faults>>

\* The next new message, or one that is due again.
Deliver(d) ==
    /\ current[d] = 0
    /\ \E i \in again[d] \cup {j \in New(d) : j = Min(New(d))} :
        /\ current' = [current EXCEPT ![d] = i]
        /\ last' = [last EXCEPT ![d] = Max({@, i})]
        /\ again' = [again EXCEPT ![d] = @ \ {i}]
        /\ handed' = [handed EXCEPT ![d][i] = @ + 1]
    /\ UNCHANGED <<stream, faults>>

\* A late acknowledgement may find the message already on its way again.
Ack(d) ==
    /\ current' = [current EXCEPT ![d] = 0]
    /\ again' \in {again, [again EXCEPT ![d] = @ \ {current[d]}]}
    /\ UNCHANGED <<stream, last, handed, faults>>

\* Mutated form of Nak: the message is dropped.
NakDrops(d) ==
    /\ current' = [current EXCEPT ![d] = 0]
    /\ Fault
    /\ UNCHANGED <<stream, last, again, handed>>

Nak(d) ==
    /\ current' = [current EXCEPT ![d] = 0]
    /\ again' = [again EXCEPT ![d] = @ \cup {current[d]}]
    /\ Fault
    /\ UNCHANGED <<stream, last, handed>>

\* The server waits no longer for the acknowledgement; the handler goes on.
AckWaitExpires(d) ==
    /\ current[d] # 0
    /\ Fault
    /\ again' = [again EXCEPT ![d] = @ \cup {current[d]}]
    /\ UNCHANGED <<stream, last, current, handed>>

\* The process that holds the durables of ds dies; what it had not acknowledged is due again.
Drop(ds) ==
    /\ current' = [d \in Durables |-> IF d \in ds THEN 0 ELSE current[d]]
    /\ again' = [d \in Durables |-> IF d \in ds THEN again[d] \cup ({current[d]} \ {0}) ELSE again[d]]
    /\ Fault
    /\ UNCHANGED <<stream, last, handed>>

Handling(d) == stream[current[d]]
Busy(d) == current[d] # 0
Settled(d, i) == i <= last[d] /\ i \notin again[d] /\ current[d] # i

-----------------------------------------------------------------------------
\* A message is handed over again only for a reason: it went back, or its time ran out.
BusTypeOK ==
    \A d \in Durables :
        /\ last[d] \in 0 .. Len(stream)
        /\ again[d] \subseteq 1 .. last[d]
        /\ current[d] \in 0 .. last[d]
        /\ \A i \in DOMAIN stream : handed[d][i] > 0 => Wants(d, stream[i]) /\ i <= last[d]
=============================================================================
