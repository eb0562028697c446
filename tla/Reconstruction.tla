--------------------------- MODULE Reconstruction ----------------------------
(***************************************************************************)
(* The memory of one stack over its life: siyana-api writes it fragment by *)
(* fragment, quellist-treasury moves the stack's epoch, dhf-compositor     *)
(* reads it back, needlecast-router and the pinning-service pin it, the    *)
(* memory-reconciler looks after it; all over the lattice of hippod.       *)
(*                                                                         *)
(* What is between two awaits is one step.  A fragment is encrypted under  *)
(* the key of the epoch it carries, with a random iv: decrypting it under  *)
(* the key of another epoch throws, and no fragment is ever put twice.     *)
(***************************************************************************)
EXTENDS Recall

CONSTANTS
    None,
    Stack,          \* the stack's id
    Writers,        \* requests that write: remember, or perceive
    MaxReads,       \* bound: reconstructions, needlecasts and passes of the reconciler at a time
    MaxFaults       \* bound: statements that fail, requests that die, restarts of hippod

ASSUME ReconstructionAssumption == {MaxReads, MaxFaults} \subseteq Nat /\ None \notin Cids

VARIABLES
    row,            \* the stack's row: episodicHead and epoch
    writer,         \* requests that write
    compositor,     \* a request to /v1/reconstruct
    cast,           \* the needlecast saga: its shards, and those left to pin
    route,          \* the pinning-service: shards of its event, and those left to pin
    reconciler,     \* what its pass has read, and the CIDs left to pin
    faults,         \* faults so far
    written,        \* history: CIDs ever put
    turnedBack,     \* history: an old transition was handled after a later one
    refused         \* history: who was refused a pin of what hippod held

rowVars == <<row, turnedBack>>
memoryVars == <<rowVars, writer, compositor, cast, route, reconciler, faults, written, refused>>
allVars == <<vars, memoryVars>>

Off == [at |-> "off"]
Fault == faults < MaxFaults /\ faults' = faults + 1

MemoryInit ==
    /\ Init
    /\ row = [head |-> None, epoch |-> 0]
    /\ writer = [w \in Writers |-> Off]
    /\ compositor = Off /\ cast = Off /\ route = Off /\ reconciler = Off
    /\ faults = 0
    /\ written = {}
    /\ turnedBack = FALSE
    /\ refused = {}

Room == Cardinality({n \in 1 .. 3 : <<compositor, cast, reconciler>>[n] # Off}) < MaxReads

\* The elements of a sequence that are in S, in order: SelectSeq for a set.
Picked(seq, S) ==
    LET picked[i \in 0 .. Len(seq)] ==
            IF i = 0 THEN <<>>
            ELSE IF seq[i] \in S THEN Append(picked[i - 1], seq[i]) ELSE picked[i - 1]
    IN  picked[Len(seq)]

\* What the readers of the row ask hippod for.
Request(read, depth, token) ==
    [root |-> read.head, stack |-> Stack, epoch |-> read.epoch, depth |-> depth, token |-> token]

-----------------------------------------------------------------------------
(* siyana-api: remember, and the same steps of perceive.                    *)

WriteRead(w) ==
    /\ writer[w] = Off
    /\ writer' = [writer EXCEPT ![w] = [at |-> "put", head |-> row.head, epoch |-> row.epoch]]
    /\ UNCHANGED <<vars, rowVars, compositor, cast, route, reconciler, faults, written, refused>>

\* Mutated form of WritePut: the head is read again, the epoch is not.
WritePutRelinked(w, c, pin) ==
    /\ writer[w].at = "put" /\ c \notin written
    /\ content[c] = [stack |-> Stack, epoch |-> writer[w].epoch, kind |-> "episodic",
                     links |-> IF row.head = None THEN <<>> ELSE <<row.head>>]
    /\ Put(c, pin)
    /\ written' = written \cup {c}
    /\ writer' = [writer EXCEPT ![w] = [at |-> "write", cid |-> c]]
    /\ UNCHANGED <<rowVars, compositor, cast, route, reconciler, faults, refused>>

\* Mutated form of WritePut: the iv is made from the text.
WritePutSameIv(w, c, pin) ==
    /\ writer[w].at = "put"
    /\ content[c] = [stack |-> Stack, epoch |-> writer[w].epoch, kind |-> "episodic",
                     links |-> IF writer[w].head = None THEN <<>> ELSE <<writer[w].head>>]
    /\ Put(c, pin)
    /\ written' = written \cup {c}
    /\ writer' = [writer EXCEPT ![w] = [at |-> "write", cid |-> c]]
    /\ UNCHANGED <<rowVars, compositor, cast, route, reconciler, faults, refused>>

\* The fragment links to the head that was read and is encrypted for the epoch that was.
WritePut(w, c, pin) ==
    /\ writer[w].at = "put" /\ c \notin written
    /\ content[c] = [stack |-> Stack, epoch |-> writer[w].epoch, kind |-> "episodic",
                     links |-> IF writer[w].head = None THEN <<>> ELSE <<writer[w].head>>]
    /\ Put(c, pin)
    /\ written' = written \cup {c}
    /\ writer' = [writer EXCEPT ![w] = [at |-> "write", cid |-> c]]
    /\ UNCHANGED <<rowVars, compositor, cast, route, reconciler, faults, refused>>

WriteHead(w) ==
    /\ writer[w].at = "write"
    /\ row' = [row EXCEPT !.head = writer[w].cid]
    /\ writer' = [writer EXCEPT ![w] = Off]
    /\ UNCHANGED <<vars, turnedBack, compositor, cast, route, reconciler, faults, written, refused>>

\* quellist-treasury: the stack takes the epoch of the event, whichever comes.
TakeEpoch(e) ==
    /\ row' = [row EXCEPT !.epoch = e]
    /\ turnedBack' = (turnedBack \/ e < row.epoch)
    /\ UNCHANGED <<vars, writer, compositor, cast, route, reconciler, faults, written, refused>>

-----------------------------------------------------------------------------
(* dhf-compositor.                                                          *)

\* Without a head there is nothing to do; without a sleeve the token is the depth.
ReconstructRead(depth, token) ==
    /\ compositor = Off /\ row.head # None /\ Room
    /\ compositor' = [at |-> "recall", request |-> Request(row, depth, token)]
    /\ UNCHANGED <<vars, rowVars, writer, cast, route, reconciler, faults, written, refused>>

\* The fragments that the key of an epoch decrypts; the others carry an error.
Decoded(fragments, epoch) == Picked(fragments, {c \in Cids : content[c].epoch = epoch})

\* Go answers null for an empty list, and iterating over null throws.
ReconstructAnswer ==
    /\ compositor.at = "recall"
    /\ LET r == RecallOf(compositor.request)
       IN  compositor' = IF r.fragments = <<>>
                         THEN [at |-> "failed", broken |-> r.broken]
                         ELSE [at |-> "answered", fragments |-> r.fragments,
                               decoded |-> Decoded(r.fragments, compositor.request.epoch)]
    /\ UNCHANGED <<vars, rowVars, writer, cast, route, reconciler, faults, written, refused>>

ReconstructDone ==
    /\ compositor.at \in {"answered", "failed"}
    /\ compositor' = Off
    /\ UNCHANGED <<vars, rowVars, writer, cast, route, reconciler, faults, written, refused>>

-----------------------------------------------------------------------------
(* Pins: those of the saga, of the pinning-service and of the reconciler.   *)

\* hippod refuses what it does not hold; every caller swallows a refusal.
PinOrNot(who, c) ==
    \/ c \in Stored /\ Pin(c) /\ UNCHANGED <<faults, refused>>
    \/ c \notin Stored /\ UNCHANGED <<vars, faults, refused>>
    \/ c \in Stored /\ Fault /\ refused' = refused \cup {<<who, c>>} /\ UNCHANGED vars

CastRead ==
    /\ cast = Off /\ row.head # None /\ Room
    /\ cast' = [at |-> "recall", request |-> Request(row, 8, 1000)]
    /\ UNCHANGED <<vars, rowVars, writer, compositor, route, reconciler, faults, written, refused>>

\* The saga throws on null as well.
CastRecall ==
    /\ cast.at = "recall"
    /\ LET shards == RecallOf(cast.request).fragments
       IN  cast' = IF shards = <<>> THEN Off ELSE [at |-> "pin", shards |-> shards, left |-> shards]
    /\ UNCHANGED <<vars, rowVars, writer, compositor, route, reconciler, faults, written, refused>>

CastPin ==
    /\ cast.at = "pin" /\ cast.left # <<>>
    /\ PinOrNot("cast", Head(cast.left))
    /\ cast' = [cast EXCEPT !.left = Tail(@)]
    /\ UNCHANGED <<rowVars, writer, compositor, route, reconciler, written>>

\* The event goes to the bus, and with it the shards to the pinning-service, which takes
\* one event at a time.
CastRoute ==
    /\ cast.at = "pin" /\ cast.left = <<>> /\ route.at # "pin"
    /\ route' = [at |-> "pin", shards |-> cast.shards, left |-> cast.shards]
    /\ cast' = Off
    /\ UNCHANGED <<vars, rowVars, writer, compositor, reconciler, faults, written, refused>>

\* Mutated form of PinShard: the last shard is left out.
PinShardButLast ==
    /\ route.at = "pin" /\ Len(route.left) > 1
    /\ PinOrNot("pinning-service", Head(route.left))
    /\ route' = IF Len(route.left) = 2 THEN [at |-> "done", shards |-> route.shards]
                ELSE [route EXCEPT !.left = Tail(@)]
    /\ UNCHANGED <<rowVars, writer, compositor, cast, reconciler, written>>

PinShard ==
    /\ route.at = "pin"
    /\ PinOrNot("pinning-service", Head(route.left))
    /\ route' = IF Len(route.left) = 1 THEN [at |-> "done", shards |-> route.shards]
                ELSE [route EXCEPT !.left = Tail(@)]
    /\ UNCHANGED <<rowVars, writer, compositor, cast, reconciler, written>>

ReconcileRead ==
    /\ reconciler = Off /\ row.head # None /\ Room
    /\ reconciler' = [at |-> "recall", request |-> Request(row, 4, 100)]
    /\ UNCHANGED <<vars, rowVars, writer, compositor, cast, route, faults, written, refused>>

\* Only the CIDs that hippod does not hold come back without a reason attached.
ReconcileRecall ==
    /\ reconciler.at = "recall"
    /\ LET missing == Picked(RecallOf(reconciler.request).broken, Cids \ Stored)
       IN  reconciler' = IF missing = <<>> THEN Off ELSE [at |-> "pin", left |-> missing]
    /\ UNCHANGED <<vars, rowVars, writer, compositor, cast, route, faults, written, refused>>

ReconcilePin ==
    /\ reconciler.at = "pin"
    /\ PinOrNot("reconciler", Head(reconciler.left))
    /\ reconciler' = IF Len(reconciler.left) = 1 THEN Off ELSE [reconciler EXCEPT !.left = Tail(@)]
    /\ UNCHANGED <<rowVars, writer, compositor, cast, route, written>>

-----------------------------------------------------------------------------
(* Failures.                                                                *)

\* A statement throws, or the process dies: the request ends where it is.
WriteEnds(w) ==
    /\ writer[w] # Off /\ Fault
    /\ writer' = [writer EXCEPT ![w] = Off]
    /\ UNCHANGED <<vars, rowVars, compositor, cast, route, reconciler, written, refused>>

CastEnds ==
    /\ cast # Off /\ Fault
    /\ cast' = Off
    /\ UNCHANGED <<vars, rowVars, writer, compositor, route, reconciler, written, refused>>

\* The pass swallows a recall that fails; the event is handed over again after a death.
PassEnds ==
    /\ reconciler # Off /\ Fault
    /\ reconciler' = Off
    /\ UNCHANGED <<vars, rowVars, writer, compositor, cast, route, written, refused>>

RouteAgain ==
    /\ route.at = "pin" /\ route.left # route.shards /\ Fault
    /\ route' = [route EXCEPT !.left = route.shards]
    /\ UNCHANGED <<vars, rowVars, writer, compositor, cast, reconciler, written, refused>>

HippodRestart ==
    /\ Restart /\ Fault
    /\ UNCHANGED <<rowVars, writer, compositor, cast, route, reconciler, written, refused>>

MemoryNext ==
    \/ \E w \in Writers :
        \/ WriteRead(w) \/ WriteHead(w) \/ WriteEnds(w)
        \/ \E c \in Cids, pin \in BOOLEAN : WritePut(w, c, pin)
    \/ \E e \in Epochs : TakeEpoch(e)
    \/ \E depth \in Depths, token \in Tokens : ReconstructRead(depth, token)
    \/ ReconstructAnswer \/ ReconstructDone
    \/ CastRead \/ CastRecall \/ CastPin \/ CastRoute \/ CastEnds
    \/ PinShard \/ RouteAgain
    \/ ReconcileRead \/ ReconcileRecall \/ ReconcilePin \/ PassEnds
    \/ HippodRestart

MemorySpec == MemoryInit /\ [][MemoryNext]_allVars
-----------------------------------------------------------------------------
\* Writers that overlap each other and the transitions notwithstanding, epochs never
\* rise along the links, so that of what a reconstruction returns it decodes the newest
\* part and nothing after the first error; unless an old transition was handled again.
DecodesNewest ==
    ~turnedBack =>
        /\ \A c \in Stored : \A l \in Range(content[c].links) : content[l].epoch <= content[c].epoch
        /\ compositor.at = "answered" => IsPrefix(compositor.decoded, compositor.fragments)

\* Once a needlecast's event is handled, its shards are found from the first of them on
\* at every epoch, for as long as hippod lives and unless both pins of one were refused.
BondHolds ==
    route.at = "done" =>
        LET shards == Range(route.shards)
            bonded == \A c \in shards : c \in Stored /\ ~({"cast", "pinning-service"} \X {c} \subseteq refused)
        IN  bonded => \A e \in Epochs :
                shards \subseteq Range(RecallOf([root |-> Head(route.shards), stack |-> Stack, epoch |-> e,
                                                 depth |-> 8, token |-> 1000]).fragments)

\* What the reconciler sets out to pin is gone for good: no pass of it heals anything.
NothingToHeal ==
    reconciler.at = "pin" => Range(reconciler.left) \cap Stored = {}
=============================================================================
