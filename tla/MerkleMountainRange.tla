------------------------- MODULE MerkleMountainRange -------------------------
(***************************************************************************)
(* The two implementations of the Synaptic Field: mmr.go in medulla-pow    *)
(* and SynapticFieldMMR in packages/crypto.  Hashes are terms: hashLeaf of *)
(* x is <<x>>, hashNode of l and r is <<l, r>>, so two hashes are equal    *)
(* exactly when they were computed from the same data in the same way.     *)
(***************************************************************************)
EXTENDS Integers, Sequences, SequencesExt, FiniteSetsExt

HashLeaf(x) == <<x>>
HashNode(l, r) == <<l, r>>

EmptyField == [peaks |-> <<>>, count |-> 0]

\* The hash of the empty string, the root of a field without peaks.
EmptyRoot == <<>>

\* n >> h, and the lowest bit of it.
Shifted(n, h) ==
    LET by[k \in 0 .. h] == IF k = 0 THEN n ELSE by[k - 1] \div 2
    IN  by[h]

Bit(n, h) == Shifted(n, h) % 2

\* Mutated form of Merges: the last carry is skipped.
MergesOneShort(n, len, minPeaks) ==
    Max({0, Min({Max({0, len - minPeaks + 1})} \cup {h \in 0 .. len : Bit(n, h) = 1}) - 1})

\* Iterations of the merge loop when the n-th leaf meets len peaks: it goes on while
\* minPeaks peaks are left and the bit of n at the height reached is 0.
Merges(n, len, minPeaks) ==
    Min({Max({0, len - minPeaks + 1})} \cup {h \in 0 .. len : Bit(n, h) = 1})

\* A leaf carried over peaks: it merges with them from the right to the left.
Carry(peaks, leaf) ==
    LET merged[k \in 0 .. Len(peaks)] ==
            IF k = 0 THEN leaf ELSE HashNode(peaks[Len(peaks) - k + 1], merged[k - 1])
    IN  merged[Len(peaks)]

\* Mutated form of Push: a carry puts the new leaf on the left.
PushSwapsSides(m, x, minPeaks) ==
    LET n == m.count + 1
        kept == Len(m.peaks) - Merges(n, Len(m.peaks), minPeaks)
        carried == FoldLeft(HashNode, HashLeaf(x), SubSeq(m.peaks, kept + 1, Len(m.peaks)))
    IN  [peaks |-> Append(SubSeq(m.peaks, 1, kept), carried), count |-> n]

\* Push the leaf carried over the peaks it merges with.
Push(m, x, minPeaks) ==
    LET n == m.count + 1
        kept == Len(m.peaks) - Merges(n, Len(m.peaks), minPeaks)
        carried == Carry(SubSeq(m.peaks, kept + 1, Len(m.peaks)), HashLeaf(x))
    IN  [peaks |-> Append(SubSeq(m.peaks, 1, kept), carried), count |-> n]

\* MMR.Append of mmr.go: beyond maxLeaves (0: unbounded) the oldest peak is dropped.
AppendLeaf(m, x, maxLeaves) ==
    LET pushed == Push(m, x, 1)
    IN  IF maxLeaves > 0 /\ pushed.count > maxLeaves /\ Len(pushed.peaks) > 1
            THEN [pushed EXCEPT !.peaks = Tail(@)]
            ELSE pushed

\* SynapticFieldMMR.append of packages/crypto: two peaks are needed to merge.
AppendLeafTs(m, x) == Push(m, x, 2)

\* Bag the peaks, right to left.
Root(m) ==
    IF m.peaks = <<>> THEN EmptyRoot
    ELSE Carry(Front(m.peaks), Last(m.peaks))
=============================================================================
