---------------------------- MODULE SynapticField ----------------------------
(***************************************************************************)
(* What the field of a Medulla chain commits to: the incremental range of  *)
(* mmr.go, and the TypeScript range of packages/crypto over the same       *)
(* leaves, against a reference computed from the leaves themselves.        *)
(***************************************************************************)
EXTENDS Medulla, MerkleTree

\* The TypeScript field of a client that appends the same leaves as the chain.
Mirror(s) ==
    LET mirror[n \in 0 .. Len(s)] ==
            IF n = 0 THEN EmptyField ELSE AppendLeafTs(mirror[n - 1], s[n])
    IN  mirror[Len(s)]

\* A row of hashes with every node replaced by its two sides.
Sides(t) == IF Len(t) = 2 THEN <<t[1], t[2]>> ELSE <<t>>

Opened(row) ==
    LET open[n \in 0 .. Len(row)] == IF n = 0 THEN <<>> ELSE open[n - 1] \o Sides(row[n])
    IN  open[Len(row)]

\* What row becomes when it is opened d times: with d at least the leaves under it, leaves only.
Below(row, d) ==
    LET level[n \in 0 .. d] == IF n = 0 THEN row ELSE Opened(level[n - 1])
    IN  level[d]

\* The leaves under the peaks, left to right.
Covered(m) ==
    LET row == Below(m.peaks, m.count) IN [i \in 1 .. Len(row) |-> row[i][1]]

\* Reference: the perfect trees over the blocks of 2^h leaves, counted from 0, and the peaks
\* of the range over the leaves s, one for each bit of their number, the highest first.
PerfectTrees(s, h) ==
    LET trees[k \in 0 .. h] ==
            IF k = 0 THEN [i \in Nat |-> HashLeaf(s[i + 1])]
            ELSE [i \in Nat |-> HashNode(trees[k - 1][2 * i], trees[k - 1][2 * i + 1])]
    IN  trees[h]

PerfectTree(s, h, b) == PerfectTrees(s, h)[b]

\* Those of the peaks that are lower than b.
PeaksBelow(s, b) ==
    LET n == Len(s)
        peaks[h \in 0 .. b] ==
            IF h = 0 THEN <<>>
            ELSE IF Bit(n, h - 1) = 1
                THEN <<PerfectTree(s, h - 1, Shifted(n, h - 1) - 1)>> \o peaks[h - 1]
            ELSE peaks[h - 1]
    IN  peaks[b]

PeaksOf(s) == PeaksBelow(s, Len(s))

-----------------------------------------------------------------------------
\* Until the window is full the incremental range is the Merkle Mountain Range of its
\* leaves, peak by peak, though no append looks further than its own carries.  Whatever
\* was dropped after that, the field covers an unbroken run of leaves that ends with the
\* newest, in perfect trees: a root never skips a leaf or reorders two, and no later
\* carry merges into a dropped peak as if it were still there.
IsMountainRange ==
    /\ field.count <= MaxLeaves => field.peaks = PeaksOf(leaves)
    /\ \E i \in DOMAIN leaves : Covered(field) = SubSeq(leaves, i, Len(leaves))
    /\ \A i \in DOMAIN field.peaks :
          \E h \in 0 .. Len(leaves) : \E b \in 0 .. Shifted(Len(leaves), h) - 1 :
              field.peaks[i] = PerfectTree(leaves, h, b)

\* The TypeScript field, whose peaks differ from the chain's, still covers every leaf
\* ever appended, each once and in order.
MirrorCoversAll == Covered(Mirror(leaves)) = leaves

\* The Merkle tree over the same leaves: the proof of every leaf verifies at its place,
\* and no other leaf does with it.  As an odd layer repeats its last node, an event folded
\* once more after an odd number of others goes unseen in the root; a last leaf that
\* differs from the one before it never does.
ProofsVerify ==
    LET root == MerkleRoot(leaves)
        n == Len(leaves)
        repeats == n > 2 /\ leaves[n] = leaves[n - 1]
    IN  /\ \A i \in DOMAIN leaves, t \in Tuples :
              VerifyMerkleProof(t, MerkleProof(leaves, i - 1), root) <=> t = leaves[i]
        /\ repeats /\ n % 2 = 0 => MerkleRoot(Front(leaves)) = root
        /\ ~repeats => MerkleRoot(Front(leaves)) # root
=============================================================================
