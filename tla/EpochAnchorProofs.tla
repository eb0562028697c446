------------------------- MODULE EpochAnchorProofs -------------------------
(***************************************************************************)
(* Proofs about EpochAnchor.sol, for any set of accounts, roots and field  *)
(* roots and any word width.  The inductive invariant is the conjunction   *)
(* of the type invariant, HeadIsNewest and HeightsFollowEpochs: the guards *)
(* of commitAnchor read only head and lastMedullaHeight, so monotonicity   *)
(* of the whole mapping needs the invariant that these two scalars bound   *)
(* every anchor.                                                           *)
(***************************************************************************)
EXTENDS EpochAnchor, TLAPS

IInv == TypeOK /\ HeadIsNewest /\ HeightsFollowEpochs

\* The zero value of the mapping is not an anchor.
LEMMA NoAnchorIsNone == NoAnchor \notin Anchor
  BY DEF NoAnchor, Anchor

LEMMA InitIInv == Init => IInv
  BY WidthAssumption
  DEF Init, IInv, TypeOK, HeadIsNewest, HeightsFollowEpochs, Anchored, Uint

\* commitAnchor keeps the mapping bounded by the two scalars and increasing.
LEMMA CommitKeepsIInv ==
  ASSUME IInv,
         NEW sender \in Accounts, NEW epoch \in Uint, NEW height \in Uint,
         NEW root \in Roots, NEW field \in Fields,
         CommitAnchor(sender, epoch, root, field, height)
  PROVE  IInv'
<1> DEFINE new == [root |-> root, field |-> field, height |-> height]
<1>1. /\ byEpoch' = [byEpoch EXCEPT ![epoch] = new]
      /\ head' = epoch /\ lastMedullaHeight' = height /\ bridgers' = bridgers
      /\ epoch > head \/ head = 0
      /\ height > lastMedullaHeight
  BY DEF CommitAnchor, CanCommit
<1>2. new \in Anchor /\ new # NoAnchor /\ new.height = height
  BY NoAnchorIsNone DEF Anchor
<1>3. TypeOK'
  BY <1>1, <1>2 DEF IInv, TypeOK
<1>4. /\ byEpoch'[epoch] = new
      /\ \A e \in Uint : e # epoch => byEpoch'[e] = byEpoch[e]
  BY <1>1 DEF IInv, TypeOK
<1>5. \A e \in Uint : Anchored(e)' /\ e # epoch =>
         Anchored(e) /\ e < epoch /\ byEpoch[e].height < height
  <2> SUFFICES ASSUME NEW e \in Uint, Anchored(e)', e # epoch
               PROVE  Anchored(e) /\ e < epoch /\ byEpoch[e].height < height
    OBVIOUS
  <2>1. Anchored(e) /\ byEpoch[e] \in Anchor
    BY <1>4 DEF Anchored, IInv, TypeOK
  <2>2. e <= head /\ byEpoch[e].height <= lastMedullaHeight
    BY <2>1 DEF IInv, HeadIsNewest
  <2>3. /\ head \in Int /\ lastMedullaHeight \in Int /\ e \in Int /\ e >= 0
        /\ epoch \in Int /\ epoch >= 0 /\ height \in Int /\ byEpoch[e].height \in Int
    BY <2>1, WidthAssumption DEF IInv, TypeOK, Uint, Anchor
  <2> QED BY <1>1, <2>1, <2>2, <2>3
<1>6. HeadIsNewest'
  <2>3. Anchored(head)'
    BY <1>1, <1>2, <1>4 DEF Anchored
  <2> SUFFICES ASSUME NEW e \in Uint, Anchored(e)'
               PROVE  /\ e <= head' /\ byEpoch'[e].height <= lastMedullaHeight'
                      /\ e = head' => byEpoch'[e].height = lastMedullaHeight'
    BY <2>3 DEF HeadIsNewest
  <2>0. /\ e \in Int /\ epoch \in Int /\ height \in Int
    BY WidthAssumption DEF Uint
  <2>1. CASE e = epoch
    BY <2>0, <2>1, <1>1, <1>2, <1>4
  <2>2. CASE e # epoch
    <3>1. byEpoch[e] \in Anchor
      BY <1>4, <2>2 DEF Anchored, IInv, TypeOK
    <3>2. byEpoch[e].height \in Int
      BY <3>1, WidthAssumption DEF Anchor, Uint
    <3> QED BY <2>0, <2>2, <1>1, <1>4, <1>5, <3>2
  <2> QED BY <2>1, <2>2
<1>7. HeightsFollowEpochs'
  <2> SUFFICES ASSUME NEW e \in Uint, NEW f \in Uint,
                      Anchored(e)', Anchored(f)', e < f
               PROVE  byEpoch'[e].height < byEpoch'[f].height
    BY DEF HeightsFollowEpochs
  <2>0. e \in Int /\ f \in Int /\ epoch \in Int
    BY WidthAssumption DEF Uint
  <2>1. CASE f = epoch
    BY <2>0, <2>1, <1>2, <1>4, <1>5
  <2>2. CASE f # epoch /\ e # epoch
    BY <2>2, <1>4, <1>5 DEF IInv, HeightsFollowEpochs
  <2>3. CASE f # epoch /\ e = epoch
    BY <2>0, <2>3, <1>5
  <2> QED BY <2>1, <2>2, <2>3
<1> QED BY <1>3, <1>6, <1>7 DEF IInv

LEMMA StepKeepsIInv == IInv /\ [Next]_vars => IInv'
<1> SUFFICES ASSUME IInv, [Next]_vars PROVE IInv'
  OBVIOUS
<1>1. CASE Next
  <2>1. ASSUME NEW sender \in Accounts, NEW b \in Accounts, NEW ok \in BOOLEAN,
               SetBridger(sender, b, ok)
        PROVE  IInv'
    BY <2>1 DEF SetBridger, IInv, TypeOK, HeadIsNewest, HeightsFollowEpochs, Anchored
  <2> QED BY <1>1, <2>1, CommitKeepsIInv DEF Next
<1>2. CASE UNCHANGED vars
  BY <1>2 DEF vars, IInv, TypeOK, HeadIsNewest, HeightsFollowEpochs, Anchored
<1> QED BY <1>1, <1>2

\* Commits and changes of bridgers keep the types, the head at the newest anchor, and the
\* heights rising with the epochs: commitAnchor checks against lastMedullaHeight alone.
THEOREM InductiveInvariant == Spec => []IInv
<1> QED BY InitIInv, StepKeepsIInv, PTL DEF Spec

\* Every variable keeps its type: no commit leaves the mapping half-written.
THEOREM TypeCorrect == Spec => []TypeOK
<1>1. IInv => TypeOK BY DEF IInv
<1> QED BY <1>1, InductiveInvariant, PTL

\* The anchors on cortex form one chain of increasing medulla heights.
THEOREM AnchorsIncrease == Spec => [](HeightsFollowEpochs /\ HeadIsNewest)
<1>1. IInv => HeightsFollowEpochs /\ HeadIsNewest BY DEF IInv
<1> QED BY <1>1, InductiveInvariant, PTL

\* What verifyContinuity has said of an epoch at or below a head past epoch 0 is
\* never revised: later commits only write above the head.
THEOREM VerdictsAreFinal == Spec => VerdictIsFinal
<1> DEFINE Final == \A e \in Uint : (head > 0 /\ e <= head) =>
                        VerifyContinuity(e)' = VerifyContinuity(e)
<1>1. IInv /\ [Next]_vars => [Final]_vars
  <2> SUFFICES ASSUME IInv, Next, NEW e \in Uint, head > 0, e <= head
               PROVE  VerifyContinuity(e)' = VerifyContinuity(e)
    OBVIOUS
  <2>1. CASE byEpoch' = byEpoch
    BY <2>1 DEF VerifyContinuity, Anchored
  <2>2. ASSUME NEW sender \in Accounts, NEW epoch \in Uint, NEW height \in Uint,
               NEW root \in Roots, NEW field \in Fields,
               CommitAnchor(sender, epoch, root, field, height)
        PROVE  VerifyContinuity(e)' = VerifyContinuity(e)
    <3>1. epoch > head
      BY <2>2, WidthAssumption DEF CommitAnchor, CanCommit, IInv, TypeOK, Uint
    <3>2. /\ e \in Int /\ e >= 0 /\ e < epoch /\ e - 1 < epoch
          /\ epoch \in Int
          /\ e # 0 => e - 1 \in Uint
      BY <3>1, WidthAssumption DEF IInv, TypeOK, Uint
    <3>3. byEpoch'[e] = byEpoch[e] /\ (e # 0 => byEpoch'[e - 1] = byEpoch[e - 1])
      BY <2>2, <3>2 DEF CommitAnchor, IInv, TypeOK
    <3> QED BY <3>3 DEF VerifyContinuity, Anchored
  <2> QED BY <2>1, <2>2 DEF Next, SetBridger
<1> QED BY <1>1, InductiveInvariant, PTL DEF Spec, VerdictIsFinal
=============================================================================
