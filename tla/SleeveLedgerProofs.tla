-------------------------- MODULE SleeveLedgerProofs --------------------------
(***************************************************************************)
(* Proofs about the rows of the sleeves and the handlers that overwrite    *)
(* them, for any number of sleeves, calls, failures and windows, and any   *)
(* initial tokens and grants.  None of the properties is inductive by      *)
(* itself: what a call will write is a copy it read long ago, so the       *)
(* invariant is about the copies that calls hold as much as about the      *)
(* rows.  Calls that interleave keep the copies within what a sleeve got;  *)
(* served one at a time, they keep them equal to the rows.                 *)
(***************************************************************************)
EXTENDS SleeveLedger, NaturalsInduction, WellFoundedInduction, TLAPS

Balance == [Kinds -> Nat]
Rows == [Sleeves -> [alive : BOOLEAN, tokens : Balance]]

\* From the freezing on, a needlecast holds the source.
Holding == {"route", "reconstruct", "settle", "unfreeze", "rollback"}
Casting == {"freeze"} \cup Holding

Ended == [at : {"idle", "done"}]
Paying == [at : {"put", "synced", "target"}, from : Sleeves, tokens : Balance]
Perceived == [at : {"perceived"}, cid : Nat, from : Sleeves, tokens : Balance]
Remembered == [at : {"remembered"}, cid : Nat]
Saga == [at : Casting, from : Sleeves, tokens : Balance, to : Sleeves, ttokens : Balance]
Dripping == [at : {"drip"}, now : Nat, left : UNION {[S -> Balance] : S \in SUBSET Sleeves}]
Locals == Ended \cup Paying \cup Perceived \cup Remembered \cup Saga \cup Dripping

CallOK == call \in [Calls -> Locals]

CountsOK ==
    /\ window \in Nat /\ lastDrip \in Nat /\ errors \in Nat
    /\ granted \in [Sleeves -> Balance] /\ charged \in [Sleeves -> Balance]
    /\ overlapped \in BOOLEAN
    /\ parent \in Seq(Nat)

\* No more than the sleeve ever got.
Within(tokens, s, got) == \A k \in Kinds : tokens[k] <= Initial[k] + got[s][k]

\* The copies, however old, are within what the sleeves got, and pay what is charged.
Pays(c) ==
    /\ c.at \in {"put", "perceived"} => c.tokens["compute"] >= 1
    /\ c.at = "synced" => c.tokens["sync"] >= 1
    /\ c.at \in Casting => c.tokens["routing"] >= CastCost

CopiesOf(c, got) ==
    /\ c.at \in {"put", "synced", "target", "perceived"} \cup Casting => Within(c.tokens, c.from, got)
    /\ c.at \in Casting => Within(c.ttokens, c.to, got)
    /\ c.at = "drip" => \A s \in DOMAIN c.left : Within(c.left[s], s, got)

Putting == {"perceived", "remembered"}

CopyWithin(c, got, put) == Pays(c) /\ CopiesOf(c, got) /\ (c.at \in Putting => c.cid \in DOMAIN put)

CopiesWithin ==
    /\ \A s \in Sleeves : Within(sleeve[s].tokens, s, granted)
    /\ \A p \in Calls : CopyWithin(call[p], granted, parent)

\* A sleeve that is not alive is held by a needlecast past its freezing.
Held ==
    /\ \A s \in Sleeves : ~sleeve[s].alive =>
        \/ s \in deleted
        \/ errors > 1
        \/ \E p \in Calls : call[p].at \in Holding /\ call[p].from = s
    /\ \A p \in Calls : At(p, "rollback") => errors > 0

\* Served one at a time, the copies that will be written are the rows.
CopyIsRow(c, rows) ==
    /\ c.at \in {"put", "synced", "target", "perceived", "freeze", "route", "reconstruct", "settle"}
        => c.tokens = rows[c.from].tokens
    /\ c.at \in {"freeze", "route", "reconstruct"} => c.ttokens = rows[c.to].tokens
    /\ c.at = "drip" => \A s \in DOMAIN c.left : c.left[s] = rows[s].tokens

Busy(p) == call[p].at \notin {"idle", "done"}
Alone(p) == \A q \in Calls : Busy(q) => q = p

BooksBalance ==
    \A s \in Sleeves : sleeve[s].tokens = Minus(Plus(Initial, granted[s]), charged[s])

DripsTimely == \A p \in Calls : At(p, "drip") => call[p].now <= window

DripInTime == \A p \in Calls : At(p, "drip") => lastDrip < call[p].now /\ call[p].now <= window

\* Drips so far are paid by windows that began or failures, but for the one under way.
DripBound ==
    \A s \in Sleeves, k \in Kinds :
        \/ granted[s][k] <= (lastDrip + errors) * Grant[k]
        \/ /\ granted[s][k] <= (lastDrip + errors + 1) * Grant[k]
           /\ \E p \in Calls : At(p, "drip") /\ s \notin DOMAIN call[p].left

\* The fragments are a chain, its newest the head or about to be.
Chain ==
    /\ \A n \in DOMAIN parent : parent[n] = n - 1
    /\ \/ /\ episodicHead = Len(parent)
          /\ \A p \in Calls : call[p].at \notin Putting
       \/ /\ episodicHead = Len(parent) - 1
          /\ \E p \in Calls : call[p].at \in Putting /\ call[p].cid = Len(parent)

Serial ==
    /\ \A p \in Calls : Busy(p) => Alone(p)
    /\ \A p \in Calls : CopyIsRow(call[p], sleeve)
    /\ BooksBalance
    /\ DripInTime
    /\ DripBound
    /\ errors = 0 => Chain

IInv == TypeOK /\ CallOK /\ CountsOK /\ DripsTimely /\ CopiesWithin /\ Held /\ (~overlapped => Serial)

-----------------------------------------------------------------------------
(* Balances.                                                                *)

LEMMA Added ==
  ASSUME NEW t \in Balance, NEW u \in Balance
  PROVE  Plus(t, u) \in Balance /\ \A k \in Kinds : Plus(t, u)[k] = t[k] + u[k]
BY DEF Plus, Balance

LEMMA Cost ==
  ASSUME NEW kind \in Kinds, NEW n \in Nat
  PROVE  Only(kind, n) \in Balance /\ \A k \in Kinds : Only(kind, n)[k] = IF k = kind THEN n ELSE 0
BY DEF Only, Nothing, Balance

\* Who can pay keeps a balance, no larger than before.
LEMMA Paid ==
  ASSUME NEW t \in Balance, NEW kind \in Kinds, NEW n \in Nat, t[kind] >= n
  PROVE  /\ Minus(t, Only(kind, n)) \in Balance
         /\ \A k \in Kinds : Minus(t, Only(kind, n))[k] <= t[k]
<1>1. Only(kind, n) \in Balance /\ \A k \in Kinds : Only(kind, n)[k] = IF k = kind THEN n ELSE 0
  BY Cost
<1>2. \A k \in Kinds : t[k] - Only(kind, n)[k] \in Nat /\ t[k] - Only(kind, n)[k] <= t[k]
  BY <1>1 DEF Balance
<1> QED BY <1>2 DEF Minus, Balance

LEMMA Entries ==
  ASSUME NEW t, NEW u
  PROVE  /\ DOMAIN Plus(t, u) = Kinds /\ Plus(t, u) = [k \in Kinds |-> Plus(t, u)[k]]
         /\ DOMAIN Minus(t, u) = Kinds /\ Minus(t, u) = [k \in Kinds |-> Minus(t, u)[k]]
         /\ \A k \in Kinds : Plus(t, u)[k] = t[k] + u[k] /\ Minus(t, u)[k] = t[k] - u[k]
BY DEF Plus, Minus

LEMMA Regrouped ==
  ASSUME NEW a \in Balance, NEW b \in Balance, NEW c \in Balance, NEW d \in Balance
  PROVE  /\ Minus(Minus(Plus(a, b), c), d) = Minus(Plus(a, b), Plus(c, d))
         /\ Plus(Minus(Plus(a, b), c), d) = Minus(Plus(a, Plus(b, d)), c)
<1>1. \A k \in Kinds : a[k] \in Nat /\ b[k] \in Nat /\ c[k] \in Nat /\ d[k] \in Nat
  BY DEF Balance
<1>2. \A k \in Kinds : Minus(Minus(Plus(a, b), c), d)[k] = Minus(Plus(a, b), Plus(c, d))[k]
  BY <1>1, Entries
<1>3. \A k \in Kinds : Plus(Minus(Plus(a, b), c), d)[k] = Minus(Plus(a, Plus(b, d)), c)[k]
  BY <1>1, Entries
<1> DEFINE e1 == Minus(Minus(Plus(a, b), c), d)
           e2 == Minus(Plus(a, b), Plus(c, d))
           e3 == Plus(Minus(Plus(a, b), c), d)
           e4 == Minus(Plus(a, Plus(b, d)), c)
<1>4. /\ e1 = [k \in Kinds |-> e1[k]] /\ e2 = [k \in Kinds |-> e2[k]]
      /\ e3 = [k \in Kinds |-> e3[k]] /\ e4 = [k \in Kinds |-> e4[k]]
  BY Entries
<1>5. (\A k \in Kinds : e1[k] = e2[k]) /\ (\A k \in Kinds : e3[k] = e4[k])
  BY <1>2, <1>3
<1> HIDE DEF e1, e2, e3, e4
<1>6. e1 = e2 /\ e3 = e4
  BY ONLY <1>4, <1>5
<1> QED BY <1>6 DEF e1, e2, e3, e4

LEMMA ProductType ==
  ASSUME NEW n \in Nat, NEW u \in Nat
  PROVE  n * u \in Nat
OBVIOUS

LEMMA ProductGrows ==
  ASSUME NEW n \in Nat, NEW m \in Nat, NEW u \in Nat, n <= m
  PROVE  n * u <= m * u
OBVIOUS

LEMMA OneMore ==
  ASSUME NEW n \in Nat, NEW u \in Nat
  PROVE  (n + 1) * u = n * u + u
OBVIOUS

-----------------------------------------------------------------------------
(* The places of a call, and the writes.                                    *)

LEMMA Places ==
  ASSUME NEW c \in Locals
  PROVE  /\ c.at \in {"put", "synced", "target"} => c \in Paying
         /\ c.at = "perceived" => c \in Perceived
         /\ c.at = "remembered" => c \in Remembered
         /\ c.at \in Casting => c \in Saga
         /\ c.at = "drip" => c \in Dripping
         /\ c.at \in {"idle", "done"} => c \in Ended
         /\ c.at \in {"idle", "done", "put", "synced", "target", "perceived", "remembered", "drip"} \cup Casting
BY DEF Locals, Ended, Paying, Perceived, Remembered, Saga, Dripping, Casting, Holding

LEMMA SagaMoves ==
  ASSUME NEW c \in Saga, NEW place \in Casting
  PROVE  /\ [c EXCEPT !.at = place] \in Saga
         /\ [c EXCEPT !.at = place].at = place
         /\ [c EXCEPT !.at = place].from = c.from
         /\ [c EXCEPT !.at = place].tokens = c.tokens
         /\ [c EXCEPT !.at = place].to = c.to
         /\ [c EXCEPT !.at = place].ttokens = c.ttokens
BY DEF Saga

LEMMA Called ==
  ASSUME CallOK, NEW p \in Calls, NEW c \in Locals, call' = [call EXCEPT ![p] = c]
  PROVE  /\ CallOK'
         /\ \A q \in Calls : call'[q] = IF q = p THEN c ELSE call[q]
BY DEF CallOK

LEMMA TokensWritten ==
  ASSUME sleeve \in Rows, NEW s \in Sleeves, NEW t \in Balance, WriteTokens(s, t)
  PROVE  /\ sleeve' \in Rows
         /\ \A x \in Sleeves : sleeve'[x].alive = sleeve[x].alive
         /\ \A x \in Sleeves : sleeve'[x].tokens = IF x = s THEN t ELSE sleeve[x].tokens
BY DEF Rows, WriteTokens

LEMMA AliveWritten ==
  ASSUME sleeve \in Rows, NEW s \in Sleeves, NEW b \in BOOLEAN, WriteAlive(s, b)
  PROVE  /\ sleeve' \in Rows
         /\ \A x \in Sleeves : sleeve'[x].alive = IF x = s THEN b ELSE sleeve[x].alive
         /\ \A x \in Sleeves : sleeve'[x].tokens = sleeve[x].tokens
BY DEF Rows, WriteAlive

LEMMA Charged ==
  ASSUME charged \in [Sleeves -> Balance], NEW s \in Sleeves, NEW u \in Balance, Charge(s, u)
  PROVE  /\ charged' \in [Sleeves -> Balance]
         /\ \A x \in Sleeves : charged'[x] = IF x = s THEN Plus(charged[s], u) ELSE charged[x]
<1>1. Plus(charged[s], u) \in Balance
  BY Added
<1> QED BY <1>1 DEF Charge

-----------------------------------------------------------------------------
(* What a step of one call keeps.  The call p goes on with the locals c.    *)

Continues(p, c) == \A q \in Calls : call'[q] = IF q = p THEN c ELSE call[q]

LEMMA WithinGrows ==
  ASSUME CountsOK, CountsOK', LedgerAssumption, NEW t \in Balance, NEW s \in Sleeves,
         \A x \in Sleeves, k \in Kinds : granted[x][k] <= granted'[x][k],
         Within(t, s, granted)
  PROVE  Within(t, s, granted')
<1>1. \A k \in Kinds : /\ t[k] \in Nat /\ Initial[k] \in Nat
                       /\ granted[s][k] \in Nat /\ granted'[s][k] \in Nat
  BY DEF Balance, CountsOK, LedgerAssumption
<1>2. \A k \in Kinds : t[k] <= Initial[k] + granted[s][k] /\ granted[s][k] <= granted'[s][k]
  BY DEF Within
<1> QED BY <1>1, <1>2 DEF Within

LEMMA CopiesGrow ==
  ASSUME CountsOK, CountsOK', LedgerAssumption, NEW c \in Locals,
         \A x \in Sleeves, k \in Kinds : granted[x][k] <= granted'[x][k],
         CopiesOf(c, granted)
  PROVE  CopiesOf(c, granted')
<1>1. CASE c.at \in {"put", "synced", "target"}
  <2>1. c \in Paying
    BY <1>1, Places
  <2>2. Within(c.tokens, c.from, granted')
    BY WithinGrows, <1>1, <2>1 DEF CopiesOf, Paying
  <2> QED BY <1>1, <2>2 DEF CopiesOf, Casting, Holding
<1>2. CASE c.at = "perceived"
  <2>1. c \in Perceived
    BY <1>2, Places
  <2>2. Within(c.tokens, c.from, granted')
    BY WithinGrows, <1>2, <2>1 DEF CopiesOf, Perceived
  <2> QED BY <1>2, <2>2 DEF CopiesOf, Casting, Holding
<1>3. CASE c.at \in Casting
  <2>1. c \in Saga
    BY <1>3, Places
  <2>2. Within(c.tokens, c.from, granted') /\ Within(c.ttokens, c.to, granted')
    BY WithinGrows, <1>3, <2>1 DEF CopiesOf, Saga
  <2> QED BY <1>3, <2>2 DEF CopiesOf, Casting, Holding
<1>4. CASE c.at = "drip"
  <2>1. c \in Dripping
    BY <1>4, Places
  <2>2. PICK S \in SUBSET Sleeves : c.left \in [S -> Balance]
    BY <2>1 DEF Dripping
  <2>3. \A s \in S : Within(c.left[s], s, granted)
    BY <1>4, <2>2 DEF CopiesOf
  <2>4. \A s \in S : Within(c.left[s], s, granted')
    BY WithinGrows, <2>2, <2>3
  <2> QED BY <1>4, <2>2, <2>4 DEF CopiesOf, Casting, Holding
<1>5. CASE c.at \in {"idle", "done", "remembered"}
  BY <1>5 DEF CopiesOf, Casting, Holding
<1> QED BY <1>1, <1>2, <1>3, <1>4, <1>5, Places

\* Copies stay within what the sleeves got, which only grows.
LEMMA CopiesKept ==
  ASSUME CopiesWithin, CallOK, CountsOK, CountsOK', LedgerAssumption,
         NEW p \in Calls, NEW c, Continues(p, c),
         \A s \in Sleeves, k \in Kinds : granted[s][k] <= granted'[s][k],
         DOMAIN parent \subseteq DOMAIN parent',
         CopyWithin(c, granted', parent'),
         \A s \in Sleeves : Within(sleeve'[s].tokens, s, granted')
  PROVE  CopiesWithin'
<1>1. ASSUME NEW q \in Calls
      PROVE  CopyWithin(call[q], granted', parent')
  <2>1. call[q] \in Locals /\ CopyWithin(call[q], granted, parent)
    BY DEF CallOK, CopiesWithin
  <2>2. CopiesOf(call[q], granted')
    BY <2>1, CopiesGrow DEF CopyWithin
  <2> QED BY <2>1, <2>2 DEF CopyWithin
<1>2. \A q \in Calls : CopyWithin(call'[q], granted', parent')
  BY <1>1, Zenon DEF Continues
<1> QED BY <1>2 DEF CopiesWithin

LEMMA HeldKept ==
  ASSUME Held, CallOK, CountsOK, CountsOK', NEW p \in Calls, NEW c, Continues(p, c),
         \A s \in Sleeves : sleeve'[s].alive = sleeve[s].alive,
         deleted \subseteq deleted', errors <= errors',
         errors' > 1 \/ (call[p].at \in Holding => c.at \in Holding /\ c.from = call[p].from),
         c.at = "rollback" => errors' > 0
  PROVE  Held'
<1>1. ASSUME NEW s \in Sleeves, ~sleeve'[s].alive
      PROVE  s \in deleted' \/ errors' > 1 \/ \E q \in Calls : call'[q].at \in Holding /\ call'[q].from = s
  <2>1. CASE s \in deleted \/ errors' > 1
    BY <2>1
  <2>2. CASE errors > 1
    BY <2>2 DEF CountsOK
  <2>3. CASE ~(errors' > 1) /\ \E q \in Calls : call[q].at \in Holding /\ call[q].from = s
    <3>1. PICK q \in Calls : call[q].at \in Holding /\ call[q].from = s
      BY <2>3
    <3>2. call'[q].at \in Holding /\ call'[q].from = s
      BY <2>3, <3>1 DEF Continues
    <3> QED BY <3>2
  <2> QED BY <1>1, <2>1, <2>2, <2>3 DEF Held
<1>2. ASSUME NEW q \in Calls, call'[q].at = "rollback"
      PROVE  errors' > 0
  <2>1. CASE q = p
    BY <1>2, <2>1 DEF Continues
  <2>2. CASE q # p
    <3>1. call[q].at = "rollback"
      BY <1>2, <2>2 DEF Continues
    <3>2. errors > 0
      BY <3>1 DEF Held, At
    <3> QED BY <3>2 DEF CountsOK
  <2> QED BY <2>1, <2>2
<1> QED BY <1>1, <1>2 DEF Held, At

\* A call that starts while no other is under way; one that goes on alone.
LEMMA StartsAlone ==
  ASSUME CallOK, CountsOK, NEW p \in Calls, NEW c, Starts(p, c), ~overlapped'
  PROVE  ~overlapped /\ (\A q \in Calls : ~Busy(q)) /\ call[p].at = "idle"
<1>1. ~overlapped /\ Active = {}
  BY DEF Starts, CountsOK
<1>2. \A q \in Calls : call[q] \in {Idle, Done}
  BY <1>1 DEF Active
<1> QED BY <1>1, <1>2 DEF Starts, Busy, Idle, Done

\* Served one at a time, it is enough that the one call and the rows agree.
LEMMA SerialKept ==
  ASSUME CallOK, CallOK', CountsOK, CountsOK', TypeOK, TypeOK', NEW p \in Calls, NEW c, Continues(p, c),
         Alone(p), CopyIsRow(c, sleeve'),
         c.at = "drip" => lastDrip' < c.now /\ c.now <= window',
         BooksBalance', DripBound', errors' = 0 => Chain'
  PROVE  Serial'
<1>1. \A q \in Calls : q # p => call'[q].at \in {"idle", "done"}
  BY DEF Continues, Alone, Busy
<1>2. (\A q \in Calls : Busy(q) => Alone(q))'
  BY <1>1 DEF Busy, Alone
<1>3. \A q \in Calls : CopyIsRow(call'[q], sleeve')
  BY <1>1 DEF Continues, CopyIsRow
<1>4. DripInTime'
  BY <1>1 DEF DripInTime, At, Continues
<1> QED BY <1>2, <1>3, <1>4 DEF Serial

\* Where nothing is granted and no drip ends, the drips stay paid.
LEMMA DripBoundKept ==
  ASSUME DripBound, LedgerAssumption, CountsOK, CountsOK', NEW p \in Calls, Alone(p), call[p].at # "drip",
         granted' = granted, lastDrip + errors <= lastDrip' + errors'
  PROVE  DripBound'
<1>1. \A q \in Calls : ~At(q, "drip")
  BY DEF Alone, Busy, At
<1>2. ASSUME NEW s \in Sleeves, NEW k \in Kinds
      PROVE  granted'[s][k] <= (lastDrip' + errors') * Grant[k]
  <2>1. granted[s][k] <= (lastDrip + errors) * Grant[k]
    BY <1>1 DEF DripBound
  <2>2. Grant[k] \in Nat /\ granted[s][k] \in Nat /\ lastDrip + errors \in Nat /\ lastDrip' + errors' \in Nat
    BY DEF LedgerAssumption, CountsOK, Balance
  <2>3. (lastDrip + errors) * Grant[k] <= (lastDrip' + errors') * Grant[k]
    BY <2>2, ProductGrows
  <2>4. (lastDrip + errors) * Grant[k] \in Nat /\ (lastDrip' + errors') * Grant[k] \in Nat
    BY <2>2, ProductType
  <2> QED BY <2>1, <2>2, <2>3, <2>4
<1> QED BY <1>2 DEF DripBound

\* Where no fragment is put and none becomes the head, the chain stays.
LEMMA ChainKept ==
  ASSUME errors = 0 => Chain, CountsOK, CountsOK', NEW p \in Calls, NEW c, Continues(p, c),
         call[p].at \notin Putting, c.at \notin Putting,
         UNCHANGED <<episodicHead, parent>>, errors <= errors'
  PROVE  errors' = 0 => Chain'
<1>1. SUFFICES ASSUME errors' = 0 PROVE Chain'
  OBVIOUS
<1>2. Chain
  BY <1>1 DEF CountsOK
<1>3. CASE episodicHead = Len(parent) /\ \A q \in Calls : call[q].at \notin Putting
  BY <1>2, <1>3 DEF Chain, Continues
<1>4. CASE /\ episodicHead = Len(parent) - 1
           /\ \E q \in Calls : call[q].at \in Putting /\ call[q].cid = Len(parent)
  <2>1. PICK q \in Calls : call[q].at \in Putting /\ call[q].cid = Len(parent)
    BY <1>4
  <2>2. call'[q] = call[q]
    BY <2>1 DEF Continues
  <2> QED BY <1>2, <1>4, <2>1, <2>2 DEF Chain
<1> QED BY <1>2, <1>3, <1>4 DEF Chain

\* All of it together, for a step of the call p.
LEMMA StepKept ==
  ASSUME LedgerAssumption, IInv, TypeOK', CountsOK', NEW p \in Calls, NEW c \in Locals,
         call' = [call EXCEPT ![p] = c],
         \A s \in Sleeves, k \in Kinds : granted[s][k] <= granted'[s][k],
         DOMAIN parent \subseteq DOMAIN parent', window' = window,
         CopyWithin(c, granted', parent'),
         \A s \in Sleeves : Within(sleeve'[s].tokens, s, granted'),
         c.at = "drip" => c.now <= window,
         Held',
         ~overlapped' => /\ Alone(p) /\ CopyIsRow(c, sleeve')
                         /\ (c.at = "drip" => lastDrip' < c.now)
                         /\ BooksBalance' /\ DripBound' /\ (errors' = 0 => Chain')
  PROVE  IInv'
<1>1. CallOK' /\ Continues(p, c)
  BY Called DEF IInv, Continues
<1>2. CopiesWithin'
  BY <1>1, CopiesKept DEF IInv
<1>3. ~overlapped' => Serial'
  BY <1>1, SerialKept DEF IInv
<1>4. DripsTimely'
  BY <1>1 DEF IInv, DripsTimely, Continues, At
<1> QED BY <1>1, <1>2, <1>3, <1>4 DEF IInv

\* A step that reads: what changes is what the call holds, and the failures.
LEMMA ReadKept ==
  ASSUME LedgerAssumption, IInv, NEW p \in Calls, NEW c \in Locals,
         call' = [call EXCEPT ![p] = c],
         UNCHANGED <<sleeve, memory, faucet, books, deleted>>,
         errors' \in Nat, errors <= errors', overlapped' \in BOOLEAN,
         CopyWithin(c, granted, parent),
         errors' > 1 \/ (call[p].at \in Holding => c.at \in Holding /\ c.from = call[p].from),
         c.at = "rollback" => errors' > 0,
         c.at \notin Putting, c.at = "drip" => c.now <= window,
         ~overlapped' => /\ ~overlapped /\ Alone(p)
                         /\ CopyIsRow(c, sleeve)
                         /\ (c.at = "drip" => lastDrip < c.now)
                         /\ (call[p].at = "drip" => DripBound')
                         /\ (call[p].at \in Putting => errors' > 0)
  PROVE  IInv'
<1> USE DEF memory, faucet, books
<1>1. TypeOK' /\ CountsOK'
  BY DEF IInv, TypeOK, CountsOK
<1>2. Continues(p, c)
  BY Called DEF IInv, Continues
<1>3. Held'
  BY <1>1, <1>2, HeldKept DEF IInv
<1>4. \A s \in Sleeves, k \in Kinds : granted[s][k] <= granted'[s][k]
  BY DEF IInv, CountsOK, Balance
<1>5. CopyWithin(c, granted', parent') /\ \A s \in Sleeves : Within(sleeve'[s].tokens, s, granted')
  BY DEF IInv, CopiesWithin
<1>6. ASSUME ~overlapped'
      PROVE  /\ Alone(p) /\ CopyIsRow(c, sleeve')
             /\ (c.at = "drip" => lastDrip' < c.now)
             /\ BooksBalance' /\ DripBound' /\ (errors' = 0 => Chain')
  <2>1. Serial /\ Alone(p)
    BY <1>6 DEF IInv
  <2>2. BooksBalance'
    BY <2>1 DEF Serial, BooksBalance
  <2>3. DripBound'
    <3>1. CASE call[p].at = "drip"
      BY <1>6, <3>1
    <3>2. CASE call[p].at # "drip"
      <4>1. lastDrip + errors <= lastDrip' + errors'
        BY <1>1 DEF IInv, CountsOK
      <4> QED BY <1>1, <2>1, <3>2, <4>1, DripBoundKept DEF IInv, Serial
    <3> QED BY <3>1, <3>2
  <2>4. errors' = 0 => Chain'
    <3>1. CASE call[p].at \in Putting
      BY <1>6, <1>1, <3>1 DEF CountsOK
    <3>2. CASE call[p].at \notin Putting
      BY <1>1, <1>2, <2>1, <3>2, ChainKept DEF IInv, Serial
    <3> QED BY <3>1, <3>2
  <2> QED BY <1>6, <2>1, <2>2, <2>3, <2>4
<1>7. window' = window /\ DOMAIN parent \subseteq DOMAIN parent'
  OBVIOUS
<1> QED BY <1>1, <1>3, <1>4, <1>5, <1>6, <1>7, StepKept

LEMMA Begins ==
  ASSUME IInv, NEW p \in Calls, NEW c, Starts(p, c), ~overlapped'
  PROVE  ~overlapped /\ Serial /\ Alone(p)
BY StartsAlone DEF IInv, Alone

LEMMA GoesOn ==
  ASSUME IInv, NEW p \in Calls, Busy(p), ~overlapped
  PROVE  Serial /\ Alone(p)
BY DEF IInv, Serial

-----------------------------------------------------------------------------
(* The steps that read.                                                     *)

LEMMA PerceiveReadKeeps ==
  ASSUME LedgerAssumption, IInv, NEW p \in Calls, NEW s \in Sleeves, PerceiveRead(p, s)
  PROVE  IInv'
<1>1. sleeve \in Rows /\ Within(sleeve[s].tokens, s, granted)
  BY DEF IInv, TypeOK, Rows, Balance, CopiesWithin
<1>2. PICK c : c = [at |-> "put", from |-> s, tokens |-> sleeve[s].tokens]
  OBVIOUS
<1>3. c \in Paying
  BY <1>1, <1>2 DEF Paying, Rows
<1>4. c \in Locals
  BY <1>3 DEF Locals
<1>5. CopyWithin(c, granted, parent) /\ CopyIsRow(c, sleeve)
  BY <1>1, <1>2 DEF PerceiveRead, CopyWithin, Pays, CopiesOf, CopyIsRow, Putting, Casting, Holding, Rows, Balance, Kinds
<1>6. /\ Starts(p, c) /\ call' = [call EXCEPT ![p] = c] /\ call[p].at = "idle" /\ overlapped' \in BOOLEAN
      /\ errors' \in Nat /\ errors <= errors'
  BY <1>2 DEF PerceiveRead, Starts, Idle, IInv, CountsOK
<1>7. ~overlapped' => ~overlapped /\ Alone(p)
  BY <1>6, Begins
<1> QED
  BY <1>2, <1>4, <1>5, <1>6, <1>7, ReadKept DEF PerceiveRead, Holding, Putting

LEMMA SyncReadKeeps ==
  ASSUME LedgerAssumption, IInv, NEW p \in Calls, NEW s \in Sleeves, SyncRead(p, s)
  PROVE  IInv'
<1>1. sleeve \in Rows /\ Within(sleeve[s].tokens, s, granted)
  BY DEF IInv, TypeOK, Rows, Balance, CopiesWithin
<1>2. PICK c : c = [at |-> "synced", from |-> s, tokens |-> sleeve[s].tokens]
  OBVIOUS
<1>3. c \in Paying
  BY <1>1, <1>2 DEF Paying, Rows
<1>4. c \in Locals
  BY <1>3 DEF Locals
<1>5. CopyWithin(c, granted, parent) /\ CopyIsRow(c, sleeve)
  BY <1>1, <1>2 DEF SyncRead, CopyWithin, Pays, CopiesOf, CopyIsRow, Putting, Casting, Holding, Rows, Balance, Kinds
<1>6. /\ Starts(p, c) /\ call' = [call EXCEPT ![p] = c] /\ call[p].at = "idle" /\ overlapped' \in BOOLEAN
      /\ errors' \in Nat /\ errors <= errors'
  BY <1>2 DEF SyncRead, Starts, Idle, IInv, CountsOK
<1>7. ~overlapped' => ~overlapped /\ Alone(p)
  BY <1>6, Begins
<1> QED
  BY <1>2, <1>4, <1>5, <1>6, <1>7, ReadKept DEF SyncRead, Holding, Putting

LEMMA CastReadKeeps ==
  ASSUME LedgerAssumption, IInv, NEW p \in Calls, NEW s \in Sleeves, CastRead(p, s)
  PROVE  IInv'
<1>1. sleeve \in Rows /\ Within(sleeve[s].tokens, s, granted)
  BY DEF IInv, TypeOK, Rows, Balance, CopiesWithin
<1>2. PICK c : c = [at |-> "target", from |-> s, tokens |-> sleeve[s].tokens]
  OBVIOUS
<1>3. c \in Paying
  BY <1>1, <1>2 DEF Paying, Rows
<1>4. c \in Locals
  BY <1>3 DEF Locals
<1>5. CopyWithin(c, granted, parent) /\ CopyIsRow(c, sleeve)
  BY <1>1, <1>2 DEF CastRead, CopyWithin, Pays, CopiesOf, CopyIsRow, Putting, Casting, Holding
<1>6. /\ Starts(p, c) /\ call' = [call EXCEPT ![p] = c] /\ call[p].at = "idle" /\ overlapped' \in BOOLEAN
      /\ errors' \in Nat /\ errors <= errors'
  BY <1>2 DEF CastRead, Starts, Idle, IInv, CountsOK
<1>7. ~overlapped' => ~overlapped /\ Alone(p)
  BY <1>6, Begins
<1> QED
  BY <1>2, <1>4, <1>5, <1>6, <1>7, ReadKept DEF CastRead, Holding, Putting

\* A call that has ended holds nothing.
LEMMA DoneFits ==
  ASSUME NEW got, NEW put, NEW rows
  PROVE  Done \in Locals /\ CopyWithin(Done, got, put) /\ CopyIsRow(Done, rows) /\ Done.at = "done"
BY DEF Done, Locals, Ended, CopyWithin, Pays, CopiesOf, CopyIsRow, Putting, Casting, Holding

LEMMA CastReadTargetKeeps ==
  ASSUME LedgerAssumption, IInv, NEW p \in Calls, NEW to \in Sleeves, CastReadTarget(p, to)
  PROVE  IInv'
<1>1. PICK d : d = call[p]
  OBVIOUS
<1>2. d \in Paying /\ d.at = "target" /\ CopyWithin(d, granted, parent)
  BY <1>1, Places DEF CastReadTarget, At, IInv, CallOK, CopiesWithin
<1>3. /\ overlapped' = overlapped /\ overlapped' \in BOOLEAN /\ errors' \in Nat /\ errors <= errors'
      /\ Busy(p) /\ call[p].at = "target"
  BY DEF CastReadTarget, Becomes, Ends, At, Busy, IInv, CountsOK
<1>4. ~overlapped' => ~overlapped /\ Alone(p) /\ CopyIsRow(d, sleeve)
  BY <1>1, <1>3, GoesOn DEF Serial
<1>5. CASE d.tokens["routing"] < CastCost
  <2>1. call' = [call EXCEPT ![p] = Done]
    BY <1>1, <1>5 DEF CastReadTarget, Ends, Becomes
  <2> QED
    BY <1>3, <1>4, <2>1, DoneFits, ReadKept DEF CastReadTarget, Holding, Putting
<1>6. CASE ~(d.tokens["routing"] < CastCost)
  <2>1. sleeve \in Rows /\ Within(sleeve[to].tokens, to, granted)
    BY DEF IInv, TypeOK, Rows, Balance, CopiesWithin
  <2>2. PICK c : c = [at |-> "freeze", from |-> d.from, tokens |-> d.tokens, to |-> to, ttokens |-> sleeve[to].tokens]
    OBVIOUS
  <2>3. c \in Saga
    BY <1>2, <2>1, <2>2 DEF Saga, Paying, Rows, Casting
  <2>4. c \in Locals
    BY <2>3 DEF Locals
  <2>5. call' = [call EXCEPT ![p] = c]
    BY <1>1, <1>6, <2>2 DEF CastReadTarget, Becomes
  <2>6. Pays(c) /\ Within(c.tokens, c.from, granted)
    BY <1>2, <1>6, <2>2 DEF CopyWithin, Pays, CopiesOf, Casting, Holding, Paying, Balance, Kinds, CastCost
  <2>7. CopyWithin(c, granted, parent)
    BY <2>1, <2>2, <2>6 DEF CopyWithin, CopiesOf, Casting, Holding, Putting
  <2>8. CopyIsRow(d, sleeve) => CopyIsRow(c, sleeve)
    BY <1>2, <2>2 DEF CopyIsRow
  <2> QED
    BY <1>3, <1>4, <2>2, <2>4, <2>5, <2>7, <2>8, ReadKept DEF CastReadTarget, Holding, Putting
<1> QED BY <1>5, <1>6

LEMMA RouteKeeps ==
  ASSUME LedgerAssumption, IInv, NEW p \in Calls, Route(p)
  PROVE  IInv'
<1>1. PICK d : d = call[p]
  OBVIOUS
<1>2. d \in Saga /\ d.at = "route" /\ CopyWithin(d, granted, parent)
  BY <1>1, Places DEF Route, At, IInv, CallOK, CopiesWithin, Casting, Holding
<1>3. /\ overlapped' = overlapped /\ overlapped' \in BOOLEAN /\ errors' \in Nat /\ errors <= errors'
      /\ Busy(p) /\ call[p].at = "route"
  BY DEF Route, Goes, Becomes, At, Busy, IInv, CountsOK
<1>4. ~overlapped' => ~overlapped /\ Alone(p) /\ CopyIsRow(d, sleeve)
  BY <1>1, <1>3, GoesOn DEF Serial
<1>5. PICK c : c = [d EXCEPT !.at = "reconstruct"]
  OBVIOUS
<1>6. /\ c \in Saga /\ c.at = "reconstruct" /\ c.from = d.from /\ c.tokens = d.tokens
      /\ c.to = d.to /\ c.ttokens = d.ttokens
  BY <1>2, <1>5, SagaMoves DEF Casting, Holding
<1>7. c \in Locals
  BY <1>6 DEF Locals
<1>8. CopyWithin(c, granted, parent) /\ (CopyIsRow(d, sleeve) => CopyIsRow(c, sleeve))
  BY <1>2, <1>6 DEF CopyWithin, Pays, CopiesOf, CopyIsRow, Casting, Holding, Putting
<1>9. call' = [call EXCEPT ![p] = c]
  BY <1>1, <1>5 DEF Route, Goes, Becomes
<1> QED
  BY <1>1, <1>3, <1>4, <1>6, <1>7, <1>8, <1>9, ReadKept DEF Route, Holding, Putting

LEMMA DripReadKeeps ==
  ASSUME LedgerAssumption, IInv, NEW p \in Calls, DripRead(p)
  PROVE  IInv'
<1>1. sleeve \in Rows /\ \A s \in Sleeves : Within(sleeve[s].tokens, s, granted)
  BY DEF IInv, TypeOK, Rows, Balance, CopiesWithin
<1>2. PICK S : S = {s \in Sleeves : sleeve[s].alive}
  OBVIOUS
<1>3. PICK c : c = [at |-> "drip", now |-> window, left |-> [s \in S |-> sleeve[s].tokens]]
  OBVIOUS
<1>4. window \in Nat /\ S \in SUBSET Sleeves /\ [s \in S |-> sleeve[s].tokens] \in [S -> Balance]
  BY <1>1, <1>2 DEF Rows, IInv, CountsOK
<1>5. c \in Dripping
  BY <1>3, <1>4 DEF Dripping
<1>6. c \in Locals
  BY <1>5 DEF Locals
<1>7. \A s \in DOMAIN c.left : s \in Sleeves /\ c.left[s] = sleeve[s].tokens
  BY <1>3, <1>4
<1>8. c.at = "drip" /\ c.now = window
  BY <1>3
<1>9. CopyWithin(c, granted, parent) /\ CopyIsRow(c, sleeve)
  BY <1>1, <1>7, <1>8 DEF CopyWithin, Pays, CopiesOf, CopyIsRow, Putting, Casting, Holding
<1>10. /\ Starts(p, c) /\ call' = [call EXCEPT ![p] = c] /\ call[p].at = "idle" /\ overlapped' \in BOOLEAN
       /\ errors' \in Nat /\ errors <= errors' /\ lastDrip < window /\ window <= window
  BY <1>2, <1>3 DEF DripRead, Starts, Idle, IInv, CountsOK
<1>11. ~overlapped' => ~overlapped /\ Alone(p)
  BY <1>10, Begins
<1> QED
  BY <1>6, <1>8, <1>9, <1>10, <1>11, ReadKept DEF DripRead, Holding, Putting

\* A drip that fails half way is paid by its failure.
LEMMA DripFailed ==
  ASSUME DripBound, LedgerAssumption, CountsOK, granted' = granted, lastDrip' = lastDrip, errors' = errors + 1
  PROVE  DripBound'
<1>1. ASSUME NEW s \in Sleeves, NEW k \in Kinds
      PROVE  granted'[s][k] <= (lastDrip' + errors') * Grant[k]
  <2>1. Grant[k] \in Nat /\ granted[s][k] \in Nat /\ lastDrip + errors \in Nat
    BY DEF LedgerAssumption, CountsOK, Balance
  <2>2. (lastDrip + errors + 1) * Grant[k] = (lastDrip + errors) * Grant[k] + Grant[k]
    BY <2>1, OneMore
  <2>3. (lastDrip + errors) * Grant[k] \in Nat
    BY <2>1, ProductType
  <2>4. \/ granted[s][k] <= (lastDrip + errors) * Grant[k]
        \/ granted[s][k] <= (lastDrip + errors + 1) * Grant[k]
    BY DEF DripBound
  <2>5. granted[s][k] <= (lastDrip + errors + 1) * Grant[k]
    BY <2>1, <2>2, <2>3, <2>4
  <2>6. lastDrip' + errors' = lastDrip + errors + 1
    BY DEF CountsOK
  <2> QED BY <2>5, <2>6
<1> QED BY <1>1 DEF DripBound

LEMMA ThrowKeeps ==
  ASSUME LedgerAssumption, IInv, NEW p \in Calls, Throw(p)
  PROVE  IInv'
<1>1. PICK d : d = call[p]
  OBVIOUS
<1>2. d \in Locals /\ d.at # "rollback" /\ CopyWithin(d, granted, parent)
  BY <1>1 DEF Throw, At, IInv, CallOK, CopiesWithin
<1>3. /\ overlapped' = overlapped /\ overlapped' \in BOOLEAN /\ errors \in Nat /\ errors' = errors + 1
  BY DEF Throw, Goes, Becomes, Ends, IInv, CountsOK
<1>4. Busy(p)
  <2>1. d \notin {Idle, Done}
    BY <1>1 DEF Throw, Active
  <2>2. d.at \in {"idle", "done"} => d \in {Idle, Done}
    BY <1>2, Places DEF Ended, Idle, Done
  <2> QED BY <1>1, <2>1, <2>2 DEF Busy
<1>5. ~overlapped' => ~overlapped /\ Alone(p) /\ CopyIsRow(d, sleeve)
  BY <1>1, <1>3, <1>4, GoesOn DEF Serial
<1>6. ~overlapped' => DripBound'
  BY <1>3, <1>4, GoesOn, DripFailed DEF Serial, Throw, books, faucet, IInv
<1>7. errors' \in Nat /\ errors <= errors' /\ errors' > 0
  BY <1>3
<1>8. CASE d.at \in InSaga \ {"freeze"}
  <2>1. d \in Saga
    BY <1>2, <1>8, Places DEF InSaga, Casting, Holding
  <2>2. PICK c : c = [d EXCEPT !.at = "rollback"]
    OBVIOUS
  <2>3. /\ c \in Saga /\ c.at = "rollback" /\ c.from = d.from /\ c.tokens = d.tokens
        /\ c.to = d.to /\ c.ttokens = d.ttokens
    BY <2>1, <2>2, SagaMoves DEF Casting, Holding
  <2>4. c \in Locals
    BY <2>3 DEF Locals
  <2>5. CopyWithin(c, granted, parent) /\ CopyIsRow(c, sleeve)
    BY <1>2, <1>8, <2>3 DEF CopyWithin, Pays, CopiesOf, CopyIsRow, InSaga, Casting, Holding, Putting
  <2>6. call' = [call EXCEPT ![p] = c]
    BY <1>1, <1>8, <2>2 DEF Throw, Goes, Becomes
  <2> QED
    BY <1>1, <1>3, <1>5, <1>6, <1>7, <2>3, <2>4, <2>5, <2>6, ReadKept DEF Throw, Holding, Putting
<1>9. CASE d.at \notin InSaga \ {"freeze"}
  <2>1. call' = [call EXCEPT ![p] = Done]
    BY <1>1, <1>9 DEF Throw, Ends, Becomes
  <2>2. d.at \notin Holding
    BY <1>2, <1>9 DEF Holding, InSaga
  <2> QED
    BY <1>1, <1>3, <1>5, <1>6, <1>7, <2>1, <2>2, DoneFits, ReadKept DEF Throw, Putting
<1> QED BY <1>8, <1>9

-----------------------------------------------------------------------------
(* The steps that put a fragment, and those that make it the head.          *)

LEMMA Appended ==
  ASSUME TypeOK, CountsOK, parent' = Append(parent, episodicHead)
  PROVE  /\ parent' \in Seq(Nat) /\ Len(parent') = Len(parent) + 1 /\ Len(parent) \in Nat
         /\ DOMAIN parent \subseteq DOMAIN parent' /\ Len(parent') \in DOMAIN parent'
         /\ episodicHead \in {0} \cup DOMAIN parent'
         /\ \A n \in DOMAIN parent' : parent'[n] < n
         /\ \A n \in DOMAIN parent : parent'[n] = parent[n]
         /\ \A n \in DOMAIN parent' : n \in DOMAIN parent \/ n = Len(parent')
         /\ parent'[Len(parent')] = episodicHead
<1>1. episodicHead \in Nat /\ episodicHead <= Len(parent) /\ parent \in Seq(Nat) /\ Len(parent) \in Nat
  BY DEF TypeOK, CountsOK
<1>2. parent' \in Seq(Nat) /\ Len(parent') = Len(parent) + 1
  BY <1>1
<1>3. DOMAIN parent' = 1 .. Len(parent) + 1 /\ DOMAIN parent = 1 .. Len(parent)
  BY <1>1, <1>2
<1>4. \A n \in DOMAIN parent : parent'[n] = parent[n]
  BY <1>1, <1>3
<1>5. parent'[Len(parent) + 1] = episodicHead
  BY <1>1
<1>6. \A n \in DOMAIN parent : parent[n] < n
  BY DEF TypeOK
<1>7. \A n \in DOMAIN parent' : n \in DOMAIN parent \/ n = Len(parent')
  BY <1>1, <1>2, <1>3
<1>8. \A n \in DOMAIN parent' : parent'[n] < n
  BY <1>1, <1>2, <1>4, <1>5, <1>6, <1>7
<1>9. Len(parent') \in DOMAIN parent' /\ DOMAIN parent \subseteq DOMAIN parent' /\ episodicHead \in {0} \cup DOMAIN parent'
  BY <1>1, <1>2, <1>3
<1> QED BY <1>1, <1>2, <1>4, <1>5, <1>7, <1>8, <1>9

LEMMA PutKept ==
  ASSUME LedgerAssumption, IInv, NEW p \in Calls, NEW c \in Locals,
         call' = [call EXCEPT ![p] = c],
         parent' = Append(parent, episodicHead),
         UNCHANGED <<sleeve, episodicHead, faucet, errors, books, deleted>>,
         overlapped' \in BOOLEAN,
         c.at \in Putting, c.cid = Len(parent'), Pays(c), CopiesOf(c, granted),
         call[p].at \in {"idle", "put"},
         ~overlapped' => ~overlapped /\ Alone(p) /\ CopyIsRow(c, sleeve)
  PROVE  IInv'
<1> USE DEF faucet, books
<1>1. TypeOK' /\ CountsOK' /\ DOMAIN parent \subseteq DOMAIN parent'
  BY Appended DEF IInv, TypeOK, CountsOK
<1>2. Continues(p, c)
  BY Called DEF IInv, Continues
<1>3. Held'
  <2>1. call[p].at \notin Holding /\ c.at # "rollback" /\ errors <= errors'
    BY DEF Holding, Putting, IInv, CountsOK
  <2> QED BY <1>1, <1>2, <2>1, HeldKept DEF IInv
<1>4. \A s \in Sleeves, k \in Kinds : granted[s][k] <= granted'[s][k]
  BY DEF IInv, CountsOK, Balance
<1>5. CopyWithin(c, granted', parent') /\ \A s \in Sleeves : Within(sleeve'[s].tokens, s, granted')
  BY Appended DEF IInv, CopiesWithin, CopyWithin
<1>6. ASSUME ~overlapped'
      PROVE  /\ Alone(p) /\ CopyIsRow(c, sleeve') /\ c.at # "drip"
             /\ BooksBalance' /\ DripBound' /\ (errors' = 0 => Chain')
  <2>1. Serial /\ Alone(p) /\ CopyIsRow(c, sleeve') /\ c.at # "drip"
    BY <1>6 DEF IInv, Putting
  <2>2. BooksBalance'
    BY <2>1 DEF Serial, BooksBalance
  <2>3. DripBound'
    <3>1. lastDrip + errors <= lastDrip' + errors' /\ call[p].at # "drip"
      BY DEF IInv, CountsOK
    <3> QED BY <1>1, <2>1, <3>1, DripBoundKept DEF IInv, Serial
  <2>4. ASSUME errors' = 0
        PROVE  Chain'
    <3>1. Chain /\ \A q \in Calls : call[q].at \notin Putting
      BY <2>1, <2>4 DEF Serial, Alone, Busy, Putting
    <3>2. episodicHead = Len(parent) /\ \A n \in DOMAIN parent : parent[n] = n - 1
      BY <3>1 DEF Chain
    <3>3. \A n \in DOMAIN parent' : parent'[n] = n - 1
      BY <3>2, Appended DEF IInv
    <3>4. episodicHead' = Len(parent') - 1
      BY <3>2, Appended DEF IInv
    <3>5. call'[p].at \in Putting /\ call'[p].cid = Len(parent')
      BY <1>2 DEF Continues
    <3> QED BY <3>3, <3>4, <3>5 DEF Chain
  <2> QED BY <2>1, <2>2, <2>3, <2>4
<1>7. window' = window /\ c.at # "drip"
  BY DEF Putting
<1> QED BY <1>1, <1>3, <1>4, <1>5, <1>6, <1>7, StepKept

LEMMA PerceivePutKeeps ==
  ASSUME LedgerAssumption, IInv, NEW p \in Calls, PerceivePut(p)
  PROVE  IInv'
<1>1. PICK d : d = call[p]
  OBVIOUS
<1>2. d \in Paying /\ d.at = "put" /\ CopyWithin(d, granted, parent)
  BY <1>1, Places DEF PerceivePut, At, IInv, CallOK, CopiesWithin
<1>3. overlapped' = overlapped /\ overlapped' \in BOOLEAN /\ Busy(p) /\ call[p].at \in {"idle", "put"}
  BY DEF PerceivePut, Becomes, At, Busy, IInv, CountsOK
<1>4. ~overlapped' => ~overlapped /\ Alone(p) /\ CopyIsRow(d, sleeve)
  BY <1>1, <1>3, GoesOn DEF Serial
<1>5. PICK n : n = Len(parent')
  OBVIOUS
<1>6. n \in Nat
  BY <1>5, Appended DEF PerceivePut, IInv
<1>7. PICK c : c = [at |-> "perceived", cid |-> n, from |-> d.from, tokens |-> d.tokens]
  OBVIOUS
<1>8. c \in Perceived
  BY <1>2, <1>6, <1>7 DEF Paying, Perceived
<1>9. c \in Locals
  BY <1>8 DEF Locals
<1>10. c.at = "perceived" /\ c.cid = Len(parent') /\ c.from = d.from /\ c.tokens = d.tokens
  BY <1>5, <1>7
<1>11. Pays(c) /\ CopiesOf(c, granted) /\ (CopyIsRow(d, sleeve) => CopyIsRow(c, sleeve))
  BY <1>2, <1>10 DEF CopyWithin, Pays, CopiesOf, CopyIsRow, Casting, Holding
<1>12. call' = [call EXCEPT ![p] = c]
  BY <1>1, <1>5, <1>7 DEF PerceivePut, Becomes
<1> QED
  BY <1>3, <1>4, <1>9, <1>10, <1>11, <1>12, PutKept DEF PerceivePut, Putting

LEMMA RememberPutKeeps ==
  ASSUME LedgerAssumption, IInv, NEW p \in Calls, RememberPut(p)
  PROVE  IInv'
<1>1. PICK n : n = Len(parent')
  OBVIOUS
<1>2. n \in Nat
  BY <1>1, Appended DEF RememberPut, IInv
<1>3. PICK c : c = [at |-> "remembered", cid |-> n]
  OBVIOUS
<1>4. c \in Remembered
  BY <1>2, <1>3 DEF Remembered
<1>5. c \in Locals
  BY <1>4 DEF Locals
<1>6. c.at = "remembered" /\ c.cid = Len(parent')
  BY <1>1, <1>3
<1>7. Pays(c) /\ CopiesOf(c, granted) /\ CopyIsRow(c, sleeve)
  BY <1>6 DEF Pays, CopiesOf, CopyIsRow, Casting, Holding
<1>8. Starts(p, c) /\ call' = [call EXCEPT ![p] = c] /\ call[p].at \in {"idle", "put"} /\ overlapped' \in BOOLEAN
  BY <1>1, <1>3 DEF RememberPut, Starts, Idle, IInv, CountsOK
<1>9. ~overlapped' => ~overlapped /\ Alone(p)
  BY <1>8, Begins
<1> QED
  BY <1>5, <1>6, <1>7, <1>8, <1>9, PutKept DEF RememberPut, Putting

\* The fragment of the call that puts alone is the newest one; it becomes the head.
LEMMA HeadWritten ==
  ASSUME IInv, NEW p \in Calls, NEW d, d = call[p], d.at \in Putting, Alone(p),
         errors = 0 => Chain, episodicHead' = d.cid, parent' = parent, errors' = errors,
         Continues(p, Done)
  PROVE  errors' = 0 => Chain'
<1>1. SUFFICES ASSUME errors = 0 PROVE Chain'
  OBVIOUS
<1>2. Chain
  BY <1>1
<1>3. d.cid = Len(parent)
  BY <1>2 DEF Chain, Alone, Busy, Putting
<1>4. \A q \in Calls : call'[q].at \notin Putting
  BY DEF Continues, Alone, Busy, Putting, Done
<1> QED BY <1>2, <1>3, <1>4 DEF Chain

LEMMA RememberWriteKeeps ==
  ASSUME LedgerAssumption, IInv, NEW p \in Calls, RememberWrite(p)
  PROVE  IInv'
<1> USE DEF faucet, books
<1>1. PICK d : d = call[p]
  OBVIOUS
<1>2. d \in Locals /\ d.at = "remembered" /\ CopyWithin(d, granted, parent) /\ episodicHead' = d.cid
  BY <1>1 DEF RememberWrite, At, IInv, CallOK, CopiesWithin
<1>3. call' = [call EXCEPT ![p] = Done] /\ overlapped' = overlapped
  BY DEF RememberWrite, Ends, Becomes
<1>4. Continues(p, Done)
  BY <1>3, DoneFits, Called DEF IInv, Continues
<1>5. d.cid \in DOMAIN parent
  BY <1>2 DEF CopyWithin, Putting
<1>6. TypeOK' /\ CountsOK'
  BY <1>2, <1>3, <1>5 DEF RememberWrite, IInv, TypeOK, CountsOK
<1>7. Held'
  <2>1. call[p].at \notin Holding /\ errors <= errors' /\ Done.at # "rollback"
    BY <1>1, <1>2 DEF Holding, RememberWrite, IInv, CountsOK, Done
  <2> QED BY <1>4, <1>6, <2>1, HeldKept DEF IInv, RememberWrite
<1>8. \A s \in Sleeves, k \in Kinds : granted[s][k] <= granted'[s][k]
  BY DEF IInv, CountsOK, Balance, RememberWrite
<1>9. \A s \in Sleeves : Within(sleeve'[s].tokens, s, granted')
  BY DEF IInv, CopiesWithin, RememberWrite
<1>10. ASSUME ~overlapped'
       PROVE  Alone(p) /\ BooksBalance' /\ DripBound' /\ (errors' = 0 => Chain')
  <2>1. Serial /\ Alone(p)
    BY <1>1, <1>2, <1>3, <1>10, GoesOn DEF Busy
  <2>2. BooksBalance'
    BY <2>1 DEF Serial, BooksBalance, RememberWrite
  <2>3. DripBound'
    <3>1. lastDrip + errors <= lastDrip' + errors' /\ call[p].at # "drip"
      BY <1>1, <1>2 DEF IInv, CountsOK, RememberWrite
    <3> QED BY <1>6, <2>1, <3>1, DripBoundKept DEF IInv, Serial, RememberWrite
  <2>4. errors' = 0 => Chain'
    BY <1>1, <1>2, <1>4, <2>1, HeadWritten DEF Serial, RememberWrite, Putting
  <2> QED BY <2>1, <2>2, <2>3, <2>4
<1> QED BY <1>3, <1>6, <1>7, <1>8, <1>9, <1>10, DoneFits, StepKept DEF RememberWrite

-----------------------------------------------------------------------------
(* The steps that write a balance.                                          *)

LEMMA WithinLess ==
  ASSUME LedgerAssumption, CountsOK, NEW t \in Balance, NEW u \in Balance, NEW s \in Sleeves,
         Within(u, s, granted), \A k \in Kinds : t[k] <= u[k]
  PROVE  Within(t, s, granted)
<1>1. \A k \in Kinds : t[k] \in Nat /\ u[k] \in Nat /\ Initial[k] \in Nat /\ granted[s][k] \in Nat
  BY DEF Balance, LedgerAssumption, CountsOK
<1>2. \A k \in Kinds : u[k] <= Initial[k] + granted[s][k]
  BY DEF Within
<1> QED BY <1>1, <1>2 DEF Within

\* Charging what was written off keeps the books, when the copy was the row.
LEMMA ChargeBalances ==
  ASSUME LedgerAssumption, BooksBalance, CountsOK, sleeve \in Rows, NEW s \in Sleeves, NEW u \in Balance,
         Minus(sleeve[s].tokens, u) \in Balance,
         WriteTokens(s, Minus(sleeve[s].tokens, u)), Charge(s, u), granted' = granted
  PROVE  BooksBalance'
<1>1. /\ \A x \in Sleeves : charged'[x] = IF x = s THEN Plus(charged[s], u) ELSE charged[x]
      /\ \A x \in Sleeves : sleeve'[x].tokens = IF x = s THEN Minus(sleeve[s].tokens, u) ELSE sleeve[x].tokens
  BY Charged, TokensWritten DEF CountsOK
<1>2. Initial \in Balance /\ granted[s] \in Balance /\ charged[s] \in Balance
  BY DEF LedgerAssumption, Balance, CountsOK
<1>3. sleeve[s].tokens = Minus(Plus(Initial, granted[s]), charged[s])
  BY DEF BooksBalance
<1>4. sleeve'[s].tokens = Minus(Plus(Initial, granted'[s]), charged'[s])
  BY <1>1, <1>2, <1>3, Regrouped
<1>5. ASSUME NEW x \in Sleeves, x # s
      PROVE  sleeve'[x].tokens = Minus(Plus(Initial, granted'[x]), charged'[x])
  BY <1>1, <1>5 DEF BooksBalance
<1> QED BY <1>4, <1>5 DEF BooksBalance

\* A call writes its copy less a cost the copy covers, and goes on with c.
LEMMA PayKept ==
  ASSUME LedgerAssumption, IInv, NEW p \in Calls, NEW c \in Locals, NEW d, d = call[p],
         call' = [call EXCEPT ![p] = c], Busy(p), d.at # "drip",
         NEW s \in Sleeves, NEW t \in Balance, NEW kind \in Kinds, NEW n \in Nat,
         t[kind] >= n, Within(t, s, granted),
         WriteTokens(s, Minus(t, Only(kind, n))), Charge(s, Only(kind, n)),
         UNCHANGED <<parent, faucet, errors, granted, deleted, overlapped>>,
         episodicHead' \in {0} \cup DOMAIN parent,
         CopyWithin(c, granted, parent), c.at \notin {"rollback", "drip"},
         d.at \in Holding => c.at \in Holding /\ c.from = d.from,
         ~overlapped => t = sleeve[s].tokens,
         \A rows : CopyIsRow(c, rows),
         Serial /\ Alone(p) => (errors' = 0 => Chain')
  PROVE  IInv'
<1> USE DEF faucet
<1>1. PICK u : u = Only(kind, n)
  OBVIOUS
<1>2. u \in Balance /\ Minus(t, u) \in Balance /\ \A k \in Kinds : Minus(t, u)[k] <= t[k]
  BY <1>1, Cost, Paid
<1>3. PICK w : w = Minus(t, u)
  OBVIOUS
<1>4. sleeve \in Rows
  BY DEF IInv, TypeOK, Rows, Balance
<1>5. /\ sleeve' \in Rows
      /\ \A x \in Sleeves : sleeve'[x].alive = sleeve[x].alive
      /\ \A x \in Sleeves : sleeve'[x].tokens = IF x = s THEN w ELSE sleeve[x].tokens
  <2>1. WriteTokens(s, w) /\ w \in Balance
    BY <1>1, <1>2, <1>3
  <2> QED BY <1>4, <2>1, TokensWritten
<1>6. charged' \in [Sleeves -> Balance]
  BY <1>1, <1>2, Charged DEF IInv, CountsOK
<1>7. TypeOK' /\ CountsOK'
  BY <1>5, <1>6 DEF IInv, TypeOK, CountsOK, Rows, Balance
<1>8. Continues(p, c)
  BY Called DEF IInv, Continues
<1>9. Held'
  <2>1. errors <= errors'
    BY DEF IInv, CountsOK
  <2> QED BY <1>5, <1>7, <1>8, <2>1, HeldKept DEF IInv
<1>10. \A x \in Sleeves, k \in Kinds : granted[x][k] <= granted'[x][k]
  BY DEF IInv, CountsOK, Balance
<1>11. \A x \in Sleeves : Within(sleeve'[x].tokens, x, granted')
  <2>1. Within(w, s, granted)
    BY <1>2, <1>3, WithinLess DEF IInv
  <2> QED BY <1>5, <2>1 DEF IInv, CopiesWithin
<1>12. ASSUME ~overlapped'
       PROVE  Alone(p) /\ BooksBalance' /\ DripBound' /\ (errors' = 0 => Chain')
  <2>1. Serial /\ Alone(p)
    BY <1>12, GoesOn
  <2>2. BooksBalance'
    <3>1. t = sleeve[s].tokens
      BY <1>12
    <3> QED BY <1>1, <1>2, <1>4, <2>1, <3>1, ChargeBalances DEF Serial, IInv
  <2>3. DripBound'
    <3>1. lastDrip + errors <= lastDrip' + errors'
      BY DEF IInv, CountsOK
    <3> QED BY <1>7, <2>1, <3>1, DripBoundKept DEF IInv, Serial
  <2> QED BY <2>1, <2>2, <2>3
<1>13. DOMAIN parent \subseteq DOMAIN parent' /\ CopyWithin(c, granted', parent') /\ CopyIsRow(c, sleeve')
  OBVIOUS
<1> QED BY <1>7, <1>9, <1>10, <1>11, <1>12, <1>13, StepKept

LEMMA PerceiveWriteKeeps ==
  ASSUME LedgerAssumption, IInv, NEW p \in Calls, PerceiveWrite(p)
  PROVE  IInv'
<1>1. PICK d : d = call[p]
  OBVIOUS
<1>2. d \in Perceived /\ d.at = "perceived" /\ CopyWithin(d, granted, parent) /\ d.from \in Sleeves /\ d.tokens \in Balance
  BY <1>1, Places DEF PerceiveWrite, At, IInv, CallOK, CopiesWithin, Perceived
<1>3. d.cid \in DOMAIN parent /\ d.tokens["compute"] >= 1 /\ Within(d.tokens, d.from, granted)
  BY <1>2 DEF CopyWithin, Pays, CopiesOf, Putting
<1>4. /\ call' = [call EXCEPT ![p] = Done] /\ episodicHead' = d.cid /\ Busy(p)
      /\ WriteTokens(d.from, Minus(d.tokens, Only("compute", 1))) /\ Charge(d.from, Only("compute", 1))
      /\ UNCHANGED <<parent, faucet, errors, granted, deleted, overlapped>>
  BY <1>1, <1>2 DEF PerceiveWrite, Ends, Becomes, Busy
<1>5. ~overlapped => d.tokens = sleeve[d.from].tokens
  BY <1>1, <1>2 DEF IInv, Serial, CopyIsRow
<1>6. Serial /\ Alone(p) => (errors' = 0 => Chain')
  <2>1. Continues(p, Done)
    BY <1>4, Called, DoneFits DEF IInv, Continues
  <2> QED BY <1>1, <1>2, <1>4, <2>1, HeadWritten DEF Serial, Putting
<1>7. "compute" \in Kinds /\ 1 \in Nat /\ d.at \notin Holding /\ d.at # "drip" /\ Done.at \notin {"rollback", "drip"}
  BY <1>2 DEF Kinds, Holding, Done
<1> QED BY <1>1, <1>2, <1>3, <1>4, <1>5, <1>6, <1>7, DoneFits, PayKept

LEMMA SyncWriteKeeps ==
  ASSUME LedgerAssumption, IInv, NEW p \in Calls, SyncWrite(p)
  PROVE  IInv'
<1>1. PICK d : d = call[p]
  OBVIOUS
<1>2. d \in Paying /\ d.at = "synced" /\ CopyWithin(d, granted, parent) /\ d.from \in Sleeves /\ d.tokens \in Balance
  BY <1>1, Places DEF SyncWrite, At, IInv, CallOK, CopiesWithin, Paying
<1>3. d.tokens["sync"] >= 1 /\ Within(d.tokens, d.from, granted)
  BY <1>2 DEF CopyWithin, Pays, CopiesOf
<1>4. /\ call' = [call EXCEPT ![p] = Done] /\ Busy(p)
      /\ WriteTokens(d.from, Minus(d.tokens, Only("sync", 1))) /\ Charge(d.from, Only("sync", 1))
      /\ UNCHANGED <<parent, faucet, errors, granted, deleted, overlapped>> /\ UNCHANGED <<episodicHead, parent>>
  BY <1>1, <1>2 DEF SyncWrite, Ends, Becomes, Busy, memory
<1>5. ~overlapped => d.tokens = sleeve[d.from].tokens
  BY <1>1, <1>2 DEF IInv, Serial, CopyIsRow
<1>6. "sync" \in Kinds /\ 1 \in Nat /\ d.at \notin Holding /\ d.at # "drip" /\ Done.at \notin {"rollback", "drip"}
  BY <1>2 DEF Kinds, Holding, Done
<1>7. episodicHead' \in {0} \cup DOMAIN parent
  BY <1>4 DEF IInv, TypeOK
<1>8. Serial /\ Alone(p) => (errors' = 0 => Chain')
  <2>1. Continues(p, Done) /\ Done.at \notin Putting /\ call[p].at \notin Putting
    BY <1>1, <1>2, <1>4, Called, DoneFits DEF IInv, Continues, Putting
  <2>2. errors <= errors' /\ CountsOK'
    <3>1. charged' \in [Sleeves -> Balance]
      BY <1>2, <1>4, <1>6, Cost, Charged DEF IInv, CountsOK
    <3> QED BY <1>4, <3>1 DEF IInv, CountsOK, faucet
  <2> QED BY <1>4, <2>1, <2>2, ChainKept DEF IInv, Serial
<1> QED BY <1>1, <1>2, <1>3, <1>4, <1>5, <1>6, <1>7, <1>8, DoneFits, PayKept

LEMMA SettleKeeps ==
  ASSUME LedgerAssumption, IInv, NEW p \in Calls, Settle(p)
  PROVE  IInv'
<1>1. PICK d : d = call[p]
  OBVIOUS
<1>2. /\ d \in Saga /\ d.at = "settle" /\ CopyWithin(d, granted, parent) /\ d.from \in Sleeves /\ d.tokens \in Balance
      /\ d.at \in Casting
  BY <1>1, Places DEF Settle, At, IInv, CallOK, CopiesWithin, Saga, Casting, Holding
<1>3. d.tokens["routing"] >= CastCost /\ Within(d.tokens, d.from, granted)
  BY <1>2 DEF CopyWithin, Pays, CopiesOf
<1>4. PICK c : c = [d EXCEPT !.at = "unfreeze"]
  OBVIOUS
<1>5. /\ c \in Saga /\ c.at = "unfreeze" /\ c.from = d.from /\ c.tokens = d.tokens
      /\ c.to = d.to /\ c.ttokens = d.ttokens
  BY <1>2, <1>4, SagaMoves DEF Casting, Holding
<1>6. c \in Locals /\ CopyWithin(c, granted, parent)
  BY <1>2, <1>5 DEF Locals, CopyWithin, Pays, CopiesOf, Casting, Holding, Putting
<1>7. \A rows : CopyIsRow(c, rows)
  BY <1>5 DEF CopyIsRow
<1>8. /\ call' = [call EXCEPT ![p] = c] /\ Busy(p)
      /\ WriteTokens(d.from, Minus(d.tokens, Only("routing", CastCost))) /\ Charge(d.from, Only("routing", CastCost))
      /\ UNCHANGED <<parent, faucet, errors, granted, deleted, overlapped>> /\ UNCHANGED <<episodicHead, parent>>
  BY <1>1, <1>2, <1>4 DEF Settle, Goes, Becomes, Busy, memory
<1>9. ~overlapped => d.tokens = sleeve[d.from].tokens
  BY <1>1, <1>2 DEF IInv, Serial, CopyIsRow
<1>10. "routing" \in Kinds /\ CastCost \in Nat /\ d.at # "drip" /\ c.at \notin {"rollback", "drip"} /\ c.at \in Holding
  BY <1>2, <1>5 DEF Kinds, Holding, CastCost
<1>11. episodicHead' \in {0} \cup DOMAIN parent
  BY <1>8 DEF IInv, TypeOK
<1>12. Serial /\ Alone(p) => (errors' = 0 => Chain')
  <2>1. Continues(p, c) /\ c.at \notin Putting /\ call[p].at \notin Putting
    BY <1>1, <1>2, <1>5, <1>6, <1>8, Called DEF IInv, Continues, Putting
  <2>2. errors <= errors' /\ CountsOK'
    <3>1. charged' \in [Sleeves -> Balance]
      BY <1>2, <1>8, <1>10, Cost, Charged DEF IInv, CountsOK
    <3> QED BY <1>8, <3>1 DEF IInv, CountsOK, faucet
  <2> QED BY <1>8, <2>1, <2>2, ChainKept DEF IInv, Serial
<1> QED BY <1>1, <1>2, <1>3, <1>5, <1>6, <1>7, <1>8, <1>9, <1>10, <1>11, <1>12, PayKept

\* Rows whose balances stay keep what the copies agree with.
LEMMA RowsAgree ==
  ASSUME NEW c \in Locals, NEW rows, NEW now, \A x \in Sleeves : now[x].tokens = rows[x].tokens,
         CopyIsRow(c, rows)
  PROVE  CopyIsRow(c, now)
<1>1. CASE c.at \in {"put", "synced", "target"}
  BY <1>1, Places DEF CopyIsRow, Paying
<1>2. CASE c.at = "perceived"
  BY <1>2, Places DEF CopyIsRow, Perceived
<1>3. CASE c.at \in Casting
  <2>1. c.from \in Sleeves /\ c.to \in Sleeves
    BY <1>3, Places DEF Saga
  <2> QED BY <1>3, <2>1 DEF CopyIsRow, Casting, Holding
<1>4. CASE c.at = "drip"
  <2>1. PICK S \in SUBSET Sleeves : c.left \in [S -> Balance]
    BY <1>4, Places DEF Dripping
  <2>2. \A s \in DOMAIN c.left : c.left[s] = rows[s].tokens /\ s \in Sleeves
    BY <1>4, <2>1 DEF CopyIsRow
  <2> QED BY <1>4, <2>2 DEF CopyIsRow
<1>5. CASE c.at \in {"idle", "done", "remembered"}
  BY <1>5 DEF CopyIsRow
<1> QED BY <1>1, <1>2, <1>3, <1>4, <1>5, Places

\* A needlecast that goes on from d to c over rows whose balances stay when it is alone.
LEMMA SagaKept ==
  ASSUME LedgerAssumption, IInv, NEW p \in Calls, NEW c \in Locals, NEW d, d = call[p], d.at \in Casting,
         call' = [call EXCEPT ![p] = c], c.at \in Casting \cup {"done"}, CopyWithin(c, granted, parent),
         sleeve' \in Rows,
         \A x \in Sleeves : Within(sleeve'[x].tokens, x, granted),
         UNCHANGED <<memory, faucet, books, deleted, overlapped>>, errors' \in Nat, errors <= errors',
         Held',
         ~overlapped /\ Alone(p) /\ CopyIsRow(d, sleeve) =>
            CopyIsRow(c, sleeve') /\ \A x \in Sleeves : sleeve'[x].tokens = sleeve[x].tokens
  PROVE  IInv'
<1> USE DEF memory, faucet, books
<1>1. TypeOK' /\ CountsOK'
  BY DEF IInv, TypeOK, CountsOK, Rows, Balance
<1>2. Continues(p, c)
  BY Called DEF IInv, Continues
<1>3. \A s \in Sleeves, k \in Kinds : granted[s][k] <= granted'[s][k]
  BY DEF IInv, CountsOK, Balance
<1>4. c.at # "drip" /\ c.at \notin Putting /\ call[p].at # "drip" /\ call[p].at \notin Putting /\ Busy(p)
  BY DEF Casting, Holding, Putting, Busy
<1>5. ASSUME ~overlapped'
      PROVE  Alone(p) /\ CopyIsRow(c, sleeve') /\ BooksBalance' /\ DripBound' /\ (errors' = 0 => Chain')
  <2>1. Serial /\ Alone(p) /\ ~overlapped
    BY <1>4, <1>5, GoesOn
  <2>2. CopyIsRow(c, sleeve') /\ \A x \in Sleeves : sleeve'[x].tokens = sleeve[x].tokens
    BY <2>1 DEF Serial
  <2>3. BooksBalance'
    BY <2>1, <2>2 DEF Serial, BooksBalance
  <2>4. DripBound'
    <3>1. lastDrip + errors <= lastDrip' + errors'
      BY DEF IInv, CountsOK
    <3> QED BY <1>1, <1>4, <2>1, <3>1, DripBoundKept DEF IInv, Serial
  <2>5. errors' = 0 => Chain'
    BY <1>1, <1>2, <1>4, <2>1, ChainKept DEF IInv, Serial
  <2> QED BY <2>1, <2>2, <2>3, <2>4, <2>5
<1>6. DOMAIN parent \subseteq DOMAIN parent' /\ CopyWithin(c, granted', parent')
      /\ \A x \in Sleeves : Within(sleeve'[x].tokens, x, granted')
  OBVIOUS
<1> QED BY <1>1, <1>3, <1>4, <1>5, <1>6, StepKept

LEMMA ReconstructKeeps ==
  ASSUME LedgerAssumption, IInv, NEW p \in Calls, Reconstruct(p)
  PROVE  IInv'
<1>1. PICK d : d = call[p]
  OBVIOUS
<1>2. /\ d \in Saga /\ d.at = "reconstruct" /\ CopyWithin(d, granted, parent)
      /\ d.to \in Sleeves /\ d.ttokens \in Balance /\ d.at \in Casting
  BY <1>1, Places DEF Reconstruct, At, IInv, CallOK, CopiesWithin, Saga, Casting, Holding
<1>3. Within(d.ttokens, d.to, granted)
  BY <1>2 DEF CopyWithin, CopiesOf
<1>4. PICK c : c = [d EXCEPT !.at = "settle"]
  OBVIOUS
<1>5. /\ c \in Saga /\ c.at = "settle" /\ c.from = d.from /\ c.tokens = d.tokens
      /\ c.to = d.to /\ c.ttokens = d.ttokens
  BY <1>2, <1>4, SagaMoves DEF Casting, Holding
<1>6. c \in Locals /\ CopyWithin(c, granted, parent)
  BY <1>2, <1>5 DEF Locals, CopyWithin, Pays, CopiesOf, Casting, Holding, Putting
<1>7. /\ call' = [call EXCEPT ![p] = c] /\ WriteTokens(d.to, d.ttokens)
      /\ UNCHANGED <<memory, faucet, books, deleted, overlapped>> /\ errors' = errors /\ deleted' = deleted
  BY <1>1, <1>2, <1>4 DEF Reconstruct, Goes, Becomes
<1>8. /\ sleeve' \in Rows
      /\ \A x \in Sleeves : sleeve'[x].alive = sleeve[x].alive
      /\ \A x \in Sleeves : sleeve'[x].tokens = IF x = d.to THEN d.ttokens ELSE sleeve[x].tokens
  <2>1. sleeve \in Rows
    BY DEF IInv, TypeOK, Rows, Balance
  <2> QED BY <1>2, <1>7, <2>1, TokensWritten
<1>9. \A x \in Sleeves : Within(sleeve'[x].tokens, x, granted)
  BY <1>3, <1>8 DEF IInv, CopiesWithin
<1>10. errors' \in Nat /\ errors <= errors' /\ CountsOK'
  BY <1>7 DEF IInv, CountsOK, memory, faucet, books
<1>11. Held'
  <2>1. Continues(p, c) /\ c.at \in Holding /\ c.at # "rollback"
    BY <1>5, <1>6, <1>7, Called DEF IInv, Continues, Holding
  <2> QED BY <1>1, <1>5, <1>7, <1>8, <1>10, <2>1, HeldKept DEF IInv
<1>12. CopyIsRow(d, sleeve) => CopyIsRow(c, sleeve') /\ \A x \in Sleeves : sleeve'[x].tokens = sleeve[x].tokens
  <2>1. SUFFICES ASSUME CopyIsRow(d, sleeve)
                 PROVE  CopyIsRow(c, sleeve') /\ \A x \in Sleeves : sleeve'[x].tokens = sleeve[x].tokens
    OBVIOUS
  <2>2. d.ttokens = sleeve[d.to].tokens
    BY <1>2, <2>1 DEF CopyIsRow
  <2>3. \A x \in Sleeves : sleeve'[x].tokens = sleeve[x].tokens
    BY <1>8, <2>2
  <2>4. CopyIsRow(c, sleeve)
    BY <1>2, <1>5, <2>1 DEF CopyIsRow
  <2> QED BY <1>6, <2>3, <2>4, RowsAgree
<1>13. c.at \in Casting \cup {"done"}
  BY <1>5 DEF Casting, Holding
<1> QED BY <1>1, <1>2, <1>6, <1>7, <1>8, <1>9, <1>10, <1>11, <1>12, <1>13, SagaKept

LEMMA FreezeKeeps ==
  ASSUME LedgerAssumption, IInv, NEW p \in Calls, Freeze(p)
  PROVE  IInv'
<1>1. PICK d : d = call[p]
  OBVIOUS
<1>2. d \in Saga /\ d.at = "freeze" /\ CopyWithin(d, granted, parent) /\ d.from \in Sleeves /\ d.at \in Casting
  BY <1>1, Places DEF Freeze, At, IInv, CallOK, CopiesWithin, Saga, Casting
<1>3. PICK c : c = [d EXCEPT !.at = "route"]
  OBVIOUS
<1>4. /\ c \in Saga /\ c.at = "route" /\ c.from = d.from /\ c.tokens = d.tokens
      /\ c.to = d.to /\ c.ttokens = d.ttokens
  BY <1>2, <1>3, SagaMoves DEF Casting, Holding
<1>5. c \in Locals /\ CopyWithin(c, granted, parent)
  BY <1>2, <1>4 DEF Locals, CopyWithin, Pays, CopiesOf, Casting, Holding, Putting
<1>6. /\ call' = [call EXCEPT ![p] = c] /\ WriteAlive(d.from, FALSE)
      /\ UNCHANGED <<memory, faucet, books, deleted, overlapped>> /\ errors' = errors /\ deleted' = deleted
  BY <1>1, <1>2, <1>3 DEF Freeze, Goes, Becomes
<1>7. /\ sleeve' \in Rows
      /\ \A x \in Sleeves : sleeve'[x].alive = IF x = d.from THEN FALSE ELSE sleeve[x].alive
      /\ \A x \in Sleeves : sleeve'[x].tokens = sleeve[x].tokens
  <2>1. sleeve \in Rows
    BY DEF IInv, TypeOK, Rows, Balance
  <2> QED BY <1>2, <1>6, <2>1, AliveWritten
<1>8. \A x \in Sleeves : Within(sleeve'[x].tokens, x, granted)
  BY <1>7 DEF IInv, CopiesWithin
<1>9. errors' \in Nat /\ errors <= errors' /\ CountsOK'
  BY <1>6 DEF IInv, CountsOK, memory, faucet, books
<1>10. Continues(p, c) /\ c.at \in Holding /\ c.at # "rollback" /\ call[p].at \notin Holding
  BY <1>1, <1>2, <1>4, <1>5, <1>6, Called DEF IInv, Continues, Holding
<1>11. Held'
  <2>1. ASSUME NEW x \in Sleeves, ~sleeve'[x].alive
        PROVE  x \in deleted' \/ errors' > 1 \/ \E q \in Calls : call'[q].at \in Holding /\ call'[q].from = x
    <3>1. CASE x = d.from
      <4>1. call'[p].at \in Holding /\ call'[p].from = x
        BY <1>4, <1>10, <3>1 DEF Continues
      <4> QED BY <4>1
    <3>2. CASE x # d.from
      <4>1. ~sleeve[x].alive
        BY <1>7, <2>1, <3>2
      <4>2. CASE x \in deleted \/ errors > 1
        BY <1>6, <4>2
      <4>3. CASE \E q \in Calls : call[q].at \in Holding /\ call[q].from = x
        <5>1. PICK q \in Calls : call[q].at \in Holding /\ call[q].from = x
          BY <4>3
        <5>2. call'[q] = call[q]
          BY <1>10, <5>1 DEF Continues
        <5> QED BY <5>1, <5>2
      <4> QED BY <4>1, <4>2, <4>3 DEF IInv, Held
    <3> QED BY <3>1, <3>2
  <2>2. ASSUME NEW q \in Calls, call'[q].at = "rollback"
        PROVE  errors' > 0
    BY <1>6, <1>10, <2>2 DEF Continues, IInv, Held, At
  <2> QED BY <2>1, <2>2 DEF Held, At
<1>12. CopyIsRow(d, sleeve) => CopyIsRow(c, sleeve') /\ \A x \in Sleeves : sleeve'[x].tokens = sleeve[x].tokens
  <2>1. CopyIsRow(d, sleeve) => CopyIsRow(c, sleeve)
    BY <1>2, <1>4 DEF CopyIsRow
  <2> QED BY <1>5, <1>7, <2>1, RowsAgree
<1>13. c.at \in Casting \cup {"done"}
  BY <1>4 DEF Casting, Holding
<1> QED BY <1>1, <1>2, <1>5, <1>6, <1>7, <1>8, <1>9, <1>11, <1>12, <1>13, SagaKept

\* A needlecast that makes its source alive again leaves the other sleeves as they were held.
LEMMA ReleaseKeeps ==
  ASSUME LedgerAssumption, IInv, NEW p \in Calls, NEW d, d = call[p], d \in Saga, d.at \in Casting,
         WriteAlive(d.from, TRUE), call' = [call EXCEPT ![p] = Done],
         UNCHANGED <<memory, faucet, errors, books, deleted, overlapped>>
  PROVE  IInv'
<1>1. d.from \in Sleeves
  BY DEF Saga
<1>2. /\ sleeve' \in Rows
      /\ \A x \in Sleeves : sleeve'[x].alive = IF x = d.from THEN TRUE ELSE sleeve[x].alive
      /\ \A x \in Sleeves : sleeve'[x].tokens = sleeve[x].tokens
  <2>1. sleeve \in Rows
    BY DEF IInv, TypeOK, Rows, Balance
  <2> QED BY <1>1, <2>1, AliveWritten
<1>3. \A x \in Sleeves : Within(sleeve'[x].tokens, x, granted)
  BY <1>2 DEF IInv, CopiesWithin
<1>4. errors' \in Nat /\ errors <= errors' /\ errors' = errors /\ deleted' = deleted
  BY DEF IInv, CountsOK
<1>5. Continues(p, Done)
  BY DoneFits, Called DEF IInv, Continues
<1>6. Held'
  <2>1. ASSUME NEW x \in Sleeves, ~sleeve'[x].alive
        PROVE  x \in deleted' \/ errors' > 1 \/ \E q \in Calls : call'[q].at \in Holding /\ call'[q].from = x
    <3>1. x # d.from /\ ~sleeve[x].alive
      BY <1>2, <2>1
    <3>2. CASE x \in deleted \/ errors > 1
      BY <1>4, <3>2
    <3>3. CASE \E q \in Calls : call[q].at \in Holding /\ call[q].from = x
      <4>1. PICK q \in Calls : call[q].at \in Holding /\ call[q].from = x
        BY <3>3
      <4>2. call'[q] = call[q]
        BY <1>5, <3>1, <4>1 DEF Continues
      <4> QED BY <4>1, <4>2
    <3> QED BY <3>1, <3>2, <3>3 DEF IInv, Held
  <2>2. ASSUME NEW q \in Calls, call'[q].at = "rollback"
        PROVE  errors' > 0
    BY <1>4, <1>5, <2>2 DEF Continues, IInv, Held, At, Done
  <2> QED BY <2>1, <2>2 DEF Held, At
<1>7. Done \in Locals /\ CopyWithin(Done, granted, parent) /\ CopyIsRow(Done, sleeve') /\ Done.at = "done"
  BY DoneFits
<1> QED BY <1>2, <1>3, <1>4, <1>6, <1>7, SagaKept

LEMMA UnfreezeKeeps ==
  ASSUME LedgerAssumption, IInv, NEW p \in Calls, Unfreeze(p)
  PROVE  IInv'
<1>1. PICK d : d = call[p]
  OBVIOUS
<1>2. d \in Saga /\ d.at \in Casting
  BY <1>1, Places DEF Unfreeze, At, IInv, CallOK, Casting, Holding
<1> QED BY <1>1, <1>2, ReleaseKeeps DEF Unfreeze, Ends, Becomes

LEMMA RollbackKeeps ==
  ASSUME LedgerAssumption, IInv, NEW p \in Calls, Rollback(p)
  PROVE  IInv'
<1>1. PICK d : d = call[p]
  OBVIOUS
<1>2. d \in Saga /\ d.at \in Casting /\ d.at = "rollback" /\ call' = [call EXCEPT ![p] = Done] /\ overlapped' = overlapped
  BY <1>1, Places DEF Rollback, At, IInv, CallOK, Casting, Holding, Ends, Becomes
<1>3. CASE WriteAlive(d.from, TRUE) /\ UNCHANGED errors
  BY <1>1, <1>2, <1>3, ReleaseKeeps DEF Rollback
<1>4. CASE errors' = errors + 1 /\ UNCHANGED sleeve
  <2>1. errors > 0 /\ errors \in Nat /\ overlapped' \in BOOLEAN
    BY <1>1, <1>2 DEF IInv, Held, At, CountsOK
  <2>2. errors' > 1 /\ errors' \in Nat /\ errors <= errors'
    BY <1>4, <2>1
  <2>3. ~overlapped' => ~overlapped /\ Alone(p)
    BY <1>1, <1>2, GoesOn DEF Busy
  <2>4. call[p].at # "drip" /\ call[p].at \notin Putting
    BY <1>1, <1>2 DEF Putting
  <2>5. /\ Done \in Locals /\ CopyWithin(Done, granted, parent) /\ CopyIsRow(Done, sleeve)
        /\ Done.at \notin Putting /\ Done.at # "rollback" /\ Done.at # "drip"
    BY DoneFits DEF Putting
  <2> QED BY <1>2, <1>4, <2>1, <2>2, <2>3, <2>4, <2>5, ReadKept DEF Rollback
<1> QED BY <1>1, <1>3, <1>4 DEF Rollback

-----------------------------------------------------------------------------
(* The drip.                                                                *)

\* The drip d with the sleeve s done.
Served(d, s) == [d EXCEPT !.left = Restrict(@, DOMAIN @ \ {s})]

LEMMA Remaining ==
  ASSUME NEW d \in Dripping, NEW s \in DOMAIN d.left, NEW c, c = Served(d, s)
  PROVE  /\ c \in Dripping /\ c.at = "drip" /\ c.now = d.now
         /\ s \notin DOMAIN c.left /\ s \in Sleeves /\ d.left[s] \in Balance
         /\ \A x \in DOMAIN c.left : x \in DOMAIN d.left /\ c.left[x] = d.left[x] /\ x # s
<1>1. PICK S \in SUBSET Sleeves : d.left \in [S -> Balance]
  BY DEF Dripping
<1>2. PICK f : f = [x \in S \ {s} |-> d.left[x]]
  OBVIOUS
<1>3. f \in [S \ {s} -> Balance] /\ S \ {s} \in SUBSET Sleeves /\ s \in S
  BY <1>1, <1>2
<1>4. f = Restrict(d.left, DOMAIN d.left \ {s})
  BY <1>1, <1>2 DEF Restrict
<1>5. c = [d EXCEPT !.left = f]
  BY <1>4 DEF Served
<1>6. c.at = "drip" /\ c.now = d.now /\ c.left = f /\ c = [at |-> "drip", now |-> d.now, left |-> f]
  BY <1>5 DEF Dripping
<1>7. c \in Dripping
  BY <1>3, <1>6 DEF Dripping
<1> QED BY <1>1, <1>2, <1>3, <1>6, <1>7

LEMMA DripWriteKeeps ==
  ASSUME LedgerAssumption, IInv, NEW p \in Calls, DripWrite(p)
  PROVE  IInv'
<1> USE DEF memory, faucet
<1>1. PICK d : d = call[p]
  OBVIOUS
<1>2. d \in Dripping /\ d.at = "drip" /\ d \in Locals /\ CopyWithin(d, granted, parent) /\ call[p].at = "drip"
  BY <1>1, Places DEF DripWrite, At, IInv, CallOK, CopiesWithin
<1>3. PICK s \in DOMAIN d.left :
        /\ WriteTokens(s, Plus(d.left[s], Grant))
        /\ granted' = [granted EXCEPT ![s] = Plus(@, Grant)]
        /\ Becomes(p, [d EXCEPT !.left = Restrict(@, DOMAIN @ \ {s})])
  BY <1>1 DEF DripWrite
<1>4. PICK c : c = Served(d, s)
  OBVIOUS
<1>5. /\ c \in Dripping /\ c.at = "drip" /\ c.now = d.now
      /\ s \notin DOMAIN c.left /\ s \in Sleeves /\ d.left[s] \in Balance
      /\ \A x \in DOMAIN c.left : x \in DOMAIN d.left /\ c.left[x] = d.left[x] /\ x # s
  BY <1>2, <1>3, <1>4, Remaining
<1>6. c \in Locals
  BY <1>5 DEF Locals
<1>7. call' = [call EXCEPT ![p] = c] /\ overlapped' = overlapped
  BY <1>3, <1>4 DEF Becomes, Served
<1>8. Grant \in Balance /\ Initial \in Balance /\ granted \in [Sleeves -> Balance]
  BY DEF LedgerAssumption, Balance, IInv, CountsOK
<1>9. PICK t : t = Plus(d.left[s], Grant)
  OBVIOUS
<1>10. t \in Balance /\ \A k \in Kinds : t[k] = d.left[s][k] + Grant[k]
  BY <1>5, <1>8, <1>9, Added
<1>11. sleeve \in Rows
  BY DEF IInv, TypeOK, Rows, Balance
<1>12. /\ sleeve' \in Rows
       /\ \A x \in Sleeves : sleeve'[x].alive = sleeve[x].alive
       /\ \A x \in Sleeves : sleeve'[x].tokens = IF x = s THEN t ELSE sleeve[x].tokens
  BY <1>3, <1>5, <1>9, <1>10, <1>11, TokensWritten
<1>13. /\ Plus(granted[s], Grant) \in Balance
       /\ \A k \in Kinds : Plus(granted[s], Grant)[k] = granted[s][k] + Grant[k]
  BY <1>5, <1>8, Added
<1>14. /\ granted' \in [Sleeves -> Balance]
       /\ \A x \in Sleeves : granted'[x] = IF x = s THEN Plus(granted[s], Grant) ELSE granted[x]
  BY <1>3, <1>5, <1>8, <1>13
<1>15. TypeOK' /\ CountsOK'
  BY <1>7, <1>12, <1>14 DEF DripWrite, IInv, TypeOK, CountsOK, Rows, Balance
<1>16. \A x \in Sleeves, k \in Kinds : /\ granted[x][k] <= granted'[x][k]
                                       /\ granted'[x][k] = granted[x][k] + (IF x = s THEN Grant[k] ELSE 0)
                                       /\ granted[x][k] \in Nat /\ Grant[k] \in Nat /\ Initial[k] \in Nat
  BY <1>8, <1>13, <1>14 DEF Balance
<1>17. CopiesOf(d, granted')
  BY <1>2, <1>15, <1>16, CopiesGrow DEF IInv, CopyWithin
<1>18. CopyWithin(c, granted', parent')
  <2>1. \A x \in DOMAIN c.left : Within(c.left[x], x, granted')
    BY <1>2, <1>5, <1>17 DEF CopiesOf
  <2> QED BY <1>5, <2>1 DEF CopyWithin, CopiesOf, Pays, Putting, Casting, Holding
<1>19. ASSUME NEW x \in Sleeves
       PROVE  Within(sleeve'[x].tokens, x, granted')
  <2>1. CASE x = s
    <3>1. Within(d.left[s], s, granted)
      BY <1>2 DEF CopyWithin, CopiesOf
    <3>2. \A k \in Kinds : d.left[s][k] <= Initial[k] + granted[s][k] /\ d.left[s][k] \in Nat
      BY <1>5, <3>1 DEF Within, Balance
    <3>3. \A k \in Kinds : t[k] <= Initial[k] + granted'[s][k]
      BY <1>5, <1>10, <1>16, <3>2
    <3> QED BY <1>12, <2>1, <3>3 DEF Within
  <2>2. CASE x # s
    BY <1>12, <1>14, <2>2 DEF IInv, CopiesWithin, Within
  <2> QED BY <2>1, <2>2
<1>20. Continues(p, c)
  BY <1>6, <1>7, Called DEF IInv, Continues
<1>21. errors' = errors /\ errors <= errors' /\ deleted' = deleted /\ lastDrip' = lastDrip /\ window' = window
       /\ parent' = parent /\ episodicHead' = episodicHead /\ charged' = charged
  BY DEF DripWrite, IInv, CountsOK
<1>22. Held'
  <2>1. call[p].at \notin Holding /\ c.at # "rollback"
    BY <1>1, <1>2, <1>5 DEF Holding
  <2> QED BY <1>12, <1>15, <1>20, <1>21, <2>1, HeldKept DEF IInv
<1>23. ASSUME ~overlapped'
       PROVE  /\ Alone(p) /\ CopyIsRow(c, sleeve')
              /\ (c.at = "drip" => lastDrip' < c.now)
              /\ BooksBalance' /\ DripBound' /\ (errors' = 0 => Chain')
  <2>1. Serial /\ Alone(p)
    BY <1>1, <1>2, <1>7, <1>23, GoesOn DEF Busy
  <2>2. \A x \in DOMAIN d.left : d.left[x] = sleeve[x].tokens
    BY <1>1, <1>2, <2>1 DEF Serial, CopyIsRow
  <2>3. CopyIsRow(c, sleeve')
    <3>1. ASSUME NEW x \in DOMAIN c.left
          PROVE  c.left[x] = sleeve'[x].tokens
      <4>1. x \in Sleeves
        BY <1>2, <1>5 DEF Dripping
      <4> QED BY <1>5, <1>12, <2>2, <4>1
    <3> QED BY <1>5, <3>1 DEF CopyIsRow
  <2>4. c.at = "drip" => lastDrip' < c.now
    BY <1>1, <1>2, <1>5, <1>21, <2>1 DEF Serial, DripInTime, At
  <2>5. BooksBalance'
    <3>1. charged[s] \in Balance /\ granted[s] \in Balance
      BY <1>5 DEF IInv, CountsOK
    <3>2. sleeve[s].tokens = Minus(Plus(Initial, granted[s]), charged[s])
      BY <1>5, <2>1 DEF Serial, BooksBalance
    <3>3. t = Plus(sleeve[s].tokens, Grant)
      BY <1>9, <2>2
    <3>4. t = Minus(Plus(Initial, Plus(granted[s], Grant)), charged[s])
      BY <1>8, <3>1, <3>2, <3>3, Regrouped
    <3>5. ASSUME NEW x \in Sleeves
          PROVE  sleeve'[x].tokens = Minus(Plus(Initial, granted'[x]), charged'[x])
      <4>1. CASE x = s
        BY <1>12, <1>14, <1>21, <3>4, <4>1
      <4>2. CASE x # s
        BY <1>12, <1>14, <1>21, <2>1, <4>2 DEF Serial, BooksBalance
      <4> QED BY <4>1, <4>2
    <3> QED BY <3>5 DEF BooksBalance
  <2>6. DripBound'
    <3>1. At(p, "drip")' /\ s \notin DOMAIN call'[p].left /\ call'[p] = c
      BY <1>5, <1>20 DEF At, Continues
    <3>2. ASSUME NEW x \in Sleeves, NEW k \in Kinds
          PROVE  \/ granted'[x][k] <= (lastDrip' + errors') * Grant[k]
                 \/ /\ granted'[x][k] <= (lastDrip' + errors' + 1) * Grant[k]
                    /\ \E q \in Calls : At(q, "drip")' /\ x \notin DOMAIN call'[q].left
      <4>1. PICK m : m = lastDrip + errors
        OBVIOUS
      <4>2. m \in Nat /\ m = lastDrip' + errors'
        BY <1>21, <4>1 DEF IInv, CountsOK
      <4>3. (m + 1) * Grant[k] = m * Grant[k] + Grant[k] /\ m * Grant[k] \in Nat
        BY <1>16, <4>2, OneMore, ProductType
      <4>4. \/ granted[x][k] <= m * Grant[k]
            \/ granted[x][k] <= (m + 1) * Grant[k] /\ \E q \in Calls : At(q, "drip") /\ x \notin DOMAIN call[q].left
        BY <2>1, <4>1 DEF Serial, DripBound
      <4>5. (\E q \in Calls : At(q, "drip") /\ x \notin DOMAIN call[q].left) => x \notin DOMAIN d.left
        BY <1>1, <2>1 DEF At, Alone, Busy
      <4>6. CASE x = s
        <5>1. granted[x][k] <= m * Grant[k]
          BY <4>4, <4>5, <4>6
        <5>2. granted'[x][k] <= (m + 1) * Grant[k]
          BY <1>16, <4>3, <4>6, <5>1
        <5> QED BY <3>1, <4>2, <4>6, <5>2
      <4>7. CASE x # s
        <5>1. granted'[x][k] = granted[x][k]
          BY <1>16, <4>7
        <5>2. x \notin DOMAIN d.left => x \notin DOMAIN call'[p].left
          BY <1>5, <3>1
        <5> QED BY <3>1, <4>2, <4>4, <4>5, <5>1, <5>2
      <4> QED BY <4>6, <4>7
    <3> QED BY <3>2 DEF DripBound
  <2>7. errors' = 0 => Chain'
    <3>1. call[p].at \notin Putting /\ c.at \notin Putting
      BY <1>1, <1>2, <1>5 DEF Putting
    <3> QED BY <1>15, <1>20, <1>21, <2>1, <3>1, ChainKept DEF IInv, Serial
  <2> QED BY <2>1, <2>3, <2>4, <2>5, <2>6, <2>7
<1>24. DOMAIN parent \subseteq DOMAIN parent' /\ window' = window /\ c.now <= window
  BY <1>1, <1>2, <1>5, <1>21 DEF IInv, DripsTimely, At
<1> QED BY <1>6, <1>7, <1>15, <1>16, <1>18, <1>19, <1>22, <1>23, <1>24, StepKept

LEMMA DripDoneKeeps ==
  ASSUME LedgerAssumption, IInv, NEW p \in Calls, DripDone(p)
  PROVE  IInv'
<1> USE DEF memory, books
<1>1. PICK d : d = call[p]
  OBVIOUS
<1>2. d \in Dripping /\ d.at = "drip" /\ call[p].at = "drip" /\ d.now \in Nat
  BY <1>1, Places DEF DripDone, At, IInv, CallOK, Dripping
<1>3. call' = [call EXCEPT ![p] = Done] /\ overlapped' = overlapped /\ lastDrip' = d.now
  BY <1>1 DEF DripDone, Ends, Becomes
<1>4. Continues(p, Done)
  BY <1>3, DoneFits, Called DEF IInv, Continues
<1>5. CountsOK'
  BY <1>2, <1>3 DEF DripDone, IInv, CountsOK
<1>6. Held'
  <2>1. call[p].at \notin Holding /\ errors <= errors' /\ Done.at # "rollback"
    BY <1>2 DEF Holding, DripDone, IInv, CountsOK, Done
  <2> QED BY <1>4, <1>5, <2>1, HeldKept DEF IInv, DripDone
<1>7. \A s \in Sleeves, k \in Kinds : granted[s][k] <= granted'[s][k]
  BY DEF IInv, CountsOK, Balance, DripDone
<1>8. \A s \in Sleeves : Within(sleeve'[s].tokens, s, granted')
  BY DEF IInv, CopiesWithin, DripDone
<1>9. ASSUME ~overlapped'
      PROVE  /\ Alone(p) /\ lastDrip < d.now /\ d.now <= window
             /\ BooksBalance' /\ DripBound' /\ (errors' = 0 => Chain')
  <2>1. Serial /\ Alone(p)
    BY <1>2, <1>3, <1>9, GoesOn DEF Busy
  <2>2. lastDrip < d.now /\ d.now <= window
    BY <1>1, <1>2, <2>1 DEF Serial, DripInTime, At
  <2>3. BooksBalance'
    BY <2>1 DEF Serial, BooksBalance, DripDone
  <2>4. ASSUME NEW x \in Sleeves, NEW k \in Kinds
        PROVE  granted'[x][k] <= (lastDrip' + errors') * Grant[k]
    <3>1. PICK m : m = lastDrip + errors
      OBVIOUS
    <3>2. PICK w : w = lastDrip' + errors'
      OBVIOUS
    <3>3. m \in Nat /\ w \in Nat /\ m + 1 <= w /\ Grant[k] \in Nat /\ granted[x][k] \in Nat /\ m + 1 \in Nat
      <4>1. lastDrip \in Nat /\ errors \in Nat /\ errors' = errors
        BY DEF DripDone, IInv, CountsOK
      <4>2. Grant[k] \in Nat /\ granted[x][k] \in Nat
        BY DEF IInv, CountsOK, LedgerAssumption, Balance
      <4> QED BY <1>2, <1>3, <2>2, <3>1, <3>2, <4>1, <4>2
    <3>4. /\ (m + 1) * Grant[k] = m * Grant[k] + Grant[k] /\ m * Grant[k] \in Nat
          /\ (m + 1) * Grant[k] <= w * Grant[k] /\ w * Grant[k] \in Nat
      BY <3>3, OneMore, ProductType, ProductGrows
    <3>5. granted[x][k] <= m * Grant[k] \/ granted[x][k] <= (m + 1) * Grant[k]
      BY <2>1, <3>1 DEF Serial, DripBound
    <3>6. granted[x][k] <= w * Grant[k]
      BY <3>3, <3>4, <3>5
    <3> QED BY <3>2, <3>6 DEF DripDone
  <2>5. DripBound'
    BY <2>4 DEF DripBound
  <2>6. errors' = 0 => Chain'
    <3>1. call[p].at \notin Putting /\ Done.at \notin Putting /\ errors <= errors'
      BY <1>2 DEF Putting, Done, DripDone, IInv, CountsOK
    <3> QED BY <1>4, <1>5, <2>1, <3>1, ChainKept DEF IInv, Serial, DripDone
  <2> QED BY <2>1, <2>2, <2>3, <2>5, <2>6
<1>10. TypeOK'
  <2>1. lastDrip' \in Nat /\ window' = window /\ window \in Nat
    BY <1>2, <1>3 DEF DripDone, IInv, CountsOK
  <2>2. d.now <= window
    BY <1>1, <1>2 DEF IInv, DripsTimely, At
  <2> QED BY <1>3, <2>1, <2>2 DEF DripDone, IInv, TypeOK
<1>11. Done.at # "drip"
  BY DEF Done
<1> QED BY <1>3, <1>5, <1>6, <1>7, <1>8, <1>9, <1>10, <1>11, DoneFits, StepKept DEF DripDone

-----------------------------------------------------------------------------
(* The steps of no call.                                                    *)

LEMMA DeleteKeeps ==
  ASSUME LedgerAssumption, IInv, NEW s \in Sleeves, Delete(s)
  PROVE  IInv'
<1> USE DEF memory, faucet, books
<1>1. /\ sleeve' \in Rows
      /\ \A x \in Sleeves : sleeve'[x].alive = IF x = s THEN FALSE ELSE sleeve[x].alive
      /\ \A x \in Sleeves : sleeve'[x].tokens = sleeve[x].tokens
  <2>1. sleeve \in Rows
    BY DEF IInv, TypeOK, Rows, Balance
  <2> QED BY <2>1, AliveWritten DEF Delete
<1>2. TypeOK' /\ CountsOK' /\ CallOK'
  BY <1>1 DEF Delete, IInv, TypeOK, CountsOK, CallOK, Rows, Balance
<1>3. CopiesWithin'
  BY <1>1 DEF Delete, IInv, CopiesWithin
<1>4. Held'
  BY <1>1 DEF Delete, IInv, Held, At
<1>5. ASSUME ~overlapped' PROVE Serial'
  <2>1. Serial
    BY <1>5 DEF Delete, IInv
  <2>2. \A p \in Calls : CopyIsRow(call[p], sleeve')
    BY <1>1, <2>1, RowsAgree DEF Serial, IInv, CallOK
  <2>3. BooksBalance'
    BY <1>1, <2>1 DEF Serial, BooksBalance, Delete
  <2>4. (\A p \in Calls : Busy(p) => Alone(p))' /\ DripInTime' /\ DripBound' /\ (errors' = 0 => Chain')
    BY <2>1 DEF Serial, Delete, Busy, Alone, DripInTime, DripBound, Chain, At
  <2> QED BY <2>2, <2>3, <2>4 DEF Serial, Delete
<1> QED BY <1>2, <1>3, <1>4, <1>5, <1>1 DEF IInv, DripsTimely, Delete, At

LEMMA NewWindowKeeps ==
  ASSUME LedgerAssumption, IInv, NewWindow
  PROVE  IInv'
<1> USE DEF memory, books
<1>1. window \in Nat /\ window' = window + 1 /\ lastDrip \in 0 .. window
  BY DEF NewWindow, IInv, CountsOK, TypeOK
<1>2. TypeOK' /\ CountsOK' /\ CallOK'
  BY <1>1 DEF NewWindow, IInv, TypeOK, CountsOK, CallOK
<1>3. CopiesWithin' /\ Held'
  BY DEF NewWindow, IInv, CopiesWithin, Held, At
<1>4. DripsTimely'
  <2>1. ASSUME NEW p \in Calls, At(p, "drip")
        PROVE  call[p].now <= window + 1
    <3>1. call[p] \in Dripping /\ call[p].now <= window
      BY <2>1, Places DEF At, IInv, CallOK, DripsTimely
    <3> QED BY <1>1, <3>1 DEF Dripping
  <2> QED BY <1>1, <2>1 DEF DripsTimely, NewWindow, At
<1>5. ASSUME ~overlapped' PROVE Serial'
  <2>1. Serial
    BY <1>5 DEF NewWindow, IInv
  <2>2. (\A p \in Calls : CopyIsRow(call[p], sleeve))' /\ BooksBalance'
    BY <2>1 DEF Serial, BooksBalance, NewWindow
  <2>3. (\A p \in Calls : Busy(p) => Alone(p))' /\ DripBound' /\ (errors' = 0 => Chain')
    BY <2>1 DEF Serial, NewWindow, Busy, Alone, DripBound, Chain, At
  <2>4. DripInTime'
    BY <1>4, <2>1 DEF Serial, DripInTime, DripsTimely, NewWindow, At
  <2> QED BY <2>2, <2>3, <2>4 DEF Serial
<1> QED BY <1>2, <1>3, <1>4, <1>5 DEF IInv

-----------------------------------------------------------------------------
(* The invariant.                                                           *)

LEMMA InitHolds ==
  ASSUME LedgerAssumption, Init
  PROVE  IInv
<1>1. Nothing \in Balance /\ Initial \in Balance /\ Grant \in Balance /\ \A k \in Kinds : Nothing[k] = 0
  BY DEF Nothing, Balance, LedgerAssumption
<1>2. \A p \in Calls : call[p] = Idle /\ call[p].at = "idle"
  BY DEF Init, Idle
<1>3. TypeOK /\ CountsOK
  <2>1. parent = <<>> /\ parent \in Seq(Nat) /\ DOMAIN parent = {}
    BY DEF Init
  <2>2. /\ granted \in [Sleeves -> Balance] /\ charged \in [Sleeves -> Balance]
        /\ overlapped \in BOOLEAN
    BY <1>1 DEF Init
  <2>3. sleeve \in [Sleeves -> [alive : BOOLEAN, tokens : [Kinds -> Nat]]]
    BY DEF Init, LedgerAssumption
  <2>4. window \in Nat /\ lastDrip \in Nat /\ errors \in Nat /\ lastDrip \in 0 .. window /\ episodicHead = 0
    BY DEF Init
  <2> QED BY <2>1, <2>2, <2>3, <2>4 DEF TypeOK, CountsOK
<1>4. CallOK
  BY DEF Init, CallOK, Locals, Ended, Idle
<1>5. CopiesWithin
  <2>1. \A s \in Sleeves : sleeve[s].tokens = Initial /\ granted[s] = Nothing
    BY DEF Init
  <2>2. \A k \in Kinds : Initial[k] \in Nat /\ Nothing[k] = 0
    BY <1>1 DEF Balance
  <2>3. \A s \in Sleeves : Within(sleeve[s].tokens, s, granted)
    BY <2>1, <2>2 DEF Within
  <2>4. \A p \in Calls : CopyWithin(call[p], granted, parent)
    BY <1>2 DEF CopyWithin, Pays, CopiesOf, Putting, Casting, Holding
  <2> QED BY <2>3, <2>4 DEF CopiesWithin
<1>6. Held /\ DripsTimely /\ DripInTime
  BY <1>2 DEF Init, Held, DripsTimely, DripInTime, At
<1>7. BooksBalance
  <2>1. Minus(Plus(Initial, Nothing), Nothing) = Initial
    <3>1. /\ \A k \in Kinds : Minus(Plus(Initial, Nothing), Nothing)[k] = Initial[k]
          /\ Minus(Plus(Initial, Nothing), Nothing) = [k \in Kinds |-> Minus(Plus(Initial, Nothing), Nothing)[k]]
      BY <1>1, Entries DEF Balance
    <3>2. Initial = [k \in Kinds |-> Initial[k]]
      BY <1>1 DEF Balance
    <3> DEFINE e == Minus(Plus(Initial, Nothing), Nothing)
    <3> HIDE DEF e
    <3>3. e = [k \in Kinds |-> e[k]] /\ \A k \in Kinds : e[k] = Initial[k]
      BY <3>1 DEF e
    <3>4. e = Initial
      BY ONLY <3>2, <3>3
    <3> QED BY <3>4 DEF e
  <2> QED BY <2>1 DEF Init, BooksBalance
<1>8. DripBound
  <2>1. \A s \in Sleeves, k \in Kinds : granted[s][k] = 0 /\ (lastDrip + errors) * Grant[k] \in Nat
    BY <1>1, ProductType DEF Init, Balance
  <2> QED BY <2>1 DEF DripBound
<1>9. Chain
  BY <1>2 DEF Init, Chain, Putting
<1>10. \A p \in Calls : CopyIsRow(call[p], sleeve)
  BY <1>2 DEF CopyIsRow
<1>11. \A p \in Calls : Busy(p) => Alone(p)
  BY <1>2 DEF Busy
<1> QED BY <1>3, <1>4, <1>5, <1>6, <1>7, <1>8, <1>9, <1>10, <1>11 DEF IInv, Serial

LEMMA StepHolds ==
  ASSUME LedgerAssumption, IInv, [Next]_vars
  PROVE  IInv'
<1>1. CASE UNCHANGED vars
  <2>1. /\ (TypeOK /\ CallOK /\ CountsOK /\ DripsTimely)' /\ CopiesWithin' /\ Held'
    BY <1>1 DEF vars, memory, faucet, books, IInv, TypeOK, CallOK, CountsOK, DripsTimely, CopiesWithin, Held, At
  <2>2. ASSUME ~overlapped' PROVE Serial'
    BY <1>1, <2>2 DEF vars, memory, faucet, books, IInv, Serial, Busy, Alone, BooksBalance, DripInTime, DripBound, Chain, At
  <2> QED BY <2>1, <2>2 DEF IInv
<1>2. ASSUME NEW p \in Calls, NEW s \in Sleeves,
             PerceiveRead(p, s) \/ SyncRead(p, s) \/ CastRead(p, s) \/ CastReadTarget(p, s)
      PROVE  IInv'
  BY <1>2, PerceiveReadKeeps, SyncReadKeeps, CastReadKeeps, CastReadTargetKeeps
<1>3. ASSUME NEW p \in Calls, PerceivePut(p) \/ PerceiveWrite(p) \/ RememberPut(p) \/ RememberWrite(p) \/ SyncWrite(p)
      PROVE  IInv'
  BY <1>3, PerceivePutKeeps, PerceiveWriteKeeps, RememberPutKeeps, RememberWriteKeeps, SyncWriteKeeps
<1>4. ASSUME NEW p \in Calls,
             Freeze(p) \/ Route(p) \/ Reconstruct(p) \/ Settle(p) \/ Unfreeze(p) \/ Rollback(p)
      PROVE  IInv'
  BY <1>4, FreezeKeeps, RouteKeeps, ReconstructKeeps, SettleKeeps, UnfreezeKeeps, RollbackKeeps
<1>5. ASSUME NEW p \in Calls, DripRead(p) \/ DripWrite(p) \/ DripDone(p) \/ Throw(p)
      PROVE  IInv'
  BY <1>5, DripReadKeeps, DripWriteKeeps, DripDoneKeeps, ThrowKeeps
<1>6. ASSUME NEW s \in Sleeves, Delete(s)
      PROVE  IInv'
  BY <1>6, DeleteKeeps
<1> QED BY <1>1, <1>2, <1>3, <1>4, <1>5, <1>6, NewWindowKeeps DEF Next

\* The strengthening, and why it is inductive: a write starts from a copy, so the rows
\* stay within what was given because the copies do, and they add up, served one at a
\* time, because the copies are the rows.
THEOREM InductiveInvariant == Spec => []IInv
<1>1. Init => IInv
  BY LedgerAssumption, InitHolds
<1>2. IInv /\ [Next]_vars => IInv'
  BY LedgerAssumption, StepHolds
<1> QED BY <1>1, <1>2, PTL DEF Spec

\* However many calls interleave over their stale copies, and whatever fails, no row of a
\* sleeve goes below zero or above what the sleeve started with and was granted.
THEOREM NoTokensFromNowhere == Spec => []NothingFromNowhere
<1>1. IInv => NothingFromNowhere
  BY DEF IInv, CopiesWithin, Within, NothingFromNowhere
<1> QED BY <1>1, InductiveInvariant, PTL

\* needlecast-router-svc leaves no sleeve frozen: one that is not alive was
\* decommissioned, is held by a needlecast under way, or the undo failed after a failure.
THEOREM NoSleeveLeftFrozen == Spec => []FrozenOnlyInSaga
<1>1. IInv => FrozenOnlyInSaga
  BY DEF IInv, Held, Holding, InSaga, FrozenOnlyInSaga
<1> QED BY <1>1, InductiveInvariant, PTL

\* Served one at a time, the handlers of siyana-api, the router and the faucet keep each
\* balance equal to what was given less what was charged, and drip once for each window
\* and once more for each failure.
THEOREM BalancesAddUp == Spec => []LedgerBalances
<1>1. ASSUME IInv PROVE LedgerBalances
  <2>1. SUFFICES ASSUME ~overlapped, NEW s \in Sleeves
                 PROVE  /\ sleeve[s].tokens = Minus(Plus(Initial, granted[s]), charged[s])
                        /\ \A k \in Kinds : granted[s][k] <= (window + errors) * Grant[k]
    BY DEF LedgerBalances
  <2>2. Serial
    BY <1>1, <2>1 DEF IInv
  <2>3. ASSUME NEW k \in Kinds
        PROVE  granted[s][k] <= (window + errors) * Grant[k]
    <3>1. PICK m : m = lastDrip + errors
      OBVIOUS
    <3>2. PICK w : w = window + errors
      OBVIOUS
    <3>3. m \in Nat /\ w \in Nat /\ m <= w /\ m + 1 \in Nat
      BY <1>1, <3>1, <3>2 DEF IInv, CountsOK, TypeOK
    <3>4. Grant[k] \in Nat /\ granted[s][k] \in Nat
      BY <1>1, LedgerAssumption DEF LedgerAssumption, IInv, CountsOK, Balance
    <3>5. CASE granted[s][k] <= m * Grant[k]
      <4>1. m * Grant[k] <= w * Grant[k] /\ m * Grant[k] \in Nat /\ w * Grant[k] \in Nat
        BY <3>3, <3>4, ProductGrows, ProductType
      <4> QED BY <3>2, <3>4, <3>5, <4>1
    <3>6. CASE granted[s][k] <= (m + 1) * Grant[k] /\ \E q \in Calls : At(q, "drip")
      <4>1. PICK q \in Calls : At(q, "drip")
        BY <3>6
      <4>2. call[q].now \in Nat /\ lastDrip < call[q].now /\ call[q].now <= window
        BY <1>1, <2>2, <4>1, Places DEF At, IInv, CallOK, Dripping, Serial, DripInTime
      <4>3. m + 1 <= w
        BY <1>1, <3>1, <3>2, <4>2 DEF IInv, CountsOK
      <4>4. (m + 1) * Grant[k] <= w * Grant[k] /\ (m + 1) * Grant[k] \in Nat /\ w * Grant[k] \in Nat
        BY <3>3, <3>4, <4>3, ProductGrows, ProductType
      <4> QED BY <3>2, <3>4, <3>6, <4>4
    <3> QED BY <2>2, <3>1, <3>5, <3>6 DEF Serial, DripBound
  <2> QED BY <2>2, <2>3 DEF Serial, BooksBalance
<1> QED BY <1>1, InductiveInvariant, PTL

-----------------------------------------------------------------------------
(* From the head back: the recursion of Reachable along the chain.          *)

\* A set of numbers with 0 and the successor of each of its members holds them all.
LEMMA InductiveSet ==
  ASSUME NEW A \in SUBSET Nat, 0 \in A, \A n \in A : n + 1 \in A
  PROVE  A = Nat
<1> DEFINE less == OpToRel(<, Nat)
           rest == Nat \ A
<1>1. SUFFICES ASSUME rest # {} PROVE FALSE
  OBVIOUS
<1>2. IsWellFoundedOn(less, Nat)
  BY NatLessThanWellFounded
<1>3. PICK n \in rest : \A m \in rest : <<m, n>> \notin less
  <2> HIDE DEF less
  <2> QED BY <1>1, <1>2, WFMin
<1>4. n \in Nat /\ n # 0 /\ n - 1 \in Nat
  OBVIOUS
<1>5. <<n - 1, n>> \in less
  BY <1>4 DEF OpToRel
<1>6. n - 1 \in A
  BY <1>3, <1>4, <1>5
<1>7. (n - 1) + 1 = n
  BY <1>4
<1> QED BY <1>3, <1>6, <1>7

\* Fragments and what each leads to.
Leads(f) == f = [n \in DOMAIN parent |-> {n} \cup (IF parent[n] = 0 THEN {} ELSE f[parent[n]])]

LEMMA ChainLeads ==
  ASSUME parent \in Seq(Nat), \A n \in DOMAIN parent : parent[n] = n - 1
  PROVE  \E f : Leads(f)
<1>1. PICK f : f = [n \in DOMAIN parent |-> 1 .. n]
  OBVIOUS
<1>2. ASSUME NEW n \in DOMAIN parent
      PROVE  1 .. n = {n} \cup (IF parent[n] = 0 THEN {} ELSE f[parent[n]])
  <2>1. n \in Nat \ {0} /\ parent[n] = n - 1 /\ DOMAIN parent = 1 .. Len(parent) /\ Len(parent) \in Nat
    OBVIOUS
  <2>2. CASE n = 1
    BY <2>1, <2>2
  <2>3. CASE n # 1
    <3>1. n - 1 \in DOMAIN parent /\ parent[n] # 0
      BY <2>1, <2>3
    <3>2. f[parent[n]] = 1 .. n - 1
      BY <1>1, <2>1, <3>1
    <3> QED BY <2>1, <3>1, <3>2
  <2> QED BY <2>2, <2>3
<1> QED BY <1>1, <1>2 DEF Leads

LEMMA LeadsToAll ==
  ASSUME parent \in Seq(Nat), \A n \in DOMAIN parent : parent[n] = n - 1, NEW f, Leads(f)
  PROVE  \A n \in DOMAIN parent : 1 .. n \subseteq f[n]
<1> DEFINE A == {n \in Nat : n \in DOMAIN parent => 1 .. n \subseteq f[n]}
<1>1. A \in SUBSET Nat /\ \A n \in Nat : n \in A <=> (n \in DOMAIN parent => 1 .. n \subseteq f[n])
  OBVIOUS
<1>2. DOMAIN parent = 1 .. Len(parent) /\ Len(parent) \in Nat
  OBVIOUS
<1> HIDE DEF A
<1>3. 0 \in A
  BY <1>1, <1>2
<1>4. ASSUME NEW n \in A PROVE n + 1 \in A
  <2>1. n \in Nat
    BY <1>1
  <2> SUFFICES ASSUME n + 1 \in DOMAIN parent PROVE 1 .. n + 1 \subseteq f[n + 1]
    BY <1>1, <2>1
  <2>2. parent[n + 1] = n
    BY <2>1
  <2>3. f[n + 1] = {n + 1} \cup (IF n = 0 THEN {} ELSE f[n])
    BY <2>2 DEF Leads
  <2>4. CASE n = 0
    BY <2>3, <2>4
  <2>5. CASE n # 0
    <3>1. n \in DOMAIN parent
      BY <1>2, <2>1, <2>5
    <3>2. 1 .. n \subseteq f[n]
      BY <1>1, <2>1, <3>1
    <3> QED BY <2>1, <2>3, <2>5, <3>2
  <2> QED BY <2>4, <2>5
<1>5. A = Nat
  BY <1>1, <1>3, <1>4, InductiveSet
<1> QED BY <1>1, <1>2, <1>5

\* Served one at a time, no fragment that perceive or remember put in hippocampus is
\* lost to the stack: it is reachable from the head, or about to be the head, or
\* something failed.
THEOREM NoFragmentLost == Spec => []HeadReachesAll
<1>1. ASSUME IInv PROVE HeadReachesAll
  <2>1. SUFFICES ASSUME ~overlapped, errors = 0, NEW n \in DOMAIN parent
                 PROVE  \/ n \in Reachable
                        \/ \E p \in Calls : call[p].at \in {"perceived", "remembered"} /\ call[p].cid = n
    <3>1. errors \in Nat
      BY <1>1 DEF IInv, CountsOK
    <3> QED BY <3>1 DEF HeadReachesAll
  <2>2. Chain /\ parent \in Seq(Nat) /\ DOMAIN parent = 1 .. Len(parent) /\ Len(parent) \in Nat
    BY <1>1, <2>1 DEF IInv, Serial, CountsOK
  <2>3. \A m \in DOMAIN parent : parent[m] = m - 1
    BY <2>2 DEF Chain
  <2> DEFINE past == CHOOSE f : f = [m \in DOMAIN parent |-> {m} \cup (IF parent[m] = 0 THEN {} ELSE f[parent[m]])]
  <2>4. \E f : f = [m \in DOMAIN parent |-> {m} \cup (IF parent[m] = 0 THEN {} ELSE f[parent[m]])]
    <3> HIDE DEF past
    <3>1. PICK f : Leads(f)
      BY <2>2, <2>3, ChainLeads
    <3>2. f = [m \in DOMAIN parent |-> {m} \cup (IF parent[m] = 0 THEN {} ELSE f[parent[m]])]
      BY <3>1 DEF Leads
    <3> QED BY <3>2
  <2>5. past = [m \in DOMAIN parent |-> {m} \cup (IF parent[m] = 0 THEN {} ELSE past[parent[m]])]
    BY <2>4
  <2>6. Reachable = IF episodicHead = 0 THEN {} ELSE past[episodicHead]
    BY DEF Reachable
  <2> HIDE DEF past
  <2>7. Leads(past)
    BY <2>5 DEF Leads
  <2>8. ASSUME episodicHead \in DOMAIN parent, n <= episodicHead
        PROVE  n \in Reachable
    <3>1. 1 .. episodicHead \subseteq past[episodicHead]
      BY <2>2, <2>3, <2>7, <2>8, LeadsToAll
    <3> QED BY <2>2, <2>6, <2>8, <3>1
  <2>9. CASE episodicHead = Len(parent)
    BY <2>2, <2>8, <2>9
  <2>10. CASE /\ episodicHead = Len(parent) - 1
              /\ \E p \in Calls : call[p].at \in Putting /\ call[p].cid = Len(parent)
    <3>1. CASE n = Len(parent)
      BY <2>10, <3>1 DEF Putting
    <3>2. CASE n # Len(parent)
      BY <2>2, <2>8, <2>10, <3>2
    <3> QED BY <3>1, <3>2
  <2> QED BY <2>2, <2>9, <2>10 DEF Chain
<1> QED BY <1>1, InductiveInvariant, PTL
=============================================================================
