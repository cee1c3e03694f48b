----------------------- MODULE InventoryLedgerProofs -----------------------
(***************************************************************************)
(* What InventoryLedger guarantees for every set of components, locations, *)
(* requests and inputs, and ledgers of every length.                       *)
(*                                                                         *)
(* The argument: a rebuild under way holds a snapshot that is still a      *)
(* prefix of the ledger in everything a quantity depends on (SnapshotInv), *)
(* and only works on pairs its snapshot mentions (WorkInv), so whatever it *)
(* writes is the balance after that prefix.  Deleting a location changes   *)
(* recorded transactions, but not what they mean elsewhere (SameAt).       *)
(*                                                                         *)
(* What it needs of the operators of LedgerArithmetic comes first.  The    *)
(* induction over the length of a sequence is an argument by least         *)
(* counterexample: a set of naturals that is not empty has a least element *)
(* (LeastNatural), which WFMin gives for the order on Nat.                 *)
(***************************************************************************)
EXTENDS InventoryLedger, WellFoundedInduction, TLAPS

\* Every nonempty set of naturals has a least element.
LEMMA LeastNatural ==
  ASSUME NEW T \in SUBSET Nat, T # {}
  PROVE  \E x \in T : \A y \in T : x <= y
<1> DEFINE R == {ss \in Nat \X Nat : ss[1] < ss[2]}
<1>1. IsWellFoundedOn(R, Nat)
  BY NatLessThanWellFounded DEF OpToRel
<1>2. PICK x \in T : \A y \in T : ~ (<<y, x>> \in R)
  <2> HIDE DEF R
  <2> QED
    BY <1>1, WFMin
<1>3. \A y \in T : ~ (y < x)
  BY <1>2
<1> QED
  BY <1>3

-----------------------------------------------------------------------------
(* The running total is well defined. *)

\* The partial sums of the first n elements, as the equation of Total.
SumsUpTo(f, s, n) ==
  f = [i \in 0 .. n |-> IF i = 0 THEN 0 ELSE f[i - 1] + s[i]]

\* Partial sums exist up to every length.
LEMMA SumsExist ==
  ASSUME NEW s, NEW n \in Nat
  PROVE  \E f : SumsUpTo(f, s, n)
<1> DEFINE Bad == {k \in Nat : ~ \E f : SumsUpTo(f, s, k)}
<1>1. SUFFICES ASSUME Bad # {} PROVE FALSE
  OBVIOUS
<1>2. PICK k \in Bad : \A y \in Bad : k <= y
  BY <1>1, LeastNatural
<1>3. k # 0
  <2> DEFINE z == [i \in 0 .. 0 |-> 0]
  <2>1. SumsUpTo(z, s, 0)
    BY DEF SumsUpTo
  <2> QED
    BY <2>1, <1>2
<1>4. k - 1 \in Nat /\ k - 1 \notin Bad
  BY <1>2, <1>3
<1>5. PICK f : SumsUpTo(f, s, k - 1)
  BY <1>4
<1> DEFINE g == [i \in 0 .. k |-> IF i = k THEN f[k - 1] + s[k] ELSE f[i]]
<1>6. \A i \in 0 .. k : g[i] = IF i = 0 THEN 0 ELSE g[i - 1] + s[i]
  <2> SUFFICES ASSUME NEW i \in 0 .. k
               PROVE  g[i] = IF i = 0 THEN 0 ELSE g[i - 1] + s[i]
    OBVIOUS
  <2>1. CASE i = k
    BY <2>1, <1>2, <1>3
  <2>2. CASE i # k
    <3>1. i \in 0 .. k - 1
      BY <2>2, <1>2
    <3>2. f[i] = IF i = 0 THEN 0 ELSE f[i - 1] + s[i]
      BY <3>1, <1>5 DEF SumsUpTo
    <3>3. i # 0 => i - 1 \in 0 .. k /\ i - 1 # k
      BY <3>1, <1>2
    <3> QED
      BY <2>2, <3>2, <3>3
  <2> QED
    BY <2>1, <2>2
<1>7. SumsUpTo(g, s, k)
  BY <1>6 DEF SumsUpTo
<1> QED
  BY <1>2, <1>7

\* The function Total is defined by, which is the one its equation describes.
Sums(s) ==
  CHOOSE f : f = [i \in 0 .. Len(s) |->
                    IF i = 0 THEN 0 ELSE f[i - 1] + s[i]]

LEMMA TotalIsLastSum ==
  ASSUME NEW s
  PROVE  Total(s) = Sums(s)[Len(s)]
BY DEF Total, Sums

LEMMA SumsEquation ==
  ASSUME NEW s, Len(s) \in Nat
  PROVE  SumsUpTo(Sums(s), s, Len(s))
BY SumsExist DEF Sums, SumsUpTo

\* What the equation says of a partial sum.
LEMMA SumsStep ==
  ASSUME NEW f, NEW s, NEW n \in Nat, SumsUpTo(f, s, n), NEW i \in 0 .. n
  PROVE  f[i] = IF i = 0 THEN 0 ELSE f[i - 1] + s[i]
<1> DEFINE step(g, j) == IF j = 0 THEN 0 ELSE g[j - 1] + s[j]
<1>1. f = [j \in 0 .. n |-> step(f, j)]
  BY DEF SumsUpTo
<1>2. f[i] = step(f, i)
  <2> HIDE DEF step
  <2> QED
    BY <1>1
<1> QED
  BY <1>2

\* Partial sums of sequences that agree up to k agree up to k.
LEMMA SumsAgree ==
  ASSUME NEW f, NEW g, NEW s, NEW t, NEW n \in Nat, NEW m \in Nat,
         SumsUpTo(f, s, n), SumsUpTo(g, t, m),
         NEW k \in Nat, k <= n, k <= m,
         \A i \in 1 .. k : s[i] = t[i]
  PROVE  f[k] = g[k]
<1> DEFINE Bad == {i \in 0 .. k : f[i] # g[i]}
<1>1. SUFFICES ASSUME Bad # {} PROVE FALSE
  OBVIOUS
<1>2. PICK i \in Bad : \A y \in Bad : i <= y
  <2>1. Bad \in SUBSET Nat
    OBVIOUS
  <2> HIDE DEF Bad
  <2> QED
    BY <1>1, <2>1, LeastNatural
<1>3. i \in 0 .. k /\ i \in 0 .. n /\ i \in 0 .. m
  OBVIOUS
<1>4. /\ f[i] = IF i = 0 THEN 0 ELSE f[i - 1] + s[i]
      /\ g[i] = IF i = 0 THEN 0 ELSE g[i - 1] + t[i]
  BY <1>3, SumsStep
<1>5. i # 0
  BY <1>4
<1>6. i - 1 \in 0 .. k /\ i - 1 \notin Bad
  BY <1>2, <1>3, <1>5
<1> QED
  BY <1>3, <1>4, <1>5, <1>6

\* Partial sums of integers are integers.
LEMMA SumsAreIntegers ==
  ASSUME NEW s \in Seq(Int), NEW f, SumsUpTo(f, s, Len(s)),
         NEW k \in 0 .. Len(s)
  PROVE  f[k] \in Int
<1> DEFINE Bad == {i \in 0 .. Len(s) : f[i] \notin Int}
<1>1. SUFFICES ASSUME Bad # {} PROVE FALSE
  OBVIOUS
<1>2. PICK i \in Bad : \A y \in Bad : i <= y
  <2>1. Bad \in SUBSET Nat
    OBVIOUS
  <2> HIDE DEF Bad
  <2> QED
    BY <1>1, <2>1, LeastNatural
<1>3. i \in 0 .. Len(s) /\ Len(s) \in Nat
  OBVIOUS
<1>4. f[i] = IF i = 0 THEN 0 ELSE f[i - 1] + s[i]
  BY <1>3, SumsStep
<1>5. i # 0
  BY <1>4
<1>6. i - 1 \in 0 .. Len(s) /\ i - 1 \notin Bad
  BY <1>2, <1>3, <1>5
<1>7. s[i] \in Int
  BY <1>3, <1>5
<1> QED
  BY <1>3, <1>4, <1>5, <1>6, <1>7

-----------------------------------------------------------------------------
(* What Total computes. *)

LEMMA TotalIsInteger ==
  ASSUME NEW s \in Seq(Int)
  PROVE  Total(s) \in Int
BY TotalIsLastSum, SumsEquation, SumsAreIntegers

LEMMA TotalOfNone == Total(<<>>) = 0
<1>1. SumsUpTo(Sums(<<>>), <<>>, 0)
  BY SumsEquation
<1>2. Sums(<<>>)[0] = 0
  BY <1>1, SumsStep
<1> QED
  BY <1>2, TotalIsLastSum

\* The total of a sequence that extends another by one element.
LEMMA TotalOfExtension ==
  ASSUME NEW s, NEW t, NEW n \in Nat, NEW e \in Int,
         Len(s) = n, Len(t) = n + 1, t[n + 1] = e,
         \A i \in 1 .. n : s[i] = t[i]
  PROVE  Total(t) = Total(s) + e
<1>1. SumsUpTo(Sums(s), s, n) /\ SumsUpTo(Sums(t), t, n + 1)
  BY SumsEquation
<1>2. n <= n /\ n <= n + 1 /\ n + 1 \in Nat
  OBVIOUS
<1>3. Sums(s)[n] = Sums(t)[n]
  BY <1>1, <1>2, SumsAgree
<1>4. Sums(t)[n + 1] = IF n + 1 = 0 THEN 0 ELSE Sums(t)[n + 1 - 1] + t[n + 1]
  BY <1>1, <1>2, SumsStep
<1>5. Sums(t)[n + 1] = Sums(t)[n] + e
  BY <1>4
<1> QED
  BY <1>3, <1>5, TotalIsLastSum

\* Adding an element adds it to the total.
LEMMA TotalOfAppend ==
  ASSUME NEW s \in Seq(Int), NEW e \in Int
  PROVE  Total(Append(s, e)) = Total(s) + e
<1>1. /\ Len(s) \in Nat
      /\ Len(Append(s, e)) = Len(s) + 1
      /\ Append(s, e)[Len(s) + 1] = e
      /\ \A i \in 1 .. Len(s) : s[i] = Append(s, e)[i]
  OBVIOUS
<1> QED
  BY <1>1, TotalOfExtension

-----------------------------------------------------------------------------
(* What CalculateInventoryProjection computes. *)

LEMMA EffectIsInteger ==
  ASSUME NEW t \in Transaction, NEW l \in Locations
  PROVE  Effect(t, l) \in Int
BY DEF Effect, Transaction

LEMMA EffectsAreIntegers ==
  ASSUME NEW s \in Seq(Transaction), NEW l \in Locations
  PROVE  EffectsAt(s, l) \in Seq(Int)
<1>1. \A i \in 1 .. Len(s) : Effect(s[i], l) \in Int
  BY EffectIsInteger
<1> QED
  BY <1>1 DEF EffectsAt

\* A quantity on hand is an integer, whatever the ledger.
LEMMA OnHandIsInteger ==
  ASSUME NEW s \in Seq(Transaction), NEW l \in Locations
  PROVE  OnHand(s, l) \in Int
BY EffectsAreIntegers, TotalIsInteger DEF OnHand

\* Recording one more transaction changes the quantity on hand by the effect
\* of that transaction: recomputing a whole ledger (RebuildInventory-
\* Projections) and adding one effect to a correct row agree.
THEOREM OnHandIsIncremental ==
  ASSUME NEW s \in Seq(Transaction), NEW t \in Transaction,
         NEW l \in Locations
  PROVE  OnHand(Append(s, t), l) = OnHand(s, l) + Effect(t, l)
<1>1. EffectsAt(s, l) \in Seq(Int) /\ Effect(t, l) \in Int
  BY EffectsAreIntegers, EffectIsInteger
<1>2. EffectsAt(Append(s, t), l) = Append(EffectsAt(s, l), Effect(t, l))
  BY <1>1 DEF EffectsAt
<1> QED
  BY <1>1, <1>2, TotalOfAppend DEF OnHand

\* A transfer that the aggregate accepts takes from one location what it
\* gives to the other, and touches no third one.
THEOREM TransferConservesStock ==
  ASSUME NEW t \in Transaction, Accepted(t), t.type = "Transfer"
  PROVE  /\ Effect(t, t.src) + Effect(t, t.dst) = 0
         /\ \A l \in Locations \ {t.src, t.dst} : Effect(t, l) = 0
BY NoLocationAssumption
   DEF Accepted, Effect, TakesFrom, TouchedBy, Transaction, Decreases

-----------------------------------------------------------------------------
(* The projections and the ledger. *)

\* Two transactions that mean the same to location l.
SameAt(t, u, l) ==
  /\ Effect(t, l) = Effect(u, l)
  /\ l \in TouchedBy(t) <=> l \in TouchedBy(u)

\* s is, at the locations that exist, how the ledger of c began.
PastOf(s, c) ==
  /\ Len(s) <= Len(ledger[c])
  /\ \A i \in 1 .. Len(s), l \in location : SameAt(s[i], ledger[c][i], l)

\* A request that is about to use a local variable has set it.
WorkInv ==
  \A r \in Requests :
    /\ pc[r] = "insert" => work[r].input \in Components \X Inputs
    /\ pc[r] = "detach" => work[r].doomed \in Locations
    /\ pc[r] \in {"find", "write"} =>
         work[r].pair \in MentionedPairs(work[r].snapshot)
    /\ work[r].todo \subseteq MentionedPairs(work[r].snapshot)

SnapshotInv ==
  \A r \in Requests, c \in Live : PastOf(work[r].snapshot[c], c)

\* The foreign keys of inventory_projections: no row without its component
\* and its location.
RowInv ==
  \A c \in Components, l \in Locations :
    projection[c][l] # NoRow => c \in Live /\ l \in location

\* The pairs a rebuild has not dealt with yet.
Unfinished(r) ==
  work[r].todo \cup (IF pc[r] \in {"find", "write"} THEN {work[r].pair} ELSE {})

\* A rebuild that nothing disturbed is the only one, its snapshot is the whole
\* ledger, and every pair it is done with is exact.
Undisturbed(r) ==
  /\ Rebuilding(r)
  /\ \A q \in Requests \ {r} : ~Rebuilding(q)
  /\ \A c \in Live : Len(work[r].snapshot[c]) = Len(ledger[c])
  /\ \A c \in Live, l \in location :
       /\ <<c, l>> \notin Unfinished(r) => Exact(c, l)
       /\ pc[r] = "write" /\ work[r].pair = <<c, l>> =>
            (work[r].found <=> projection[c][l] # NoRow)

AloneInv == \A r \in history.alone : Undisturbed(r)

LedgerInv ==
  /\ TypeOK
  /\ WorkInv
  /\ SnapshotInv
  /\ RowInv
  /\ ProjectionIsSomePastBalance
  /\ AloneInv

-----------------------------------------------------------------------------
(* Types. *)

LEMMA NothingIsWork == Nothing \in Work
BY DEF Nothing, Work, MaybeLocation

\* What a rebuild has left to do are pairs of a component and a location.
LEMMA MentionedPairsArePairs ==
  ASSUME NEW entries \in [Components -> Seq(Transaction)]
  PROVE  MentionedPairs(entries) \subseteq Pairs
<1>1. ASSUME NEW c \in Components
      PROVE  TouchedByLedger(entries[c]) \subseteq Locations
  <2>1. \A i \in 1 .. Len(entries[c]) : entries[c][i] \in Transaction
    OBVIOUS
  <2>2. \A t \in Transaction : TouchedBy(t) \subseteq Locations
    BY DEF TouchedBy, Transaction, MaybeLocation
  <2> QED
    BY <2>1, <2>2 DEF TouchedByLedger
<1> QED
  BY <1>1 DEF MentionedPairs, Pairs

LEMMA DetachedIsTransaction ==
  ASSUME NEW t \in Transaction, NEW l \in Locations
  PROVE  Detached(t, l) \in Transaction
BY DEF Detached, Transaction, MaybeLocation

LEMMA TypeStep ==
  ASSUME TypeOK, WorkInv, [Next]_vars
  PROVE  TypeOK'
<1> USE InventoryLedgerAssumption DEF TypeOK, Goto, Finish, Without, History
<1>1. CASE UNCHANGED vars
  BY <1>1 DEF vars
<1>2. ASSUME NEW r \in Requests, NEW c \in Components, NEW t \in Inputs,
             BeginCreate(r, c, t)
      PROVE  TypeOK'
  <2>1. [Nothing EXCEPT !.input = <<c, t>>] \in Work
    BY NothingIsWork DEF Work
  <2> QED
    BY <1>2, <2>1 DEF BeginCreate
<1>3. ASSUME NEW r \in Requests, InsertTransaction(r)
      PROVE  TypeOK'
  <2>1. PICK c \in Components, t \in Inputs :
          work[r].input = <<c, t>>
    BY <1>3 DEF InsertTransaction, WorkInv
  <2>2. ledger' = [ledger EXCEPT ![c] = Append(@, t)] /\ t \in Transaction
    BY <1>3, <2>1 DEF InsertTransaction
  <2>3. Append(ledger[c], t) \in Seq(Transaction)
    BY <2>2
  <2>4. ledger' \in [Components -> Seq(Transaction)]
    BY <2>2, <2>3
  <2> QED
    BY <1>3, <2>4, NothingIsWork DEF InsertTransaction
<1>4. ASSUME NEW r \in Requests, BeginRebuild(r)
      PROVE  TypeOK'
  <2>1. [Nothing EXCEPT !.snapshot = ledger, !.todo = MentionedPairs(ledger)]
          \in Work
    BY NothingIsWork, MentionedPairsArePairs DEF Work
  <2> QED
    BY <1>4, <2>1 DEF BeginRebuild
<1>5. ASSUME NEW r \in Requests, NEW p \in Pairs, NextPair(r, p)
      PROVE  TypeOK'
  <2>1. [work[r] EXCEPT !.pair = p, !.todo = @ \ {p}] \in Work
    <3>1. work[r] \in Work /\ work[r].todo \ {p} \in SUBSET Pairs
      BY DEF Work
    <3> QED
      BY <3>1 DEF Work
  <2>2. work' = [work EXCEPT ![r] = [work[r] EXCEPT !.pair = p, !.todo = @ \ {p}]]
    BY <1>5 DEF NextPair, Work
  <2> QED
    BY <1>5, <2>1, <2>2 DEF NextPair
<1>6. ASSUME NEW r \in Requests, FindRow(r)
      PROVE  TypeOK'
  <2> DEFINE b == projection[work[r].pair[1]][work[r].pair[2]] # NoRow
  <2>1. [work[r] EXCEPT !.found = b] \in Work
    <3>1. work[r] \in Work /\ b \in BOOLEAN
      OBVIOUS
    <3> HIDE DEF b
    <3> QED
      BY <3>1 DEF Work
  <2>2. work' = [work EXCEPT ![r] = [work[r] EXCEPT !.found = b]]
    BY <1>6 DEF FindRow, Work
  <2> QED
    BY <1>6, <2>1, <2>2 DEF FindRow
<1>7. ASSUME NEW r \in Requests, WriteRow(r)
      PROVE  TypeOK'
  <2>1. PICK c \in Components, l \in Locations : work[r].pair = <<c, l>>
    <3>1. work[r].snapshot \in [Components -> Seq(Transaction)]
      BY DEF Work
    <3>2. work[r].pair \in Pairs
      BY <1>7, <3>1, MentionedPairsArePairs DEF WriteRow, WorkInv
    <3> QED
      BY <3>2 DEF Pairs
  <2>2. OnHand(work[r].snapshot[c], l) \in Int
    BY OnHandIsInteger DEF Work
  <2>3. projection' = [projection EXCEPT ![c][l] = OnHand(work[r].snapshot[c], l)]
    BY <1>7, <2>1 DEF WriteRow
  <2>4. projection' \in [Components -> [Locations -> Int \cup {NoRow}]]
    BY <2>2, <2>3
  <2> QED
    BY <1>7, <2>4 DEF WriteRow
<1>8. ASSUME NEW r \in Requests, SwallowFailure(r) \/ EndRebuild(r) \/ Abort(r)
      PROVE  TypeOK'
  <2>1. Without(r) \in History
    OBVIOUS
  <2>2. [Without(r) EXCEPT !.caughtUp = @ \/ r \in history.current] \in History
    <3>1. (history.caughtUp \/ r \in history.current) \in BOOLEAN
      OBVIOUS
    <3> QED
      BY <3>1
  <2> HIDE DEF Without, History
  <2>3. CASE SwallowFailure(r)
    <3>1. history' \in History
      BY <2>1, <2>3 DEF SwallowFailure
    <3> QED
      BY <2>3, <3>1 DEF SwallowFailure
  <2>4. CASE EndRebuild(r)
    <3>1. history' \in History
      BY <2>2, <2>4 DEF EndRebuild
    <3> QED
      BY <2>4, <3>1, NothingIsWork DEF EndRebuild
  <2>5. CASE Abort(r)
    BY <2>1, <2>5, NothingIsWork DEF Abort
  <2> QED
    BY <1>8, <2>3, <2>4, <2>5
<1>9. ASSUME NEW r \in Requests, NEW l \in Locations, BeginDeleteLocation(r, l)
      PROVE  TypeOK'
  <2>1. [Nothing EXCEPT !.doomed = l] \in Work
    BY NothingIsWork DEF Work, MaybeLocation
  <2> QED
    BY <1>9, <2>1 DEF BeginDeleteLocation
<1>10. ASSUME NEW r \in Requests, RemoveLocation(r)
       PROVE  TypeOK'
  <2> DEFINE l == work[r].doomed
  <2>1. l \in Locations
    BY <1>10 DEF RemoveLocation, WorkInv
  <2>2. \A c \in Components :
          [i \in 1 .. Len(ledger[c]) |-> Detached(ledger[c][i], l)]
            \in Seq(Transaction)
    BY <2>1, DetachedIsTransaction
  <2>3. /\ ledger' \in [Components -> Seq(Transaction)]
        /\ location' \in SUBSET Locations
        /\ projection' \in [Components -> [Locations -> Int \cup {NoRow}]]
    BY <1>10, <2>1, <2>2 DEF RemoveLocation
  <2> QED
    BY <1>10, <2>3, NothingIsWork DEF RemoveLocation
<1>11. ASSUME NEW c \in Components, Retire(c) \/ DeleteComponent(c)
       PROVE  TypeOK'
  <2>1. [l \in Locations |-> NoRow] \in [Locations -> Int \cup {NoRow}]
    OBVIOUS
  <2>2. <<>> \in Seq(Transaction)
    OBVIOUS
  <2>3. CASE Retire(c)
    BY <2>3 DEF Retire
  <2>4. CASE DeleteComponent(c)
    BY <2>1, <2>2, <2>4 DEF DeleteComponent
  <2> QED
    BY <1>11, <2>3, <2>4
<1> QED
  BY <1>1, <1>2, <1>3, <1>4, <1>5, <1>6, <1>7, <1>8, <1>9, <1>10, <1>11 DEF Next

-----------------------------------------------------------------------------
(* Local variables. *)

\* A request that starts over has nothing to keep in order.
LEMMA NothingIsInOrder ==
  Nothing.todo = {} /\ \A c \in Components : Nothing.snapshot[c] = <<>>
BY DEF Nothing

LEMMA WorkStep ==
  ASSUME TypeOK, WorkInv, [Next]_vars
  PROVE  WorkInv'
<1> USE DEF TypeOK, WorkInv, Goto, Finish
<1>1. CASE UNCHANGED vars
  BY <1>1 DEF vars
<1>2. ASSUME NEW r \in Requests, NEW c \in Components, NEW t \in Inputs,
             BeginCreate(r, c, t)
      PROVE  WorkInv'
  BY <1>2, NothingIsInOrder DEF BeginCreate, Nothing
<1>3. ASSUME NEW r \in Requests,
             InsertTransaction(r) \/ EndRebuild(r) \/ Abort(r) \/ RemoveLocation(r)
      PROVE  WorkInv'
  <2>1. pc' = [pc EXCEPT ![r] = "idle"] /\ work' = [work EXCEPT ![r] = Nothing]
    BY <1>3 DEF InsertTransaction, EndRebuild, Abort, RemoveLocation
  <2> QED
    BY <2>1, NothingIsInOrder
<1>4. ASSUME NEW r \in Requests, BeginRebuild(r)
      PROVE  WorkInv'
  BY <1>4 DEF BeginRebuild, Nothing
<1>5. ASSUME NEW r \in Requests, NEW p \in Pairs, NextPair(r, p)
      PROVE  WorkInv'
  BY <1>5 DEF NextPair, Work
<1>6. ASSUME NEW r \in Requests, FindRow(r)
      PROVE  WorkInv'
  BY <1>6 DEF FindRow, Work
<1>7. ASSUME NEW r \in Requests, WriteRow(r) \/ SwallowFailure(r)
      PROVE  WorkInv'
  BY <1>7 DEF WriteRow, SwallowFailure
<1>8. ASSUME NEW r \in Requests, NEW l \in Locations, BeginDeleteLocation(r, l)
      PROVE  WorkInv'
  BY <1>8 DEF BeginDeleteLocation, Nothing
<1>9. ASSUME NEW c \in Components, Retire(c) \/ DeleteComponent(c)
      PROVE  WorkInv'
  BY <1>9 DEF Retire, DeleteComponent
<1> QED
  BY <1>1, <1>2, <1>3, <1>4, <1>5, <1>6, <1>7, <1>8, <1>9 DEF Next

-----------------------------------------------------------------------------
(* Rows. *)

LEMMA RowStep ==
  ASSUME TypeOK, WorkInv, RowInv, [Next]_vars
  PROVE  RowInv'
<1> USE DEF TypeOK, RowInv, Live
<1>1. CASE UNCHANGED <<component, location, projection>>
  BY <1>1
<1>2. ASSUME NEW r \in Requests, WriteRow(r)
      PROVE  RowInv'
  <2>1. PICK c \in Components, l \in Locations : work[r].pair = <<c, l>>
    <3>1. work[r].snapshot \in [Components -> Seq(Transaction)]
      BY DEF Work
    <3>2. work[r].pair \in Pairs
      BY <1>2, <3>1, MentionedPairsArePairs DEF WriteRow, WorkInv
    <3> QED
      BY <3>2 DEF Pairs
  <2>2. /\ projection' = [projection EXCEPT
                            ![c][l] = OnHand(work[r].snapshot[c], l)]
        /\ component' = component /\ location' = location
    BY <1>2, <2>1 DEF WriteRow
  <2>3. c \in Live /\ l \in location
    BY <1>2, <2>1 DEF WriteRow, CanWrite
  <2> QED
    BY <2>2, <2>3
<1>3. ASSUME NEW r \in Requests, RemoveLocation(r)
      PROVE  RowInv'
  BY <1>3 DEF RemoveLocation, WorkInv
<1>4. ASSUME NEW c \in Components, Retire(c)
      PROVE  RowInv'
  BY <1>4 DEF Retire
<1>5. ASSUME NEW c \in Components, DeleteComponent(c)
      PROVE  RowInv'
  BY <1>5 DEF DeleteComponent
<1> QED
  BY <1>1, <1>2, <1>3, <1>4, <1>5
     DEF Next, vars, BeginCreate, InsertTransaction, BeginRebuild, NextPair,
         FindRow, SwallowFailure, EndRebuild, Abort, BeginDeleteLocation

-----------------------------------------------------------------------------
(* Meaning. *)

\* Deleting location k changes no transaction for another location l.
LEMMA DetachedKeepsMeaning ==
  ASSUME NEW t \in Transaction, NEW k \in Locations,
         NEW l \in Locations, l # k
  PROVE  SameAt(Detached(t, k), t, l)
BY NoLocationAssumption
   DEF SameAt, Detached, Effect, TouchedBy, TakesFrom, Transaction

\* Ledgers that mean the same to l give it the same quantity.
LEMMA SameMeaningSameQuantity ==
  ASSUME NEW s, NEW t, NEW l,
         Len(s) = Len(t),
         \A i \in 1 .. Len(s) : SameAt(s[i], t[i], l)
  PROVE  /\ OnHand(s, l) = OnHand(t, l)
         /\ l \in TouchedByLedger(s) <=> l \in TouchedByLedger(t)
<1>1. EffectsAt(s, l) = EffectsAt(t, l)
  BY DEF EffectsAt, SameAt
<1>2. l \in TouchedByLedger(s) <=> l \in TouchedByLedger(t)
  BY DEF TouchedByLedger, SameAt
<1> QED
  BY <1>1, <1>2 DEF OnHand

\* The first n transactions recorded for a component.
LEMMA PrefixProperties ==
  ASSUME NEW s \in Seq(Transaction), NEW n \in 0 .. Len(s)
  PROVE  /\ SubSeq(s, 1, n) \in Seq(Transaction)
         /\ Len(SubSeq(s, 1, n)) = n
         /\ \A i \in 1 .. n : SubSeq(s, 1, n)[i] = s[i]
OBVIOUS

\* No step changes what the transactions recorded so far mean to a component
\* and a location that still exist: they stay where they are.
LEMMA MeaningStep ==
  ASSUME TypeOK, WorkInv, [Next]_vars,
         NEW c \in Components, component'[c] # "deleted"
  PROVE  /\ Len(ledger'[c]) >= Len(ledger[c])
         /\ \A i \in 1 .. Len(ledger[c]), l \in location' :
              SameAt(ledger'[c][i], ledger[c][i], l)
<1> DEFINE Kept ==
      /\ Len(ledger'[c]) >= Len(ledger[c])
      /\ \A i \in 1 .. Len(ledger[c]), l \in location' :
           SameAt(ledger'[c][i], ledger[c][i], l)
<1> USE DEF TypeOK
<1>1. CASE ledger' = ledger
  BY <1>1 DEF SameAt
<1>2. ASSUME NEW r \in Requests, InsertTransaction(r)
      PROVE  Kept
  <2>1. PICK d \in Components, t \in Inputs : work[r].input = <<d, t>>
    BY <1>2 DEF InsertTransaction, WorkInv
  <2>2. ledger' = [ledger EXCEPT ![d] = Append(@, t)] /\ t \in Transaction
    BY <1>2, <2>1, InventoryLedgerAssumption DEF InsertTransaction
  <2>3. CASE c = d
    <3>1. ledger'[c] = Append(ledger[c], t)
      BY <2>2, <2>3
    <3>2. /\ Len(ledger'[c]) >= Len(ledger[c])
          /\ \A i \in 1 .. Len(ledger[c]) : ledger'[c][i] = ledger[c][i]
      BY <2>2, <3>1
    <3> QED
      BY <3>2 DEF SameAt
  <2>4. CASE c # d
    <3>1. ledger'[c] = ledger[c]
      BY <2>2, <2>4
    <3> QED
      BY <3>1 DEF SameAt
  <2> QED
    BY <2>3, <2>4
<1>3. ASSUME NEW r \in Requests, RemoveLocation(r)
      PROVE  Kept
  <2>1. /\ ledger'[c] = [i \in 1 .. Len(ledger[c]) |->
                            Detached(ledger[c][i], work[r].doomed)]
        /\ location' = location \ {work[r].doomed}
        /\ work[r].doomed \in Locations
    BY <1>3 DEF RemoveLocation, WorkInv
  <2>2. /\ Len(ledger'[c]) = Len(ledger[c])
        /\ \A i \in 1 .. Len(ledger[c]) :
             /\ ledger'[c][i] = Detached(ledger[c][i], work[r].doomed)
             /\ ledger[c][i] \in Transaction
    BY <2>1
  <2> QED
    BY <2>1, <2>2, DetachedKeepsMeaning
<1>4. ASSUME NEW d \in Components, DeleteComponent(d)
      PROVE  Kept
  <2>1. ledger'[c] = ledger[c]
    BY <1>4 DEF DeleteComponent
  <2> QED
    BY <2>1 DEF SameAt
<1>5. \/ ledger' = ledger
      \/ \E r \in Requests : InsertTransaction(r) \/ RemoveLocation(r)
      \/ \E d \in Components : DeleteComponent(d)
  BY DEF Next, vars, BeginCreate, BeginRebuild, NextPair, FindRow, WriteRow,
         SwallowFailure, EndRebuild, Abort, BeginDeleteLocation, Retire
<1> QED
  BY <1>1, <1>2, <1>3, <1>4, <1>5

\* No step brings a component or a location back.
LEMMA ExistenceStep ==
  ASSUME TypeOK, [Next]_vars
  PROVE  /\ location' \subseteq location
         /\ \A c \in Components : c \in Live' => c \in Live
BY DEF TypeOK, Live, Next, vars, BeginCreate, InsertTransaction, BeginRebuild,
       NextPair, FindRow, WriteRow, SwallowFailure, EndRebuild, Abort,
       BeginDeleteLocation, RemoveLocation, Retire, DeleteComponent

-----------------------------------------------------------------------------
(* Snapshots. *)

\* What a step does to the snapshots: one request may take a new one.
LEMMA SnapshotChanges ==
  ASSUME TypeOK, [Next]_vars, NEW r \in Requests
  PROVE  \/ work'[r].snapshot = work[r].snapshot
         \/ work'[r].snapshot = Nothing.snapshot
         \/ work'[r].snapshot = ledger /\ ledger' = ledger
<1> USE DEF TypeOK, Finish
<1>1. CASE UNCHANGED vars
  BY <1>1 DEF vars
<1>2. ASSUME NEW q \in Requests,
             \/ \E c \in Components, t \in Inputs : BeginCreate(q, c, t)
             \/ \E l \in Locations : BeginDeleteLocation(q, l)
      PROVE  work'[r].snapshot \in {work[r].snapshot, Nothing.snapshot}
  <2>1. CASE \E c \in Components, t \in Inputs : BeginCreate(q, c, t)
    <3>1. PICK c \in Components, t \in Inputs : BeginCreate(q, c, t)
      BY <2>1
    <3>2. [Nothing EXCEPT !.input = <<c, t>>].snapshot = Nothing.snapshot
      BY DEF Nothing
    <3> QED
      BY <3>1, <3>2 DEF BeginCreate
  <2>2. CASE \E l \in Locations : BeginDeleteLocation(q, l)
    <3>1. PICK l \in Locations : BeginDeleteLocation(q, l)
      BY <2>2
    <3>2. [Nothing EXCEPT !.doomed = l].snapshot = Nothing.snapshot
      BY DEF Nothing
    <3> QED
      BY <3>1, <3>2 DEF BeginDeleteLocation
  <2> QED
    BY <1>2, <2>1, <2>2
<1>3. ASSUME NEW q \in Requests,
             InsertTransaction(q) \/ EndRebuild(q) \/ Abort(q) \/ RemoveLocation(q)
      PROVE  work'[r].snapshot \in {work[r].snapshot, Nothing.snapshot}
  BY <1>3 DEF InsertTransaction, EndRebuild, Abort, RemoveLocation
<1>4. ASSUME NEW q \in Requests, BeginRebuild(q)
      PROVE  \/ work'[r].snapshot = work[r].snapshot
             \/ work'[r].snapshot = ledger /\ ledger' = ledger
  BY <1>4 DEF BeginRebuild, Nothing
<1>5. ASSUME NEW q \in Requests,
             \/ \E p \in Pairs : NextPair(q, p)
             \/ FindRow(q)
             \/ WriteRow(q)
             \/ SwallowFailure(q)
      PROVE  work'[r].snapshot = work[r].snapshot
  <2>1. CASE \E p \in Pairs : NextPair(q, p)
    BY <2>1 DEF NextPair, Work
  <2>2. CASE FindRow(q)
    BY <2>2 DEF FindRow, Work
  <2>3. CASE WriteRow(q) \/ SwallowFailure(q)
    BY <2>3 DEF WriteRow, SwallowFailure
  <2> QED
    BY <1>5, <2>1, <2>2, <2>3
<1>6. ASSUME NEW c \in Components, Retire(c) \/ DeleteComponent(c)
      PROVE  work'[r].snapshot = work[r].snapshot
  BY <1>6 DEF Retire, DeleteComponent
<1> QED
  BY <1>1, <1>2, <1>3, <1>4, <1>5, <1>6 DEF Next

LEMMA SnapshotStep ==
  ASSUME TypeOK, WorkInv, SnapshotInv, [Next]_vars
  PROVE  SnapshotInv'
<1> SUFFICES ASSUME NEW r \in Requests, NEW c \in Components,
                    component'[c] # "deleted"
             PROVE  PastOf(work[r].snapshot[c], c)'
  BY DEF SnapshotInv, Live
<1>1. /\ Len(ledger'[c]) >= Len(ledger[c])
      /\ \A i \in 1 .. Len(ledger[c]), l \in location' :
           SameAt(ledger'[c][i], ledger[c][i], l)
  BY MeaningStep
<1>2. c \in Live /\ location' \subseteq location
  BY ExistenceStep DEF Live
<1>3. Len(ledger[c]) \in Nat /\ Len(ledger'[c]) \in Nat
  BY TypeStep DEF TypeOK
<1>4. CASE work'[r].snapshot = work[r].snapshot
  <2>1. PastOf(work[r].snapshot[c], c) /\ Len(work[r].snapshot[c]) \in Nat
    BY <1>2 DEF SnapshotInv, TypeOK, Work
  <2> QED
    BY <1>1, <1>2, <1>3, <1>4, <2>1 DEF PastOf, SameAt
<1>5. CASE work'[r].snapshot = Nothing.snapshot
  BY <1>3, <1>5, NothingIsInOrder DEF PastOf
<1>6. CASE work'[r].snapshot = ledger /\ ledger' = ledger
  BY <1>3, <1>6 DEF PastOf, SameAt
<1> QED
  BY <1>4, <1>5, <1>6, SnapshotChanges

-----------------------------------------------------------------------------
(* Stored quantities. *)

\* A quantity that was a past balance of c at l stays one.
LEMMA PastBalanceStays ==
  ASSUME TypeOK, WorkInv, [Next]_vars,
         NEW c \in Components, component'[c] # "deleted",
         NEW l \in location',
         NEW n \in 1 .. Len(ledger[c])
  PROVE  /\ n \in 1 .. Len(ledger'[c])
         /\ OnHand(SubSeq(ledger'[c], 1, n), l) = OnHand(Prefix(c, n), l)
         /\ l \in TouchedByLedger(SubSeq(ledger'[c], 1, n))
              <=> l \in TouchedByLedger(Prefix(c, n))
<1>1. /\ Len(ledger'[c]) >= Len(ledger[c])
      /\ \A i \in 1 .. Len(ledger[c]) : SameAt(ledger'[c][i], ledger[c][i], l)
  BY MeaningStep
<1>2. ledger[c] \in Seq(Transaction) /\ ledger'[c] \in Seq(Transaction)
  BY TypeStep DEF TypeOK
<1>3. n \in 0 .. Len(ledger[c]) /\ n \in 1 .. Len(ledger'[c])
  BY <1>1, <1>2
<1>4. /\ Len(SubSeq(ledger[c], 1, n)) = n
      /\ Len(SubSeq(ledger'[c], 1, n)) = n
      /\ \A i \in 1 .. n : SubSeq(ledger[c], 1, n)[i] = ledger[c][i]
      /\ \A i \in 1 .. n : SubSeq(ledger'[c], 1, n)[i] = ledger'[c][i]
  BY <1>2, <1>3, PrefixProperties
<1>5. \A i \in 1 .. n :
        SameAt(SubSeq(ledger'[c], 1, n)[i], SubSeq(ledger[c], 1, n)[i], l)
  BY <1>1, <1>2, <1>4
<1> QED
  BY <1>3, <1>4, <1>5, SameMeaningSameQuantity DEF Prefix

\* What a rebuild computes from its snapshot is a past balance.
LEMMA SnapshotIsPastBalance ==
  ASSUME TypeOK, SnapshotInv, NEW r \in Requests,
         NEW c \in Live, NEW l \in location,
         l \in TouchedByLedger(work[r].snapshot[c])
  PROVE  \E n \in 1 .. Len(ledger[c]) :
           /\ l \in TouchedByLedger(Prefix(c, n))
           /\ OnHand(work[r].snapshot[c], l) = OnHand(Prefix(c, n), l)
<1> DEFINE s == work[r].snapshot[c]
           n == Len(work[r].snapshot[c])
<1>1. c \in Components /\ s \in Seq(Transaction) /\ ledger[c] \in Seq(Transaction)
  BY DEF Live, TypeOK, Work
<1>2. /\ n <= Len(ledger[c])
      /\ \A i \in 1 .. n : SameAt(s[i], ledger[c][i], l)
  BY DEF SnapshotInv, PastOf
<1>3. n # 0
  BY DEF TouchedByLedger
<1>4. n \in 1 .. Len(ledger[c]) /\ n \in 0 .. Len(ledger[c])
  BY <1>1, <1>2, <1>3
<1>5. /\ Len(Prefix(c, n)) = n
      /\ \A i \in 1 .. n : Prefix(c, n)[i] = ledger[c][i]
  BY <1>1, <1>4, PrefixProperties DEF Prefix
<1>6. \A i \in 1 .. n : SameAt(s[i], Prefix(c, n)[i], l)
  BY <1>2, <1>5
<1>7. /\ OnHand(s, l) = OnHand(Prefix(c, n), l)
      /\ l \in TouchedByLedger(s) <=> l \in TouchedByLedger(Prefix(c, n))
  BY <1>5, <1>6, SameMeaningSameQuantity
<1> QED
  BY <1>4, <1>7

\* What a step does to a row: nothing, remove it, or write what a rebuild
\* computed for the pair it is at.
LEMMA RowChanges ==
  ASSUME TypeOK, WorkInv, [Next]_vars,
         NEW c \in Components, NEW l \in Locations
  PROVE  \/ projection'[c][l] = projection[c][l]
         \/ projection'[c][l] = NoRow
         \/ \E r \in Requests :
              /\ WriteRow(r)
              /\ work[r].pair = <<c, l>>
              /\ projection'[c][l] = OnHand(work[r].snapshot[c], l)
<1> USE DEF TypeOK
<1>1. CASE projection' = projection
  BY <1>1
<1>2. ASSUME NEW r \in Requests, WriteRow(r)
      PROVE  \/ projection'[c][l] = projection[c][l]
             \/ /\ work[r].pair = <<c, l>>
                /\ projection'[c][l] = OnHand(work[r].snapshot[c], l)
  <2>1. PICK d \in Components, k \in Locations : work[r].pair = <<d, k>>
    <3>1. work[r].snapshot \in [Components -> Seq(Transaction)]
      BY DEF Work
    <3>2. work[r].pair \in Pairs
      BY <1>2, <3>1, MentionedPairsArePairs DEF WriteRow, WorkInv
    <3> QED
      BY <3>2 DEF Pairs
  <2>2. projection' = [projection EXCEPT
                         ![d][k] = OnHand(work[r].snapshot[d], k)]
    BY <1>2, <2>1 DEF WriteRow
  <2> QED
    BY <2>1, <2>2
<1>3. ASSUME NEW r \in Requests, RemoveLocation(r)
      PROVE  projection'[c][l] \in {projection[c][l], NoRow}
  BY <1>3 DEF RemoveLocation
<1>4. ASSUME NEW d \in Components, DeleteComponent(d)
      PROVE  projection'[c][l] \in {projection[c][l], NoRow}
  BY <1>4 DEF DeleteComponent
<1>5. \/ projection' = projection
      \/ \E r \in Requests : WriteRow(r) \/ RemoveLocation(r)
      \/ \E d \in Components : DeleteComponent(d)
  BY DEF Next, vars, BeginCreate, InsertTransaction, BeginRebuild, NextPair,
         FindRow, SwallowFailure, EndRebuild, Abort, BeginDeleteLocation, Retire
<1> QED
  BY <1>1, <1>2, <1>3, <1>4, <1>5

LEMMA PastBalanceStep ==
  ASSUME TypeOK, WorkInv, SnapshotInv, RowInv, ProjectionIsSomePastBalance,
         [Next]_vars
  PROVE  ProjectionIsSomePastBalance'
<1> SUFFICES ASSUME NEW c \in Components, component'[c] # "deleted",
                    NEW l \in location', projection'[c][l] # NoRow
             PROVE  \E n \in 1 .. Len(ledger'[c]) :
                      /\ l \in TouchedByLedger(SubSeq(ledger'[c], 1, n))
                      /\ projection'[c][l] = OnHand(SubSeq(ledger'[c], 1, n), l)
  BY DEF ProjectionIsSomePastBalance, Live, Prefix
<1>1. c \in Live /\ l \in location /\ l \in Locations
  BY ExistenceStep DEF Live, TypeOK
<1>2. \E n \in 1 .. Len(ledger[c]) :
        /\ l \in TouchedByLedger(Prefix(c, n))
        /\ projection'[c][l] = OnHand(Prefix(c, n), l)
  <2>1. CASE projection'[c][l] = projection[c][l]
    BY <1>1, <2>1 DEF ProjectionIsSomePastBalance
  <2>2. ASSUME NEW r \in Requests, WriteRow(r), work[r].pair = <<c, l>>,
               projection'[c][l] = OnHand(work[r].snapshot[c], l)
        PROVE  \E n \in 1 .. Len(ledger[c]) :
                 /\ l \in TouchedByLedger(Prefix(c, n))
                 /\ projection'[c][l] = OnHand(Prefix(c, n), l)
    <3>1. <<c, l>> \in MentionedPairs(work[r].snapshot)
      BY <2>2 DEF WriteRow, WorkInv
    <3>2. l \in TouchedByLedger(work[r].snapshot[c])
      BY <3>1 DEF MentionedPairs
    <3> QED
      BY <1>1, <2>2, <3>2, SnapshotIsPastBalance
  <2> QED
    BY <1>1, <2>1, <2>2, RowChanges
<1>3. PICK n \in 1 .. Len(ledger[c]) :
        /\ l \in TouchedByLedger(Prefix(c, n))
        /\ projection'[c][l] = OnHand(Prefix(c, n), l)
  BY <1>2
<1> QED
  BY <1>3, PastBalanceStays

-----------------------------------------------------------------------------
(* Undisturbed rebuilds. *)

\* A row that agrees with the whole ledger keeps agreeing with it as long as
\* nothing is recorded and the row is left alone.
LEMMA ExactStays ==
  ASSUME TypeOK, WorkInv, [Next]_vars,
         NEW c \in Components, component'[c] # "deleted",
         NEW l \in location',
         Len(ledger'[c]) = Len(ledger[c]),
         projection'[c][l] = projection[c][l],
         Exact(c, l)
  PROVE  Exact(c, l)'
<1>1. \A i \in 1 .. Len(ledger[c]) : SameAt(ledger'[c][i], ledger[c][i], l)
  BY MeaningStep
<1>2. /\ OnHand(ledger'[c], l) = OnHand(ledger[c], l)
      /\ l \in TouchedByLedger(ledger'[c]) <=> l \in TouchedByLedger(ledger[c])
  BY <1>1, SameMeaningSameQuantity
<1> QED
  BY <1>2 DEF Exact

\* A row that never was is exact where the ledger never went.
LEMMA UntouchedIsExact ==
  ASSUME TypeOK, ProjectionIsSomePastBalance,
         NEW c \in Live, NEW l \in location,
         l \notin TouchedByLedger(ledger[c])
  PROVE  Exact(c, l)
<1>1. ASSUME NEW n \in 1 .. Len(ledger[c])
      PROVE  l \notin TouchedByLedger(Prefix(c, n))
  <2>1. ledger[c] \in Seq(Transaction) /\ n \in 0 .. Len(ledger[c])
    BY DEF TypeOK, Live
  <2>2. Len(Prefix(c, n)) = n /\ \A i \in 1 .. n : Prefix(c, n)[i] = ledger[c][i]
    BY <2>1, PrefixProperties DEF Prefix
  <2> QED
    BY <2>1, <2>2 DEF TouchedByLedger
<1>2. projection[c][l] = NoRow
  BY <1>1 DEF ProjectionIsSomePastBalance
<1> QED
  BY <1>2 DEF Exact

\* What a step may do to the rebuilds that count as undisturbed.
LEMMA AloneChanges ==
  ASSUME TypeOK, [Next]_vars, NEW r \in history'.alone
  PROVE  \/ r \in history.alone
         \/ BeginRebuild(r) /\ \A q \in Requests : ~Rebuilding(q)
<1> USE DEF TypeOK, History, Without
<1>1. CASE history' = history
  BY <1>1
<1>2. ASSUME NEW q \in Requests, BeginRebuild(q)
      PROVE  \/ r \in history.alone
             \/ BeginRebuild(r) /\ \A p \in Requests : ~Rebuilding(p)
  BY <1>2 DEF BeginRebuild
<1>3. ASSUME NEW q \in Requests,
             \/ InsertTransaction(q)
             \/ SwallowFailure(q)
             \/ EndRebuild(q)
             \/ Abort(q)
      PROVE  r \in history.alone
  <2>1. history'.alone \subseteq history.alone
    <3>1. CASE InsertTransaction(q)
      BY <3>1 DEF InsertTransaction
    <3>2. CASE SwallowFailure(q)
      BY <3>2 DEF SwallowFailure
    <3>3. CASE EndRebuild(q)
      BY <3>3 DEF EndRebuild
    <3>4. CASE Abort(q)
      BY <3>4 DEF Abort
    <3> QED
      BY <1>3, <3>1, <3>2, <3>3, <3>4
  <2> QED
    BY <2>1
<1>4. \/ history' = history
      \/ \E q \in Requests : \/ BeginRebuild(q)
                             \/ InsertTransaction(q)
                             \/ SwallowFailure(q)
                             \/ EndRebuild(q)
                             \/ Abort(q)
  BY DEF Next, vars, BeginCreate, NextPair, FindRow, WriteRow,
         BeginDeleteLocation, RemoveLocation, Retire, DeleteComponent
<1> QED
  BY <1>1, <1>2, <1>3, <1>4

\* A step of another request, or of none, that lets r count as undisturbed
\* leaves r alone and records nothing.
LEMMA OthersKeepUndisturbed ==
  ASSUME TypeOK, WorkInv, [Next]_vars, NEW r \in Requests, Undisturbed(r),
         pc'[r] = pc[r], work'[r] = work[r],
         \A q \in Requests \ {r} : pc'[q] \notin {"choose", "find", "write"},
         \A c \in Components : component'[c] # "deleted" =>
           /\ Len(ledger'[c]) = Len(ledger[c])
           /\ \A l \in location' : projection'[c][l] = projection[c][l]
  PROVE  Undisturbed(r)'
<1>1. location' \subseteq location /\ \A c \in Components : c \in Live' => c \in Live
  BY ExistenceStep
<1>2. Live' \subseteq Components /\ \A c \in Live' : component'[c] # "deleted"
  BY DEF Live
<1>3. Unfinished(r)' = Unfinished(r)
  BY DEF Unfinished
<1>4. ASSUME NEW c \in Live', NEW l \in location',
             <<c, l>> \notin Unfinished(r)
      PROVE  Exact(c, l)'
  <2>1. Exact(c, l)
    BY <1>1, <1>2, <1>4 DEF Undisturbed
  <2> QED
    BY <1>2, <2>1, ExactStays
<1>5. Rebuilding(r)' /\ \A q \in Requests \ {r} : ~Rebuilding(q)'
  BY DEF Undisturbed, Rebuilding
<1>6. \A c \in Live' : Len(work'[r].snapshot[c]) = Len(ledger'[c])
  BY <1>1, <1>2 DEF Undisturbed
<1>7. ASSUME NEW c \in Live', NEW l \in location',
             pc'[r] = "write", work'[r].pair = <<c, l>>
      PROVE  work'[r].found <=> projection'[c][l] # NoRow
  <2>1. c \in Live /\ l \in location
    BY <1>1, <1>2, <1>7
  <2>2. work[r].found <=> projection[c][l] # NoRow
    BY <1>7, <2>1 DEF Undisturbed
  <2>3. projection'[c][l] = projection[c][l]
    BY <1>2, <1>7
  <2> QED
    BY <2>2, <2>3
<1> QED
  BY <1>3, <1>4, <1>5, <1>6, <1>7 DEF Undisturbed

\* Whatever else happens while r is undisturbed.
LEMMA OthersStep ==
  ASSUME TypeOK, WorkInv, [Next]_vars, NEW r \in Requests, Undisturbed(r),
         r \in history'.alone,
         ~ \/ \E p \in Pairs : NextPair(r, p)
           \/ FindRow(r)
           \/ WriteRow(r)
           \/ SwallowFailure(r)
  PROVE  Undisturbed(r)'
<1> DEFINE Quiet ==
      /\ pc'[r] = pc[r]
      /\ work'[r] = work[r]
      /\ \A q \in Requests \ {r} : pc'[q] \notin {"choose", "find", "write"}
      /\ \A c \in Components : component'[c] # "deleted" =>
           /\ Len(ledger'[c]) = Len(ledger[c])
           /\ \A l \in location' : projection'[c][l] = projection[c][l]
<1> USE DEF TypeOK, Goto, Finish
<1>a. /\ pc[r] \in {"choose", "find", "write"}
      /\ \A q \in Requests \ {r} : pc[q] \notin {"choose", "find", "write"}
  BY DEF Undisturbed, Rebuilding
<1>1. ASSUME UNCHANGED vars
      PROVE  Quiet
  BY <1>1, <1>a DEF vars
<1>2. ASSUME NEW q \in Requests, NEW c \in Components, NEW t \in Inputs,
             BeginCreate(q, c, t)
      PROVE  Quiet
  BY <1>2, <1>a DEF BeginCreate
<1>3. ASSUME NEW q \in Requests, NEW l \in Locations, BeginDeleteLocation(q, l)
      PROVE  Quiet
  BY <1>3, <1>a DEF BeginDeleteLocation
<1>4. ASSUME NEW q \in Requests, Abort(q)
      PROVE  Quiet
  <2>1. q # r
    BY <1>4 DEF Abort, Without, History
  <2> QED
    BY <1>4, <1>a, <2>1 DEF Abort
<1>5. ASSUME NEW q \in Requests, RemoveLocation(q)
      PROVE  Quiet
  <2>1. q # r
    BY <1>5, <1>a DEF RemoveLocation
  <2>2. \A c \in Components : Len(ledger'[c]) = Len(ledger[c])
    BY <1>5 DEF RemoveLocation
  <2>3. \A c \in Components, l \in location' :
          projection'[c][l] = projection[c][l]
    BY <1>5 DEF RemoveLocation
  <2>4. /\ pc'[r] = pc[r] /\ work'[r] = work[r]
        /\ \A p \in Requests \ {r} : pc'[p] \notin {"choose", "find", "write"}
    BY <1>5, <1>a, <2>1 DEF RemoveLocation
  <2> QED
    BY <2>2, <2>3, <2>4
<1>6. ASSUME NEW c \in Components, Retire(c)
      PROVE  Quiet
  BY <1>6, <1>a DEF Retire
<1>7. ASSUME NEW c \in Components, DeleteComponent(c)
      PROVE  Quiet
  BY <1>7, <1>a DEF DeleteComponent
<1>8. ASSUME NEW q \in Requests,
             \/ InsertTransaction(q)
             \/ BeginRebuild(q)
             \/ EndRebuild(q)
             \/ \E p \in Pairs : NextPair(q, p)
             \/ FindRow(q)
             \/ WriteRow(q)
             \/ SwallowFailure(q)
      PROVE  FALSE
  <2>1. CASE InsertTransaction(q)
    BY <2>1 DEF InsertTransaction
  <2>2. CASE BeginRebuild(q)
    <3>1. q # r /\ Rebuilding(r)
      BY <1>a, <2>2 DEF BeginRebuild, Rebuilding
    <3> QED
      BY <2>2, <3>1 DEF BeginRebuild, History
  <2>3. CASE EndRebuild(q)
    <3>1. q = r
      BY <1>a, <2>3 DEF EndRebuild
    <3> QED
      BY <2>3, <3>1 DEF EndRebuild, Without, History
  <2>4. CASE \/ \E p \in Pairs : NextPair(q, p)
             \/ FindRow(q)
             \/ WriteRow(q)
             \/ SwallowFailure(q)
    <3>1. pc[q] \in {"choose", "find", "write"}
      BY <2>4 DEF NextPair, FindRow, WriteRow, SwallowFailure
    <3>2. q = r
      BY <1>a, <3>1
    <3> QED
      BY <2>4, <3>2
  <2> QED
    BY <1>8, <2>1, <2>2, <2>3, <2>4
<1> HIDE DEF Quiet
<1>9. Quiet
  BY <1>1, <1>2, <1>3, <1>4, <1>5, <1>6, <1>7, <1>8 DEF Next
<1> QED
  BY <1>9, OthersKeepUndisturbed DEF Quiet

\* A rebuild starts with every row of a place it will not visit exact.
LEMMA BeginIsUndisturbed ==
  ASSUME TypeOK, WorkInv, ProjectionIsSomePastBalance,
         NEW r \in Requests, BeginRebuild(r),
         \A q \in Requests : ~Rebuilding(q)
  PROVE  Undisturbed(r)'
<1>1. /\ pc' = [pc EXCEPT ![r] = "choose"]
      /\ work'[r].snapshot = ledger
      /\ work'[r].todo = MentionedPairs(ledger)
      /\ UNCHANGED <<component, location, ledger, projection>>
  BY DEF BeginRebuild, Goto, TypeOK, Nothing
<1>2. Rebuilding(r)' /\ \A q \in Requests \ {r} : ~Rebuilding(q)'
  BY <1>1 DEF Rebuilding, TypeOK
<1>3. ASSUME NEW c \in Live, NEW l \in location,
             <<c, l>> \notin MentionedPairs(ledger)
      PROVE  Exact(c, l)
  <2>1. l \notin TouchedByLedger(ledger[c])
    BY <1>3 DEF MentionedPairs, Live
  <2> QED
    BY <2>1, UntouchedIsExact
<1>4. Unfinished(r)' = MentionedPairs(ledger)
  BY <1>1 DEF Unfinished, TypeOK
<1>5. Live' = Live /\ location' = location
      /\ \A c \in Live, l \in location : Exact(c, l)' = Exact(c, l)
  BY <1>1 DEF Live, Exact
<1>6. pc'[r] # "write"
  BY <1>1 DEF TypeOK
<1> QED
  BY <1>1, <1>2, <1>3, <1>4, <1>5, <1>6 DEF Undisturbed

\* What taking the next pair changes.
LEMMA NextPairEffect ==
  ASSUME TypeOK, NEW r \in Requests, NEW p, NextPair(r, p)
  PROVE  /\ work'[r].snapshot = work[r].snapshot
         /\ work'[r].pair = p
         /\ work'[r].todo = work[r].todo \ {p}
<1>1. work' = [work EXCEPT ![r] = [work[r] EXCEPT !.pair = p, !.todo = @ \ {p}]]
  BY DEF NextPair, TypeOK, Work
<1>2. work'[r] = [work[r] EXCEPT !.pair = p, !.todo = @ \ {p}]
  BY <1>1 DEF TypeOK
<1>3. work[r] \in Work
  BY DEF TypeOK
<1> QED
  BY <1>2, <1>3 DEF Work

\* The steps of an undisturbed rebuild itself.
LEMMA OwnStep ==
  ASSUME LedgerInv, [Next]_vars, NEW r \in Requests, Undisturbed(r),
         r \in history'.alone,
         \/ \E p \in Pairs : NextPair(r, p)
         \/ FindRow(r)
         \/ WriteRow(r)
         \/ SwallowFailure(r)
  PROVE  Undisturbed(r)'
<1> USE DEF LedgerInv, TypeOK, Goto
<1>1. UNCHANGED <<component, location, ledger>>
      /\ Live' = Live /\ location' = location
      /\ work'[r].snapshot = work[r].snapshot
  <2>1. UNCHANGED <<component, location, ledger>>
    BY DEF NextPair, FindRow, WriteRow, SwallowFailure
  <2>2. CASE \E p \in Pairs : NextPair(r, p)
    BY <2>1, <2>2, NextPairEffect DEF Live
  <2>3. CASE FindRow(r)
    BY <2>1, <2>3 DEF FindRow, Live, Work
  <2>4. CASE WriteRow(r) \/ SwallowFailure(r)
    BY <2>1, <2>4 DEF WriteRow, SwallowFailure, Live
  <2> QED
    BY <2>2, <2>3, <2>4
<1>2. Rebuilding(r)' /\ \A q \in Requests \ {r} : ~Rebuilding(q)'
  BY DEF NextPair, FindRow, WriteRow, SwallowFailure, Undisturbed, Rebuilding
<1>3. \A c \in Live : Len(work'[r].snapshot[c]) = Len(ledger'[c])
  BY <1>1 DEF Undisturbed
<1> SUFFICES ASSUME NEW c \in Live, NEW l \in location
             PROVE  /\ <<c, l>> \notin Unfinished(r)' => Exact(c, l)'
                    /\ pc'[r] = "write" /\ work'[r].pair = <<c, l>> =>
                         (work'[r].found <=> projection'[c][l] # NoRow)
  BY <1>1, <1>2, <1>3 DEF Undisturbed
<1>4. /\ c \in Components /\ l \in Locations
      /\ <<c, l>> \notin Unfinished(r) => Exact(c, l)
      /\ pc[r] = "write" /\ work[r].pair = <<c, l>> =>
           (work[r].found <=> projection[c][l] # NoRow)
  BY DEF Undisturbed, Live
<1>5. ASSUME NEW p \in Pairs, NextPair(r, p)
      PROVE  Unfinished(r)' = Unfinished(r) /\ pc'[r] # "write"
             /\ projection' = projection
  <2>1. /\ pc[r] = "choose" /\ pc'[r] = "find"
        /\ p \in work[r].todo
        /\ work'[r].pair = p /\ work'[r].todo = work[r].todo \ {p}
        /\ projection' = projection
    BY <1>5, NextPairEffect DEF NextPair
  <2> QED
    BY <2>1 DEF Unfinished
<1>6. CASE \E p \in Pairs : NextPair(r, p)
  BY <1>1, <1>4, <1>5, <1>6 DEF Exact
<1>7. CASE FindRow(r)
  <2>1. /\ work'[r].pair = work[r].pair
        /\ work'[r].todo = work[r].todo
        /\ work'[r].found =
             (projection[work[r].pair[1]][work[r].pair[2]] # NoRow)
        /\ pc[r] = "find" /\ pc'[r] = "write"
        /\ projection' = projection
    BY <1>7 DEF FindRow, Work
  <2>2. Unfinished(r)' = Unfinished(r)
    BY <2>1 DEF Unfinished
  <2>3. work'[r].pair = <<c, l>> =>
          (work'[r].found <=> projection'[c][l] # NoRow)
    <3> SUFFICES ASSUME work'[r].pair = <<c, l>>
                 PROVE  work'[r].found <=> projection'[c][l] # NoRow
      OBVIOUS
    <3>1. work[r].pair[1] = c /\ work[r].pair[2] = l
      BY <2>1
    <3>2. work'[r].found = (projection[c][l] # NoRow)
      BY <2>1, <3>1
    <3> QED
      BY <2>1, <3>2
  <2>4. Exact(c, l)' <=> Exact(c, l)
    BY <1>1, <2>1 DEF Exact
  <2> QED
    BY <1>4, <2>2, <2>3, <2>4
<1>8. CASE WriteRow(r) \/ SwallowFailure(r)
  <2>1. /\ work' = work /\ pc'[r] = "choose"
        /\ Unfinished(r)' = work[r].todo
        /\ pc[r] \in {"find", "write"}
        /\ Unfinished(r) = work[r].todo \cup {work[r].pair}
    BY <1>8 DEF WriteRow, SwallowFailure, Unfinished
  <2>2. CASE work[r].pair # <<c, l>>
    <3>1. projection'[c][l] = projection[c][l]
      <4>1. CASE SwallowFailure(r)
        BY <4>1 DEF SwallowFailure
      <4>2. CASE WriteRow(r)
        <5>1. PICK d \in Components, k \in Locations : work[r].pair = <<d, k>>
          <6>1. work[r].snapshot \in [Components -> Seq(Transaction)]
            BY DEF Work
          <6>2. work[r].pair \in Pairs
            BY <6>1, <2>1, MentionedPairsArePairs DEF WorkInv
          <6> QED
            BY <6>2 DEF Pairs
        <5>2. projection' = [projection EXCEPT
                               ![d][k] = OnHand(work[r].snapshot[d], k)]
          BY <4>2, <5>1 DEF WriteRow
        <5> QED
          BY <1>4, <2>2, <5>1, <5>2
      <4> QED
        BY <1>8, <4>1, <4>2
    <3> QED
      BY <1>1, <1>4, <2>1, <2>2, <3>1 DEF Exact
  <2>3. CASE work[r].pair = <<c, l>>
    <3>1. WriteRow(r)
      <4>1. SUFFICES ASSUME SwallowFailure(r) PROVE FALSE
        BY <1>8
      <4>2. pc[r] = "write" /\ ~CanWrite(r)
        BY <4>1 DEF SwallowFailure, Without, History
      <4>3. work[r].found <=> projection[c][l] # NoRow
        BY <1>4, <2>3, <4>2
      <4> QED
        BY <2>3, <4>2, <4>3 DEF CanWrite, Live
    <3>2. projection'[c][l] = OnHand(work[r].snapshot[c], l)
      BY <1>4, <2>3, <3>1 DEF WriteRow
    <3>3. \A i \in 1 .. Len(ledger[c]) :
            SameAt(work[r].snapshot[c][i], ledger[c][i], l)
      BY DEF Undisturbed, SnapshotInv, PastOf
    <3>4. /\ OnHand(work[r].snapshot[c], l) = OnHand(ledger[c], l)
          /\ l \in TouchedByLedger(work[r].snapshot[c])
               <=> l \in TouchedByLedger(ledger[c])
      BY <3>3, SameMeaningSameQuantity DEF Undisturbed
    <3>5. l \in TouchedByLedger(work[r].snapshot[c])
      BY <2>1, <2>3 DEF WorkInv, MentionedPairs
    <3> QED
      BY <1>1, <2>1, <3>2, <3>4, <3>5 DEF Exact
  <2> QED
    BY <2>2, <2>3
<1> QED
  BY <1>6, <1>7, <1>8

LEMMA AloneStep ==
  ASSUME LedgerInv, [Next]_vars
  PROVE  AloneInv'
<1> SUFFICES ASSUME NEW r \in history'.alone
             PROVE  Undisturbed(r)'
  BY DEF AloneInv
<1>1. r \in Requests
  BY TypeStep DEF LedgerInv, TypeOK, History
<1>2. CASE r \in history.alone
  <2>1. Undisturbed(r)
    BY <1>2 DEF LedgerInv, AloneInv
  <2> QED
    BY <1>1, <2>1, OthersStep, OwnStep DEF LedgerInv
<1>3. CASE BeginRebuild(r) /\ \A q \in Requests : ~Rebuilding(q)
  BY <1>1, <1>3, BeginIsUndisturbed DEF LedgerInv
<1> QED
  BY <1>2, <1>3, AloneChanges DEF LedgerInv

-----------------------------------------------------------------------------
(* The theorems. *)

LEMMA LedgerInvInit == Init => LedgerInv
<1> SUFFICES ASSUME Init PROVE LedgerInv
  OBVIOUS
<1> USE DEF Init
<1>1. TypeOK
  BY NothingIsWork DEF TypeOK, History
<1>2. WorkInv
  BY NothingIsInOrder DEF WorkInv
<1>3. SnapshotInv
  BY NothingIsInOrder DEF SnapshotInv, PastOf, Live
<1>4. RowInv /\ ProjectionIsSomePastBalance
  BY DEF RowInv, ProjectionIsSomePastBalance, Live
<1>5. AloneInv
  BY DEF AloneInv
<1> QED
  BY <1>1, <1>2, <1>3, <1>4, <1>5 DEF LedgerInv

LEMMA LedgerInvStep == LedgerInv /\ [Next]_vars => LedgerInv'
BY TypeStep, WorkStep, SnapshotStep, RowStep, PastBalanceStep, AloneStep
   DEF LedgerInv

LEMMA LedgerInvAlways == Spec => []LedgerInv
BY LedgerInvInit, LedgerInvStep, PTL DEF Spec

\* Every variable keeps its type, for ledgers of any length: in particular a
\* stored quantity is an integer or there is no row.
THEOREM TypeCorrect == Spec => []TypeOK
BY LedgerInvAlways, PTL DEF LedgerInv

\* A stored quantity is never a mixture of two states of the ledger: it is
\* the balance after some number of the recorded transactions, whatever
\* requests overlap, die, lose their saves or delete what they work on.
THEOREM RowsArePastBalances == Spec => []ProjectionIsSomePastBalance
BY LedgerInvAlways, PTL DEF LedgerInv

\* A rebuild that nothing disturbed leaves the projections of the ledger.
THEOREM UndisturbedRebuilds == Spec => []UndisturbedRebuildIsExact
<1>1. LedgerInv => UndisturbedRebuildIsExact
  <2> SUFFICES ASSUME LedgerInv, NEW r \in history.alone,
                      pc[r] = "choose", work[r].todo = {},
                      NEW c \in Live, NEW l \in location
               PROVE  Exact(c, l)
    BY DEF UndisturbedRebuildIsExact
  <2>1. Undisturbed(r)
    BY DEF LedgerInv, AloneInv
  <2>2. Unfinished(r) = {}
    BY DEF Unfinished
  <2> QED
    BY <2>1, <2>2 DEF Undisturbed
<1> QED
  BY <1>1, LedgerInvAlways, PTL

\* Deletions never change what a recorded transaction means to a component
\* and a location that still exist.
THEOREM HistoryKeepsItsMeaning == Spec => SurvivingHistoryKeepsItsMeaning
<1>1. LedgerInv /\ [Next]_vars =>
        [\A c \in Components : component'[c] # "deleted" =>
           /\ Len(ledger'[c]) >= Len(ledger[c])
           /\ \A i \in 1 .. Len(ledger[c]), l \in location' :
                Effect(ledger'[c][i], l) = Effect(ledger[c][i], l)]_vars
  BY MeaningStep DEF LedgerInv, SameAt
<1> QED
  BY <1>1, LedgerInvAlways, PTL DEF Spec, SurvivingHistoryKeepsItsMeaning

=============================================================================
