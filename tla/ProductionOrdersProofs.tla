----------------------- MODULE ProductionOrdersProofs -----------------------
(***************************************************************************)
(* What ProductionOrders guarantees for any number of requests, any bill   *)
(* of materials, any quantities and any number of finished goods receipts. *)
(*                                                                         *)
(* The argument: what a request has still to post is ordered, materials    *)
(* before the goods they go into, so the materials in the ledger are ahead *)
(* of the goods by the sum of what the requests have still to receive      *)
(* (MatchInv), and by the runs that were cut short.  The sum over requests *)
(* is the number of its units (Total), which a step of one request changes *)
(* by what that request posts (TotalChange).                               *)
(*                                                                         *)
(* The books: the order is lost (Doomed) when a flag is raised, but also   *)
(* as soon as a copy that is about to be saved is overtaken or another     *)
(* request is about to save its own; nothing mends that (DoomedStays).     *)
(* Otherwise one request at most is about to save, and its copy agrees     *)
(* with the ledger as it will be once that request has posted, but for     *)
(* the receipts that are yet to be counted (BalanceInv).                   *)
(*                                                                         *)
(* What the steps do is stated once: Starts, Decides, Leaves, Removes,     *)
(* Saves, Posts, Receives, Counts and Takes (StepEffects).                 *)
(***************************************************************************)
EXTENDS ProductionOrders, FiniteSetTheorems, SequenceTheorems, TLAPS

-----------------------------------------------------------------------------
(* What is still to be posted. *)

At(todo, what) == \E i \in DOMAIN todo : todo[i].what = what

\* The quantity of a posting that todo holds, or 0.
Pending(todo, what) ==
  IF At(todo, what)
  THEN todo[CHOOSE i \in DOMAIN todo : todo[i].what = what].quantity
  ELSE 0

\* No posting twice, and materials before the goods that are made of them.
Ordered(todo) ==
  /\ todo \in Seq(Postings)
  /\ \A i, j \in DOMAIN todo : todo[i].what = todo[j].what => i = j
  /\ \A i \in DOMAIN todo : todo[i].what \in Materials =>
       \E j \in DOMAIN todo :
         /\ j > i
         /\ todo[j].what = "made" /\ todo[j].quantity = todo[i].quantity

\* Nothing but a run of q units and s units of scrap.
Planned(todo, q, s) ==
  /\ Ordered(todo)
  /\ Pending(todo, "made") = q
  /\ \A m \in Materials : Pending(todo, m) = q
  /\ Pending(todo, "scrapped") = s

LEMMA PostingFields ==
  ASSUME NEW p \in Postings
  PROVE  /\ p.what \in Materials \cup {"made", "scrapped"}
         /\ p.quantity \in Nat /\ p.quantity > 0
  BY DEF Postings

LEMMA PendingIs ==
  ASSUME NEW todo, Ordered(todo), NEW i \in DOMAIN todo
  PROVE  /\ Pending(todo, todo[i].what) = todo[i].quantity
         /\ todo[i] \in Postings
         /\ todo[i].quantity \in Nat /\ todo[i].quantity > 0
<1> DEFINE c == CHOOSE j \in DOMAIN todo : todo[j].what = todo[i].what
<1>1. c \in DOMAIN todo /\ todo[c].what = todo[i].what
  OBVIOUS
<1>2. c = i
  BY <1>1 DEF Ordered
<1>3. todo[i] \in Postings
  BY DEF Ordered
<1> HIDE DEF c
<1>4. Pending(todo, todo[i].what) = todo[c].quantity
  BY DEF Pending, At, c
<1> QED
  BY <1>2, <1>3, <1>4, PostingFields

LEMMA PendingNone ==
  ASSUME NEW todo, NEW what, \A i \in DOMAIN todo : todo[i].what # what
  PROVE  Pending(todo, what) = 0
  BY DEF Pending, At

LEMMA PendingTyped ==
  ASSUME NEW todo, Ordered(todo), NEW what
  PROVE  Pending(todo, what) \in Nat
<1>1. CASE At(todo, what)
  <2>1. PICK i \in DOMAIN todo : todo[i].what = what
    BY <1>1 DEF At
  <2> QED
    BY <2>1, PendingIs
<1>2. CASE ~At(todo, what)
  BY <1>2 DEF Pending
<1> QED
  BY <1>1, <1>2

\* Of a run, a material is issued in full or not at all.
LEMMA PendingMaterial ==
  ASSUME NEW todo, Ordered(todo), NEW m \in Materials
  PROVE  Pending(todo, m) \in {0, Pending(todo, "made")}
<1>1. CASE At(todo, m)
  <2>1. PICK i \in DOMAIN todo : todo[i].what = m
    BY <1>1 DEF At
  <2>2. PICK j \in DOMAIN todo :
          todo[j].what = "made" /\ todo[j].quantity = todo[i].quantity
    BY <2>1 DEF Ordered
  <2> QED
    BY <2>1, <2>2, PendingIs
<1>2. CASE ~At(todo, m)
  BY <1>2 DEF Pending
<1> QED
  BY <1>1, <1>2

LEMMA EmptyPlanned == Planned(<<>>, 0, 0)
<1>1. <<>> \in Seq(Postings)
  OBVIOUS
<1>2. DOMAIN <<>> = {}
  OBVIOUS
<1> QED
  BY <1>1, <1>2, PendingNone DEF Planned, Ordered

\* One posting less.
LEMMA TailPending ==
  ASSUME NEW todo, Ordered(todo), todo # <<>>
  PROVE  /\ Ordered(Tail(todo))
         /\ Head(todo) \in Postings
         /\ Pending(todo, Head(todo).what) = Head(todo).quantity
         /\ \A what : Pending(Tail(todo), what) =
              IF what = Head(todo).what THEN 0 ELSE Pending(todo, what)
         /\ Head(todo).what \in Materials => Pending(todo, "made") = Head(todo).quantity
         /\ Head(todo).what = "made" => \A m \in Materials : Pending(todo, m) = 0
<1> DEFINE rest == Tail(todo)
<1>1. /\ todo \in Seq(Postings) /\ Len(todo) \in Nat /\ Len(todo) > 0
      /\ DOMAIN todo = 1 .. Len(todo)
      /\ Head(todo) = todo[1]
  BY DEF Ordered
<1>2. /\ rest \in Seq(Postings)
      /\ DOMAIN rest = 1 .. Len(todo) - 1
      /\ \A i \in DOMAIN rest : i + 1 \in DOMAIN todo /\ rest[i] = todo[i + 1]
  BY <1>1
<1>3. 1 \in DOMAIN todo
  BY <1>1
<1> HIDE DEF rest
<1>4. Ordered(rest)
  <2>1. ASSUME NEW i \in DOMAIN rest, NEW j \in DOMAIN rest, rest[i].what = rest[j].what
        PROVE  i = j
    <3>1. i + 1 = j + 1
      BY <1>2, <2>1 DEF Ordered
    <3> QED
      BY <1>1, <1>2, <3>1
  <2>2. ASSUME NEW i \in DOMAIN rest, rest[i].what \in Materials
        PROVE  \E j \in DOMAIN rest :
                 /\ j > i
                 /\ rest[j].what = "made" /\ rest[j].quantity = rest[i].quantity
    <3>1. PICK k \in DOMAIN todo :
            /\ k > i + 1
            /\ todo[k].what = "made" /\ todo[k].quantity = todo[i + 1].quantity
      BY <1>2, <2>2 DEF Ordered
    <3>2. k - 1 \in DOMAIN rest /\ k - 1 > i /\ rest[k - 1] = todo[k]
      <4>1. k - 1 \in DOMAIN rest /\ k - 1 > i
        BY <1>1, <1>2, <3>1
      <4>2. rest[k - 1] = todo[(k - 1) + 1]
        BY <1>2, <4>1
      <4> QED
        BY <1>1, <4>1, <4>2
    <3> QED
      BY <1>2, <2>2, <3>1, <3>2
  <2> QED
    BY <1>2, <2>1, <2>2 DEF Ordered
<1>5. ASSUME NEW what
      PROVE  Pending(rest, what) =
               IF what = todo[1].what THEN 0 ELSE Pending(todo, what)
  <2>1. CASE At(rest, what)
    <3>1. PICK i \in DOMAIN rest : rest[i].what = what
      BY <2>1 DEF At
    <3>2. /\ i + 1 \in DOMAIN todo /\ todo[i + 1].what = what
          /\ todo[i + 1].quantity = rest[i].quantity
      BY <1>2, <3>1
    <3>3. Pending(rest, what) = rest[i].quantity
      BY <1>4, <3>1, PendingIs
    <3>4. Pending(todo, what) = todo[i + 1].quantity
      BY <3>2, PendingIs
    <3>5. what # todo[1].what
      <4>1. i + 1 # 1
        BY <1>1, <1>2
      <4> QED
        BY <1>3, <3>2, <4>1 DEF Ordered
    <3> QED
      BY <3>2, <3>3, <3>4, <3>5
  <2>2. CASE ~At(rest, what)
    <3>1. Pending(rest, what) = 0
      BY <2>2 DEF Pending
    <3>2. ASSUME what # todo[1].what, NEW k \in DOMAIN todo, todo[k].what = what
          PROVE  FALSE
      <4>1. k # 1
        BY <3>2
      <4>2. k - 1 \in DOMAIN rest /\ (k - 1) + 1 = k
        BY <1>1, <1>2, <4>1
      <4>3. rest[k - 1] = todo[k]
        BY <1>2, <4>2
      <4> QED
        BY <2>2, <3>2, <4>2, <4>3 DEF At
    <3> QED
      BY <3>1, <3>2, PendingNone
  <2> QED
    BY <2>1, <2>2
<1>6. Pending(todo, todo[1].what) = todo[1].quantity /\ todo[1] \in Postings
  BY <1>3, PendingIs
<1>7. ASSUME todo[1].what \in Materials
      PROVE  Pending(todo, "made") = todo[1].quantity
  <2>1. PICK k \in DOMAIN todo :
          todo[k].what = "made" /\ todo[k].quantity = todo[1].quantity
    BY <1>3, <1>7 DEF Ordered
  <2> QED
    BY <2>1, PendingIs
<1>8. ASSUME todo[1].what = "made", NEW m \in Materials
      PROVE  Pending(todo, m) = 0
  <2>1. ASSUME NEW i \in DOMAIN todo, todo[i].what = m
        PROVE  FALSE
    <3>1. PICK k \in DOMAIN todo : k > i /\ todo[k].what = "made"
      BY <2>1 DEF Ordered
    <3>2. k = 1
      BY <1>3, <1>8, <3>1 DEF Ordered
    <3> QED
      BY <1>1, <3>1, <3>2
  <2> QED
    BY <2>1, PendingNone
<1> QED
  BY <1>1, <1>4, <1>5, <1>6, <1>7, <1>8 DEF rest

\* A run of q units, with s units of scrap after it or none.
LEMMA RunLike ==
  ASSUME NEW todo \in Seq(Postings), NEW q \in Nat, NEW s \in Nat,
         Len(todo) \in {Len(Bill) + 1, Len(Bill) + 2},
         \A i \in 1 .. Len(Bill) : todo[i] = Posting(Bill[i], q),
         todo[Len(Bill) + 1] = Posting("made", q),
         Len(todo) = Len(Bill) + 2 => todo[Len(Bill) + 2] = Posting("scrapped", s),
         Len(todo) = Len(Bill) + 1 => s = 0
  PROVE  Planned(todo, q, s)
<1> DEFINE n == Len(Bill)
<1>1. /\ n \in Nat /\ DOMAIN Bill = 1 .. n
      /\ \A i \in 1 .. n : Bill[i] \in Materials
      /\ \A i, j \in 1 .. n : Bill[i] = Bill[j] => i = j
      /\ "made" \notin Materials /\ "scrapped" \notin Materials
  BY BillAssumption
<1>2. DOMAIN todo = 1 .. Len(todo) /\ Len(todo) \in Nat
  OBVIOUS
<1>e. /\ Len(todo) \in {n + 1, n + 2}
      /\ \A i \in 1 .. n : todo[i] = Posting(Bill[i], q)
      /\ todo[n + 1] = Posting("made", q)
      /\ Len(todo) = n + 2 => todo[n + 2] = Posting("scrapped", s)
      /\ Len(todo) = n + 1 => s = 0
  OBVIOUS
<1> HIDE DEF n
<1>f. Len(todo) = n + 1 \/ Len(todo) = n + 2
  BY <1>e
<1>a. /\ \A i \in 1 .. n : i \in DOMAIN todo
      /\ n + 1 \in DOMAIN todo
      /\ n + 2 \in DOMAIN todo <=> Len(todo) = n + 2
      /\ \A i \in DOMAIN todo : i \in 1 .. n \/ i = n + 1 \/ i = n + 2
  <2>1. CASE Len(todo) = n + 1
    <3>1. DOMAIN todo = 1 .. n + 1
      BY <1>2, <2>1
    <3> QED
      BY <1>1, <2>1, <3>1
  <2>2. CASE Len(todo) = n + 2
    <3>1. DOMAIN todo = 1 .. n + 2
      BY <1>2, <2>2
    <3> QED
      BY <1>1, <2>2, <3>1
  <2> QED
    BY <1>f, <2>1, <2>2
<1>b. \A what : Posting(what, q).what = what /\ Posting(what, q).quantity = q
  BY DEF Posting
<1>c. Posting("scrapped", s).what = "scrapped" /\ Posting("scrapped", s).quantity = s
  BY DEF Posting
<1>3. /\ \A i \in 1 .. n : i \in DOMAIN todo /\ todo[i].what = Bill[i]
                           /\ todo[i].quantity = q
      /\ n + 1 \in DOMAIN todo
      /\ todo[n + 1].what = "made" /\ todo[n + 1].quantity = q
      /\ n + 2 \in DOMAIN todo =>
           todo[n + 2].what = "scrapped" /\ todo[n + 2].quantity = s
  BY <1>a, <1>b, <1>c, <1>e
<1>4. ASSUME NEW i \in DOMAIN todo, NEW j \in DOMAIN todo, todo[i].what = todo[j].what
      PROVE  i = j
  <2>1. CASE i \in 1 .. n
    <3>1. todo[i].what = Bill[i] /\ Bill[i] \in Materials
      BY <1>1, <1>3, <2>1
    <3>2. j \in 1 .. n
      <4>1. todo[j].what \notin {"made", "scrapped"}
        BY <1>1, <1>4, <3>1
      <4>2. j # n + 1 /\ j # n + 2
        BY <1>3, <4>1
      <4> QED
        BY <1>a, <4>2
    <3> QED
      BY <1>1, <1>3, <1>4, <2>1, <3>2
  <2>2. CASE i = n + 1
    BY <1>1, <1>3, <1>4, <2>2
  <2>3. CASE i = n + 2
    BY <1>1, <1>3, <1>4, <2>3
  <2> QED
    BY <1>a, <2>1, <2>2, <2>3
<1>5. ASSUME NEW i \in DOMAIN todo, todo[i].what \in Materials
      PROVE  /\ n + 1 > i
             /\ todo[n + 1].quantity = todo[i].quantity
  <2>1. i \in 1 .. n
    BY <1>1, <1>3, <1>5
  <2> QED
    BY <1>1, <1>3, <2>1
<1>6. Ordered(todo)
  BY <1>3, <1>4, <1>5 DEF Ordered
<1>7. Pending(todo, "made") = q
  BY <1>3, <1>6, PendingIs
<1>8. ASSUME NEW m \in Materials
      PROVE  Pending(todo, m) = q
  <2>1. PICK i \in DOMAIN Bill : Bill[i] = m
    BY DEF Materials
  <2>2. i \in 1 .. n
    BY <1>1, <2>1
  <2> QED
    BY <1>3, <1>6, <2>1, <2>2, PendingIs
<1>9. Pending(todo, "scrapped") = s
  <2>1. CASE n + 2 \in DOMAIN todo
    BY <1>3, <1>6, <2>1, PendingIs
  <2>2. CASE n + 2 \notin DOMAIN todo
    <3>1. s = 0
      <4>1. Len(todo) # n + 2
        BY <1>a, <2>2
      <4> QED
        BY <1>e, <4>1
    <3>2. \A i \in DOMAIN todo : todo[i].what # "scrapped"
      BY <1>1, <1>3, <1>a, <2>2
    <3> QED
      BY <3>1, <3>2, PendingNone
  <2> QED
    BY <2>1, <2>2
<1> QED
  BY <1>6, <1>7, <1>8, <1>9 DEF Planned

LEMMA RunIs ==
  ASSUME NEW q \in Nat \ {0}
  PROVE  /\ Run(q) \in Seq(Postings) /\ Len(Run(q)) = Len(Bill) + 1
         /\ \A i \in 1 .. Len(Bill) : Run(q)[i] = Posting(Bill[i], q)
         /\ Run(q)[Len(Bill) + 1] = Posting("made", q)
         /\ Run(q) # <<>>
<1> DEFINE n == Len(Bill)
           issues == [i \in DOMAIN Bill |-> Posting(Bill[i], q)]
           goods == <<Posting("made", q)>>
<1>1. /\ n \in Nat /\ DOMAIN Bill = 1 .. n
      /\ \A i \in 1 .. n : Bill[i] \in Materials
  BY BillAssumption
<1>2. Posting("made", q) \in Postings /\ \A m \in Materials : Posting(m, q) \in Postings
  BY DEF Posting, Postings
<1>3. issues \in Seq(Postings) /\ Len(issues) = n
  <2>1. issues \in [1 .. n -> Postings]
    BY <1>1, <1>2
  <2> QED
    BY <1>1, <2>1
<1>4. goods \in Seq(Postings) /\ Len(goods) = 1 /\ goods[1] = Posting("made", q)
  BY <1>2
<1>5. \A i \in 1 .. n : issues[i] = Posting(Bill[i], q)
  BY <1>1
<1>6. Run(q) = issues \o goods
  BY DEF Run
<1> HIDE DEF issues, goods, n
<1>7. /\ issues \o goods \in Seq(Postings) /\ Len(issues \o goods) = n + 1
      /\ \A i \in 1 .. n : (issues \o goods)[i] = issues[i]
      /\ (issues \o goods)[n + 1] = goods[1]
  <2>1. /\ issues \o goods \in Seq(Postings)
        /\ Len(issues \o goods) = Len(issues) + Len(goods)
        /\ \A i \in 1 .. Len(issues) + Len(goods) : (issues \o goods)[i] =
             IF i <= Len(issues) THEN issues[i] ELSE goods[i - Len(issues)]
    BY <1>3, <1>4, ConcatProperties
  <2>2. (n + 1) - n = 1 /\ ~(n + 1 <= n) /\ n + 1 \in 1 .. n + 1
    BY <1>1
  <2> QED
    BY <1>1, <1>3, <1>4, <2>1, <2>2
<1>8. Len(Run(q)) # 0
  BY <1>1, <1>6, <1>7
<1>9. Run(q) # <<>>
  BY <1>8
<1> QED
  BY <1>4, <1>5, <1>6, <1>7, <1>9 DEF n

LEMMA ScrapIs ==
  ASSUME NEW s \in Nat
  PROVE  /\ ScrapOf(s) \in Seq(Postings)
         /\ s > 0 => Len(ScrapOf(s)) = 1 /\ ScrapOf(s)[1] = Posting("scrapped", s)
         /\ s = 0 => ScrapOf(s) = <<>>
         /\ Planned(ScrapOf(s), 0, s)
<1>1. CASE s > 0
  <2>1. Posting("scrapped", s) \in Postings
    BY <1>1 DEF Posting, Postings
  <2>2. /\ ScrapOf(s) \in Seq(Postings) /\ Len(ScrapOf(s)) = 1
        /\ ScrapOf(s)[1] = Posting("scrapped", s)
        /\ DOMAIN ScrapOf(s) = {1}
    BY <1>1, <2>1 DEF ScrapOf
  <2>3. /\ ScrapOf(s)[1].what = "scrapped" /\ ScrapOf(s)[1].quantity = s
        /\ "scrapped" \notin Materials /\ "made" \notin Materials
    BY <2>2, BillAssumption DEF Posting
  <2>4. Ordered(ScrapOf(s))
    BY <2>2, <2>3 DEF Ordered
  <2>5. Pending(ScrapOf(s), "scrapped") = s
    BY <2>2, <2>3, <2>4, PendingIs
  <2>6. \A what : what # "scrapped" => Pending(ScrapOf(s), what) = 0
    BY <2>2, <2>3, PendingNone
  <2> QED
    BY <1>1, <2>2, <2>3, <2>4, <2>5, <2>6 DEF Planned
<1>2. CASE s = 0
  <2>1. ScrapOf(s) = <<>>
    BY <1>2 DEF ScrapOf
  <2>2. <<>> \in Seq(Postings)
    OBVIOUS
  <2>3. Planned(ScrapOf(s), 0, s)
    BY <1>2, <2>1, EmptyPlanned
  <2>4. ~(s > 0)
    BY <1>2
  <2>5. ScrapOf(s) \in Seq(Postings)
    BY <2>1, <2>2, Zenon
  <2> QED
    BY <2>1, <2>3, <2>4, <2>5, Zenon
<1> QED
  BY <1>1, <1>2

LEMMA RunPlanned ==
  ASSUME NEW q \in Nat \ {0}, NEW s \in Nat
  PROVE  Planned(Run(q), q, 0) /\ Planned(Run(q) \o ScrapOf(s), q, s)
<1> DEFINE n == Len(Bill)
           run == Run(q)
           scrap == ScrapOf(s)
<1>1. n \in Nat
  BY BillAssumption
<1>2. /\ run \in Seq(Postings) /\ Len(run) = n + 1
      /\ \A i \in 1 .. n : run[i] = Posting(Bill[i], q)
      /\ run[n + 1] = Posting("made", q)
  BY RunIs
<1>3. /\ scrap \in Seq(Postings)
      /\ s > 0 => Len(scrap) = 1 /\ scrap[1] = Posting("scrapped", s)
      /\ s = 0 => scrap = <<>>
  BY ScrapIs
<1> HIDE DEF run, scrap
<1>4. Planned(run, q, 0)
  <2>1. Len(run) # Len(Bill) + 2
    BY <1>1, <1>2
  <2> HIDE DEF n
  <2> QED
    BY <1>1, <1>2, <2>1, RunLike DEF n
<1>5. Planned(run \o scrap, q, s)
  <2>1. CASE s = 0
    <3>1. run \o scrap = run
      BY <1>2, <1>3, <2>1
    <3> QED
      BY <1>4, <2>1, <3>1
  <2>2. CASE s > 0
    <3> DEFINE todo == run \o scrap
    <3>1. /\ todo \in Seq(Postings) /\ Len(todo) = n + 2
          /\ \A i \in 1 .. n + 1 : todo[i] = run[i]
          /\ todo[n + 2] = scrap[1]
      <4>1. /\ run \o scrap \in Seq(Postings)
            /\ Len(run \o scrap) = Len(run) + Len(scrap)
            /\ \A i \in 1 .. Len(run) + Len(scrap) : (run \o scrap)[i] =
                 IF i <= Len(run) THEN run[i] ELSE scrap[i - Len(run)]
        BY <1>2, <1>3, ConcatProperties
      <4>2. (n + 2) - (n + 1) = 1 /\ ~(n + 2 <= n + 1) /\ n + 2 \in 1 .. n + 2
            /\ (n + 1) + 1 = n + 2
        BY <1>1
      <4> QED
        <5>1. Len(run) = n + 1 /\ Len(scrap) = 1
          BY <1>2, <1>3, <2>2
        <5>2. Len(todo) = n + 2 /\ todo \in Seq(Postings)
          BY <1>1, <4>1, <5>1
        <5>3. \A i \in 1 .. n + 2 : todo[i] =
                IF i <= n + 1 THEN run[i] ELSE scrap[i - (n + 1)]
          BY <1>1, <4>1, <5>1
        <5>4. todo[n + 2] = scrap[1]
          BY <4>2, <5>3
        <5>5. \A i \in 1 .. n + 1 : i \in 1 .. n + 2 /\ i <= n + 1
          BY <1>1
        <5> QED
          BY <5>2, <5>3, <5>4, <5>5
    <3> HIDE DEF todo
    <3>2. /\ \A i \in 1 .. n : todo[i] = Posting(Bill[i], q)
          /\ todo[n + 1] = Posting("made", q)
          /\ todo[n + 2] = Posting("scrapped", s)
          /\ Len(todo) # n + 1
      BY <1>1, <1>2, <1>3, <2>2, <3>1
    <3> QED
      BY <3>1, <3>2, RunLike DEF todo
  <2> QED
    BY <2>1, <2>2
<1> QED
  BY <1>4, <1>5 DEF run, scrap

-----------------------------------------------------------------------------
(* The sum of a function on requests, as the number of its units. *)

Units(f) == {u \in Requests \X Nat : u[2] \in 1 .. f[u[1]]}

Total(f) == Cardinality(Units(f))

LEMMA BlockFacts ==
  ASSUME NEW r, NEW n \in Nat
  PROVE  /\ IsFiniteSet({r} \X (1 .. n))
         /\ Cardinality({r} \X (1 .. n)) = n
<1>1. IsFiniteSet(1 .. n) /\ Cardinality(1 .. n) = n
  <2>1. 1 \in Int /\ n \in Int
    OBVIOUS
  <2>2. /\ IsFiniteSet(1 .. n)
        /\ Cardinality(1 .. n) = IF 1 > n THEN 0 ELSE n - 1 + 1
    BY <2>1, FS_Interval, Zenon
  <2> QED
    BY <2>2
<1>2. IsFiniteSet({r}) /\ Cardinality({r}) = 1
  BY FS_Singleton
<1>3. /\ IsFiniteSet({r} \X (1 .. n))
      /\ Cardinality({r} \X (1 .. n)) = Cardinality({r}) * Cardinality(1 .. n)
  BY <1>1, <1>2, FS_Product, Zenon
<1>4. IsFiniteSet({r} \X (1 .. n)) /\ Cardinality({r} \X (1 .. n)) = 1 * n
  BY <1>1, <1>2, <1>3, Zenon
<1> QED
  BY <1>4

\* One request more or less.
LEMMA TotalSplit ==
  ASSUME NEW f \in [Requests -> Nat], IsFiniteSet(Units(f)), NEW r \in Requests,
         NEW others, others = {u \in Units(f) : u[1] # r}
  PROVE  /\ IsFiniteSet(others) /\ Cardinality(others) \in Nat
         /\ Total(f) = Cardinality(others) + f[r]
<1>1. others \in SUBSET Units(f)
  OBVIOUS
<1>2. IsFiniteSet(others) /\ Cardinality(others) \in Nat
  BY <1>1, FS_Subset, FS_CardinalityType
<1>3. Units(f) = others \cup ({r} \X (1 .. f[r]))
  BY DEF Units
<1>4. others \cap ({r} \X (1 .. f[r])) = {}
  OBVIOUS
<1>5. f[r] \in Nat
  OBVIOUS
<1>6. IsFiniteSet({r} \X (1 .. f[r])) /\ Cardinality({r} \X (1 .. f[r])) = f[r]
  BY <1>5, BlockFacts
<1>7. Cardinality(others \cup ({r} \X (1 .. f[r]))) =
        Cardinality(others) + Cardinality({r} \X (1 .. f[r])) - Cardinality({})
  <2> DEFINE block == {r} \X (1 .. f[r])
  <2>1. IsFiniteSet(block) /\ others \cap block = {}
    BY <1>4, <1>6
  <2> HIDE DEF block
  <2>2. Cardinality(others \cup block) =
          Cardinality(others) + Cardinality(block) - Cardinality(others \cap block)
    BY <1>2, <2>1, FS_Union, Zenon
  <2>3. Cardinality(others \cup block) =
          Cardinality(others) + Cardinality(block) - Cardinality({})
    BY <2>1, <2>2, Zenon
  <2> QED
    BY <2>3 DEF block
<1>8. Cardinality({}) = 0
  BY FS_EmptySet
<1>9. Total(f) = Cardinality(others) + f[r] - 0
  BY <1>3, <1>6, <1>7, <1>8, Zenon DEF Total
<1> QED
  BY <1>2, <1>5, <1>9

LEMMA TotalChange ==
  ASSUME NEW f \in [Requests -> Nat], IsFiniteSet(Units(f)),
         NEW g \in [Requests -> Nat], NEW r \in Requests,
         \A s \in Requests \ {r} : g[s] = f[s]
  PROVE  /\ IsFiniteSet(Units(g))
         /\ Total(f) \in Nat /\ Total(g) \in Nat
         /\ Total(g) = Total(f) - f[r] + g[r]
<1> DEFINE others == {u \in Units(f) : u[1] # r}
<1>1. others = {u \in Units(g) : u[1] # r}
  <2>1. \A u \in Requests \X Nat : u[1] # r => f[u[1]] = g[u[1]]
    OBVIOUS
  <2>2. \A u \in Requests \X Nat :
          u[1] # r => (u \in Units(f) <=> u \in Units(g))
    BY <2>1 DEF Units
  <2>3. Units(f) \subseteq Requests \X Nat /\ Units(g) \subseteq Requests \X Nat
    BY DEF Units
  <2> QED
    BY <2>2, <2>3
<1>2. /\ IsFiniteSet(others) /\ Cardinality(others) \in Nat
      /\ Total(f) = Cardinality(others) + f[r]
  BY TotalSplit
<1>3. f[r] \in Nat /\ g[r] \in Nat
  OBVIOUS
<1>4. IsFiniteSet(Units(g))
  <2>1. Units(g) = others \cup ({r} \X (1 .. g[r]))
    BY <1>1 DEF Units
  <2>2. IsFiniteSet({r} \X (1 .. g[r]))
    BY <1>3, BlockFacts
  <2>3. IsFiniteSet(others \cup ({r} \X (1 .. g[r])))
    BY <1>2, <2>2, FS_Union, Zenon
  <2> QED
    BY <2>1, <2>3, Zenon
<1>5. Total(g) = Cardinality(others) + g[r]
  BY <1>1, <1>4, TotalSplit
<1> QED
  BY <1>2, <1>3, <1>4, <1>5

LEMMA TotalZero ==
  ASSUME NEW f, \A r \in Requests : f[r] = 0
  PROVE  IsFiniteSet(Units(f)) /\ Total(f) = 0
<1>1. Units(f) = {}
  BY DEF Units
<1> QED
  BY <1>1, FS_EmptySet DEF Total

\* Sets that gain or lose one element.
LEMMA SetChange ==
  ASSUME NEW S, IsFiniteSet(S), NEW x
  PROVE  /\ Cardinality(S) \in Nat
         /\ IsFiniteSet(S \cup {x}) /\ IsFiniteSet(S \ {x})
         /\ x \notin S => Cardinality(S \cup {x}) = Cardinality(S) + 1
         /\ x \in S => Cardinality(S \ {x}) = Cardinality(S) - 1
  BY FS_CardinalityType, FS_AddElement, FS_RemoveElement

-----------------------------------------------------------------------------
(* Types. *)

Histories == [current : SUBSET Requests, stale : BOOLEAN, cut : BOOLEAN,
              unbooked : BOOLEAN, started : Nat]

Copies == [op : Operations \cup {"none"}, order : Orders \cup {NoOrder},
           todo : Seq(Postings), receipt : Receipts \cup {NoOrder}]

Tables ==
  /\ order \in Orders \cup {NoOrder}
  /\ receipt \in [Receipts -> {"none", "DRAFT", "POSTED"}]
  /\ ledger \in Ledger
  /\ history \in Histories

\* What the variables of a request hold at a statement.
Shape(c, label) ==
  /\ c \in Copies
  /\ label \in Labels
  /\ Ordered(c.todo)
  /\ label = "post" <=> c.todo # <<>>
  /\ label \in {"decide", "post", "save"} => c.order # NoOrder
  /\ label \in {"receive", "saveReceipt", "loadOrder"} =>
       c.receipt \in Receipts /\ receipt[c.receipt] # "none"

TypeInv ==
  /\ Tables
  /\ pc \in [Requests -> Labels]
  /\ copy \in [Requests -> Copies]
  /\ \A r \in Requests : Shape(copy[r], pc[r])

LEMMA TypeInvIsTypeOK == TypeInv => TypeOK
<1> SUFFICES ASSUME TypeInv PROVE TypeOK
  OBVIOUS
<1>1. ASSUME NEW r \in Requests
      PROVE  /\ copy[r].op \in Operations \cup {"none"}
             /\ copy[r].order \in Orders \cup {NoOrder}
             /\ copy[r].receipt \in Receipts \cup {NoOrder}
             /\ \A i \in DOMAIN copy[r].todo : copy[r].todo[i] \in Postings
             /\ pc[r] = "post" => copy[r].todo # <<>>
             /\ pc[r] = "save" => copy[r].order # NoOrder
  <2>1. Shape(copy[r], pc[r])
    BY DEF TypeInv
  <2>2. \A i \in DOMAIN copy[r].todo : copy[r].todo[i] \in Postings
    BY <2>1, PendingIs DEF Shape
  <2> QED
    BY <2>1, <2>2 DEF Shape, Copies
<1> QED
  BY <1>1 DEF TypeOK, TypeInv, Tables, Histories

LEMMA IdleShape == Idle \in Copies /\ Shape(Idle, "idle")
<1>1. <<>> \in Seq(Postings) /\ Ordered(<<>>)
  BY EmptyPlanned DEF Planned
<1>2. Idle \in Copies
  BY <1>1 DEF Idle, Copies
<1>3. Idle.todo = <<>>
  BY DEF Idle
<1> QED
  BY <1>1, <1>2, <1>3 DEF Shape, Labels

LEMMA OrderFields ==
  ASSUME NEW o \in Orders
  PROVE  /\ o # NoOrder
         /\ o.status \in Statuses /\ o.planned \in Nat
         /\ o.completed \in Nat /\ o.scrapped \in Nat /\ o.located \in BOOLEAN
  BY NoOrderAssumption DEF Orders

LEMMA CopyFields ==
  ASSUME TypeInv, NEW r \in Requests
  PROVE  /\ copy[r] \in Copies /\ pc[r] \in Labels /\ Shape(copy[r], pc[r])
         /\ copy[r].op \in Operations \cup {"none"}
         /\ copy[r].order \in Orders \cup {NoOrder}
         /\ copy[r].todo \in Seq(Postings) /\ Ordered(copy[r].todo)
         /\ copy[r].receipt \in Receipts \cup {NoOrder}
         /\ pc[r] # "post" => copy[r].todo = <<>>
         /\ pc[r] \in {"decide", "post", "save"} => copy[r].order \in Orders
<1>1. Shape(copy[r], pc[r])
  BY DEF TypeInv
<1> QED
  BY <1>1 DEF Shape, Copies

LEMMA LedgerFields ==
  ASSUME ledger \in Ledger
  PROVE  /\ ledger.issued \in [Materials -> Nat]
         /\ ledger.made \in Nat /\ ledger.finished \in Nat /\ ledger.scrapped \in Nat
  BY DEF Ledger

\* Request r takes its variables to c and goes to label.
Turn(r, c, label) ==
  /\ copy' = [copy EXCEPT ![r] = c]
  /\ pc' = [pc EXCEPT ![r] = label]

Others(r) == \A s \in Requests \ {r} : pc'[s] = pc[s] /\ copy'[s] = copy[s]

LEMMA TurnTyped ==
  ASSUME TypeInv, Tables', NEW r \in Requests, NEW c, NEW label, Turn(r, c, label),
         Shape(c, label)', \A f \in Receipts : receipt[f] # "none" => receipt'[f] # "none"
  PROVE  TypeInv' /\ Others(r) /\ pc'[r] = label /\ copy'[r] = c
<1>1. pc \in [Requests -> Labels] /\ copy \in [Requests -> Copies]
  BY DEF TypeInv
<1>2. c \in Copies /\ label \in Labels
  BY DEF Shape
<1>3. /\ pc' \in [Requests -> Labels] /\ copy' \in [Requests -> Copies]
      /\ Others(r) /\ pc'[r] = label /\ copy'[r] = c
  BY <1>1, <1>2 DEF Turn, Others
<1>4. ASSUME NEW s \in Requests
      PROVE  Shape(copy[s], pc[s])'
  <2>1. CASE s = r
    BY <1>3, <2>1 DEF Shape
  <2>2. CASE s # r
    <3>1. copy'[s] = copy[s] /\ pc'[s] = pc[s]
      BY <1>3, <2>2 DEF Others
    <3>2. Shape(copy[s], pc[s])
      BY DEF TypeInv
    <3> QED
      BY <3>1, <3>2 DEF Shape
  <2> QED
    BY <2>1, <2>2
<1> QED
  BY <1>3, <1>4 DEF TypeInv

LEMMA TypeInit == Init => TypeInv
<1> SUFFICES ASSUME Init PROVE TypeInv
  OBVIOUS
<1>1. order \in Orders \cup {NoOrder}
  <2>1. CASE order = NoOrder
    BY <2>1
  <2>2. CASE order # NoOrder
    <3>1. PICK planned \in Plans, located \in BOOLEAN,
               status \in {"DRAFT", "RELEASED", "IN_PROGRESS", "CANCELLED"} :
            order = [New(planned, located) EXCEPT !.status = status]
      BY <2>2 DEF Init
    <3>2. planned \in Nat /\ status \in Statuses
      BY QuantityAssumption DEF Statuses
    <3>3. PICK n \in Nat : n = 0
      OBVIOUS
    <3>4. order = [status |-> status, planned |-> planned, completed |-> n,
                   scrapped |-> n, located |-> located]
      BY <3>1, <3>3 DEF New
    <3> QED
      BY <3>2, <3>4 DEF Orders
  <2> QED
    BY <2>1, <2>2
<1>2. receipt \in [Receipts -> {"none", "DRAFT", "POSTED"}]
  BY DEF Init
<1>3. ledger \in Ledger
  <2>1. PICK n \in Nat : n = 0
    OBVIOUS
  <2>2. ledger = [issued |-> [m \in Materials |-> n], made |-> n, finished |-> n,
                  scrapped |-> n]
    BY <2>1 DEF Init
  <2> QED
    BY <2>2 DEF Ledger
<1>4. history \in Histories
  BY DEF Init, Histories
<1>5. pc = [r \in Requests |-> "idle"] /\ copy = [r \in Requests |-> Idle]
  BY DEF Init
<1> QED
  BY <1>1, <1>2, <1>3, <1>4, <1>5, IdleShape DEF TypeInv, Tables, Shape

-----------------------------------------------------------------------------
(* What a step does to the history. *)

LEMMA HistoryFields ==
  ASSUME NEW h \in Histories
  PROVE  /\ h.current \in SUBSET Requests /\ h.stale \in BOOLEAN /\ h.cut \in BOOLEAN
         /\ h.unbooked \in BOOLEAN /\ h.started \in Nat
  BY DEF Histories

LEMMA HistoryUpdates ==
  ASSUME NEW h \in Histories, NEW c \in SUBSET Requests, NEW b \in BOOLEAN, NEW n \in Nat
  PROVE  /\ [h EXCEPT !.current = c] \in Histories
         /\ [h EXCEPT !.stale = b] \in Histories
         /\ [h EXCEPT !.cut = b] \in Histories
         /\ [h EXCEPT !.unbooked = b] \in Histories
         /\ [h EXCEPT !.started = n] \in Histories
  BY DEF Histories

\* All of the history after a step.
HistoryIs(c, stale, cut, unbooked, n) ==
  /\ history' \in Histories
  /\ history'.current = c
  /\ history'.stale = stale
  /\ history'.cut = cut
  /\ history'.unbooked = unbooked
  /\ history'.started = n

LEMMA StartedHistory ==
  ASSUME history \in Histories, NEW r \in Requests, Started(r)
  PROVE  HistoryIs(history.current \cup {r}, history.stale, history.cut,
                   history.unbooked, history.started + 1)
<1>1. PICK c \in SUBSET Requests : c = history.current \cup {r}
  BY HistoryFields
<1>2. PICK n \in Nat : n = history.started + 1
  BY HistoryFields
<1>3. history' = [[history EXCEPT !.current = c] EXCEPT !.started = n]
  BY <1>1, <1>2 DEF Started
<1>4. [history EXCEPT !.current = c] \in Histories
  BY HistoryUpdates
<1>5. history' \in Histories
  BY <1>3, <1>4, HistoryUpdates
<1> QED
  BY <1>1, <1>2, <1>3, <1>4, <1>5 DEF HistoryIs, Histories

LEMMA WritingHistory ==
  ASSUME history \in Histories, NEW r \in Requests, Writing(r)
  PROVE  \E b \in BOOLEAN :
           /\ b <=> history.stale \/ r \notin history.current
           /\ HistoryIs(history.current \cap {r}, b, history.cut, history.unbooked,
                        history.started)
<1>1. PICK c \in SUBSET Requests : c = history.current \cap {r}
  BY HistoryFields
<1>2. PICK b \in BOOLEAN : b = (history.stale \/ r \notin history.current)
  BY HistoryFields
<1>3. history' = [[history EXCEPT !.current = c] EXCEPT !.stale = b]
  BY <1>1, <1>2 DEF Writing
<1>4. [history EXCEPT !.current = c] \in Histories
  BY HistoryUpdates
<1>5. history' \in Histories
  BY <1>3, <1>4, HistoryUpdates
<1>6. HistoryIs(history.current \cap {r}, b, history.cut, history.unbooked,
                history.started)
  BY <1>1, <1>3, <1>4, <1>5 DEF HistoryIs, Histories
<1> QED
  BY <1>2, <1>6

\* The flags are raised by the steps named here, the rest is left alone.
LEMMA FlagHistory ==
  ASSUME history \in Histories, NEW b \in BOOLEAN
  PROVE  /\ history' = [history EXCEPT !.stale = b] =>
              HistoryIs(history.current, b, history.cut, history.unbooked,
                        history.started)
         /\ history' = [history EXCEPT !.cut = b] =>
              HistoryIs(history.current, history.stale, b, history.unbooked,
                        history.started)
         /\ history' = [history EXCEPT !.unbooked = b] =>
              HistoryIs(history.current, history.stale, history.cut, b,
                        history.started)
         /\ history' = history =>
              HistoryIs(history.current, history.stale, history.cut, history.unbooked,
                        history.started)
<1>1. /\ [history EXCEPT !.stale = b] \in Histories
      /\ [history EXCEPT !.cut = b] \in Histories
      /\ [history EXCEPT !.unbooked = b] \in Histories
  BY HistoryUpdates
<1> QED
  BY <1>1 DEF HistoryIs, Histories

-----------------------------------------------------------------------------
(* What a step does to the tables and to the copies. *)

\* A request begins.
Starts(r) ==
  /\ pc[r] = "idle" /\ pc'[r] \in {"save", "decide", "receive"}
  /\ copy'[r].todo = <<>>
  /\ UNCHANGED <<order, receipt, ledger>>
  /\ HistoryIs(history.current \cup {r}, history.stale, history.cut, history.unbooked,
               history.started + 1)
  /\ pc'[r] = "decide" => order # NoOrder /\ copy'[r].order = order
  /\ pc'[r] = "save" =>
       /\ order = NoOrder /\ history.started = 0
       /\ copy'[r].order.completed = 0 /\ copy'[r].order.scrapped = 0

\* A request changes its copy of the order and is to post what it adds to it,
\* unless history tells otherwise.
Decides(r) ==
  /\ pc[r] = "decide" /\ pc'[r] \in {"post", "save"}
  /\ UNCHANGED <<order, receipt, ledger>>
  /\ \E b \in BOOLEAN, q, s \in Nat :
       /\ HistoryIs(history.current, history.stale, history.cut, b, history.started)
       /\ history.unbooked => b
       /\ Planned(copy'[r].todo, q, s)
       /\ ~b => /\ copy'[r].order.completed = copy[r].order.completed + q
                /\ copy'[r].order.scrapped = copy[r].order.scrapped + s

\* A request ends without a write.
Leaves(r) ==
  /\ pc[r] # "idle" /\ pc'[r] = "idle" /\ copy'[r].todo = <<>>
  /\ UNCHANGED <<order, receipt, ledger>>
  /\ \E b \in BOOLEAN :
       /\ HistoryIs(history.current, history.stale, b, history.unbooked,
                    history.started)
       /\ history.cut \/ pc[r] \notin {"decide", "receive"} => b

Effect(r, done) == TypeInv' /\ Others(r) /\ done

LEMMA StartEffects ==
  ASSUME TypeInv, NEW r \in Requests
  PROVE  /\ Create(r) => Effect(r, Starts(r))
         /\ \A op \in Operations : Load(r, op) => Effect(r, Starts(r))
         /\ \A f \in Receipts : LoadReceipt(r, f) => Effect(r, Starts(r))
<1>t. Tables
  BY DEF TypeInv
<1>i. Idle \in Copies /\ Idle.todo = <<>> /\ Ordered(<<>>)
  BY IdleShape DEF Idle, Shape
<1>1. ASSUME Create(r)
      PROVE  Effect(r, Starts(r))
  <2>1. PICK planned \in Plans, located \in BOOLEAN :
          copy' = [copy EXCEPT ![r] = [Idle EXCEPT !.order = New(planned, located)]]
    BY <1>1 DEF Create
  <2>2. PICK n \in Nat : n = 0
    OBVIOUS
  <2> DEFINE o == New(planned, located)
             c == [Idle EXCEPT !.order = o]
  <2>3. o \in Orders /\ o.completed = 0 /\ o.scrapped = 0
    <3>1. o = [status |-> "DRAFT", planned |-> planned, completed |-> n,
               scrapped |-> n, located |-> located]
      BY <2>2 DEF New
    <3> QED
      BY <2>2, <3>1, QuantityAssumption DEF Orders, Statuses
  <2> HIDE DEF o
  <2>4. c \in Copies /\ c.order = o /\ c.todo = <<>>
    BY <1>i, <2>3 DEF Copies
  <2> HIDE DEF c
  <2>5. Turn(r, c, "save")
    BY <1>1, <2>1 DEF Create, Goto, Turn, c, o
  <2>6. HistoryIs(history.current \cup {r}, history.stale, history.cut,
                  history.unbooked, history.started + 1)
    BY <1>1, <1>t, StartedHistory DEF Create, Tables
  <2>7. UNCHANGED <<order, receipt, ledger>> /\ Tables'
    BY <1>1, <1>t, <2>6 DEF Create, Tables, HistoryIs
  <2>8. Shape(c, "save")'
    BY <1>i, <2>3, <2>4, OrderFields DEF Shape, Labels
  <2>9. TypeInv' /\ Others(r) /\ pc'[r] = "save" /\ copy'[r] = c
    BY <2>5, <2>7, <2>8, TurnTyped
  <2>10. pc[r] = "idle" /\ order = NoOrder /\ history.started = 0
    BY <1>1 DEF Create
  <2> QED
    BY <2>3, <2>4, <2>6, <2>7, <2>9, <2>10 DEF Effect, Starts
<1>2. ASSUME NEW op \in Operations, Load(r, op)
      PROVE  Effect(r, Starts(r))
  <2>0. PICK c : c = [Idle EXCEPT !.op = op, !.order = order]
    OBVIOUS
  <2>1. pc[r] = "idle" /\ order # NoOrder /\ order \in Orders
    BY <1>2, <1>t DEF Load, Tables
  <2>2. c \in Copies /\ c.order = order /\ c.todo = <<>>
    BY <1>i, <2>0, <2>1 DEF Copies
  <2>3. Turn(r, c, "decide")
    BY <1>2, <2>0 DEF Load, Goto, Turn
  <2>4. HistoryIs(history.current \cup {r}, history.stale, history.cut,
                  history.unbooked, history.started + 1)
    BY <1>2, <1>t, StartedHistory DEF Load, Tables
  <2>5. UNCHANGED <<order, receipt, ledger>> /\ Tables'
    BY <1>2, <1>t, <2>4 DEF Load, Tables, HistoryIs
  <2>6. Shape(c, "decide")'
    BY <1>i, <2>1, <2>2 DEF Shape, Labels
  <2>7. TypeInv' /\ Others(r) /\ pc'[r] = "decide" /\ copy'[r] = c
    BY <2>3, <2>5, <2>6, TurnTyped
  <2> QED
    BY <2>1, <2>2, <2>4, <2>5, <2>7 DEF Effect, Starts
<1>3. ASSUME NEW f \in Receipts, LoadReceipt(r, f)
      PROVE  Effect(r, Starts(r))
  <2> DEFINE c == [Idle EXCEPT !.receipt = f]
  <2>1. pc[r] = "idle" /\ receipt[f] = "DRAFT"
    BY <1>3 DEF LoadReceipt
  <2>2. c \in Copies /\ c.receipt = f /\ c.todo = <<>>
    BY <1>i DEF Copies
  <2> HIDE DEF c
  <2>3. Turn(r, c, "receive")
    BY <1>3 DEF LoadReceipt, Goto, Turn, c
  <2>4. HistoryIs(history.current \cup {r}, history.stale, history.cut,
                  history.unbooked, history.started + 1)
    BY <1>3, <1>t, StartedHistory DEF LoadReceipt, Tables
  <2>5. UNCHANGED <<order, receipt, ledger>> /\ Tables'
    BY <1>3, <1>t, <2>4 DEF LoadReceipt, Tables, HistoryIs
  <2>6. Shape(c, "receive")'
    BY <1>i, <2>1, <2>2, <2>5 DEF Shape, Labels
  <2>7. TypeInv' /\ Others(r) /\ pc'[r] = "receive" /\ copy'[r] = c
    BY <2>3, <2>5, <2>6, TurnTyped
  <2> QED
    BY <2>1, <2>2, <2>4, <2>5, <2>7 DEF Effect, Starts
<1> QED
  BY <1>1, <1>2, <1>3

LEMMA ThenEffect ==
  ASSUME TypeInv, NEW r \in Requests, pc[r] = "decide",
         NEW result \in Orders, NEW postings, Then(r, result, postings),
         NEW q \in Nat, NEW s \in Nat, Planned(postings, q, s),
         NEW b \in BOOLEAN, history' = [history EXCEPT !.unbooked = b],
         history.unbooked => b,
         ~b => /\ result.completed = copy[r].order.completed + q
               /\ result.scrapped = copy[r].order.scrapped + s
  PROVE  Effect(r, Decides(r))
<1>t. Tables /\ copy[r] \in Copies /\ copy \in [Requests -> Copies]
  BY DEF TypeInv
<1>1. PICK c : c = [copy[r] EXCEPT !.order = result, !.todo = postings]
  OBVIOUS
<1>2. PICK label : label = IF postings = <<>> THEN "save" ELSE "post"
  OBVIOUS
<1>3. Ordered(postings) /\ postings \in Seq(Postings)
  BY DEF Planned, Ordered
<1>4. c \in Copies /\ c.order = result /\ c.todo = postings
  BY <1>t, <1>1, <1>3 DEF Copies
<1>5. Turn(r, c, label)
  BY <1>t, <1>1, <1>2 DEF Then, Goto, Turn
<1>6. HistoryIs(history.current, history.stale, history.cut, b, history.started)
  BY <1>t, FlagHistory DEF Tables
<1>7. UNCHANGED <<order, receipt, ledger>> /\ Tables'
  BY <1>t, <1>6 DEF Then, Tables, HistoryIs
<1>8. Shape(c, label)'
  BY <1>2, <1>3, <1>4, OrderFields DEF Shape, Labels
<1>9. TypeInv' /\ Others(r) /\ pc'[r] = label /\ copy'[r] = c
  BY <1>5, <1>7, <1>8, TurnTyped
<1>10. /\ copy'[r].todo = postings /\ copy'[r].order = result
       /\ pc'[r] \in {"post", "save"}
  BY <1>2, <1>4, <1>9
<1> HIDE DEF Planned
<1>11. Decides(r)
  BY <1>6, <1>7, <1>10 DEF Decides
<1> QED
  BY <1>9, <1>11 DEF Effect

\* Without postings the order keeps its quantities.
LEMMA QuietEffect ==
  ASSUME TypeInv, NEW r \in Requests, pc[r] = "decide", NEW result \in Orders,
         Quietly(r, result),
         result.completed = copy[r].order.completed,
         result.scrapped = copy[r].order.scrapped
  PROVE  Effect(r, Decides(r))
<1>1. history \in Histories /\ copy[r].order \in Orders
  BY CopyFields DEF TypeInv, Tables
<1>2. history' = [history EXCEPT !.unbooked = history.unbooked]
  BY <1>1 DEF Quietly, Histories
<1>3. history.unbooked \in BOOLEAN /\ Then(r, result, <<>>)
  BY <1>1, HistoryFields DEF Quietly
<1>4. PICK n \in Nat : n = 0
  OBVIOUS
<1>5. /\ copy[r].order.completed \in Nat /\ copy[r].order.scrapped \in Nat
      /\ Planned(<<>>, n, n)
  BY <1>1, <1>4, OrderFields, EmptyPlanned
<1>6. /\ result.completed = copy[r].order.completed + n
      /\ result.scrapped = copy[r].order.scrapped + n
  BY <1>4, <1>5
<1> QED
  BY <1>2, <1>3, <1>5, <1>6, ThenEffect

LEMMA OrderStatus ==
  ASSUME NEW o \in Orders, NEW status \in Statuses
  PROVE  /\ [o EXCEPT !.status = status] \in Orders
         /\ [o EXCEPT !.status = status].completed = o.completed
         /\ [o EXCEPT !.status = status].scrapped = o.scrapped
  BY DEF Orders

LEMMA OrderCompleted ==
  ASSUME NEW o \in Orders, NEW n \in Nat
  PROVE  /\ [o EXCEPT !.completed = n] \in Orders
         /\ [o EXCEPT !.completed = n].completed = n
         /\ [o EXCEPT !.completed = n].scrapped = o.scrapped
  BY DEF Orders

LEMMA OrderScrapped ==
  ASSUME NEW o \in Orders, NEW n \in Nat
  PROVE  /\ [o EXCEPT !.scrapped = n] \in Orders
         /\ [o EXCEPT !.scrapped = n].completed = o.completed
         /\ [o EXCEPT !.scrapped = n].scrapped = n
  BY DEF Orders

LEMMA AdvanceEffects ==
  ASSUME TypeInv, NEW r \in Requests
  PROVE  /\ Update(r) => Effect(r, Decides(r))
         /\ Release(r) => Effect(r, Decides(r))
         /\ Start(r) => Effect(r, Decides(r))
         /\ Pause(r) => Effect(r, Decides(r))
         /\ Resume(r) => Effect(r, Decides(r))
         /\ Close(r) => Effect(r, Decides(r))
         /\ Cancel(r) => Effect(r, Decides(r))
<1>1. pc[r] = "decide" => copy[r].order \in Orders
  BY CopyFields
<1>2. ASSUME Update(r)
      PROVE  Effect(r, Decides(r))
  <2>1. PICK planned \in Plans, located \in BOOLEAN :
          Quietly(r, [copy[r].order EXCEPT !.planned = planned, !.located = located])
    BY <1>2 DEF Update
  <2>2. planned \in Nat /\ pc[r] = "decide"
    BY <1>2, QuantityAssumption DEF Update, Deciding
  <2>3. PICK p \in Orders : p = copy[r].order
    BY <1>1, <2>2
  <2> DEFINE o == [copy[r].order EXCEPT !.planned = planned, !.located = located]
  <2>4. /\ [p EXCEPT !.planned = planned, !.located = located] \in Orders
        /\ [p EXCEPT !.planned = planned, !.located = located].completed = p.completed
        /\ [p EXCEPT !.planned = planned, !.located = located].scrapped = p.scrapped
    BY <2>2, <2>3 DEF Orders
  <2>5. o \in Orders /\ o.completed = copy[r].order.completed
          /\ o.scrapped = copy[r].order.scrapped
    BY <2>3, <2>4
  <2> QED
    BY <2>1, <2>2, <2>5, QuietEffect
<1>3. ASSUME NEW op, NEW from, NEW to \in Statuses, Advance(r, op, from, to)
      PROVE  Effect(r, Decides(r))
  <2>1. pc[r] = "decide" /\ Quietly(r, [copy[r].order EXCEPT !.status = to])
    BY <1>3 DEF Advance, Deciding
  <2> DEFINE o == [copy[r].order EXCEPT !.status = to]
  <2>3. o \in Orders /\ o.completed = copy[r].order.completed
          /\ o.scrapped = copy[r].order.scrapped
    BY <1>1, <2>1, OrderStatus
  <2> QED
    BY <2>1, <2>3, QuietEffect
<1>4. {"RELEASED", "IN_PROGRESS", "CLOSED", "CANCELLED"} \subseteq Statuses
  BY DEF Statuses
<1> QED
  BY <1>2, <1>3, <1>4 DEF Release, Start, Pause, Resume, Close, Cancel

LEMMA BookingHistory ==
  ASSUME history \in Histories, NEW booked \in BOOLEAN, Booking(booked)
  PROVE  \E b \in BOOLEAN :
           /\ history' = [history EXCEPT !.unbooked = b]
           /\ history.unbooked => b
           /\ ~b => booked
<1>1. PICK b \in BOOLEAN : b = (history.unbooked \/ ~booked)
  BY HistoryFields
<1>2. history' = [history EXCEPT !.unbooked = b]
  BY <1>1 DEF Booking
<1> QED
  BY <1>1, <1>2

LEMMA CountedIs ==
  ASSUME NEW o \in Orders, NEW made \in Nat, NEW scrapped \in Nat
  PROVE  /\ Added(o, made, scrapped) \in Orders
         /\ Added(o, made, scrapped).completed = o.completed + made
         /\ Added(o, made, scrapped).scrapped = o.scrapped + scrapped
         /\ Counted(o, made, scrapped) \in Orders
         /\ Counted(o, made, scrapped).completed = o.completed + made
         /\ Counted(o, made, scrapped).scrapped = o.scrapped + scrapped
<1>1. PICK n \in Nat, m \in Nat : n = o.completed + made /\ m = o.scrapped + scrapped
  <2>1. o.completed \in Nat /\ o.scrapped \in Nat
    BY OrderFields
  <2> QED
    BY <2>1
<1>2. PICK status \in Statuses :
        status = IF o.completed + made >= o.planned THEN "COMPLETED" ELSE "IN_PROGRESS"
  BY DEF Statuses
<1> DEFINE made1 == [o EXCEPT !.completed = n]
           p == [made1 EXCEPT !.scrapped = m]
<1>3. p \in Orders /\ p.completed = n /\ p.scrapped = m
  <2>1. made1 \in Orders /\ made1.completed = n
    BY OrderCompleted
  <2> HIDE DEF made1
  <2> QED
    BY <2>1, OrderScrapped
<1>4. Added(o, made, scrapped) = p
  BY <1>1 DEF Added
<1>5. Counted(o, made, scrapped) = [p EXCEPT !.status = status]
  BY <1>1, <1>2 DEF Counted
<1> HIDE DEF p
<1>6. /\ [p EXCEPT !.status = status] \in Orders
      /\ [p EXCEPT !.status = status].completed = p.completed
      /\ [p EXCEPT !.status = status].scrapped = p.scrapped
  BY <1>3, OrderStatus
<1> QED
  BY <1>1, <1>3, <1>4, <1>5, <1>6

LEMMA BookingEffects ==
  ASSUME TypeInv, NEW r \in Requests
  PROVE  /\ RecordOutput(r) => Effect(r, Decides(r))
         /\ RecordScrap(r) => Effect(r, Decides(r))
         /\ Complete(r) => Effect(r, Decides(r))
<1>t. history \in Histories /\ (pc[r] = "decide" => copy[r].order \in Orders)
  BY CopyFields DEF TypeInv, Tables
<1> DEFINE o == copy[r].order
<1>p. Planned(<<>>, 0, 0)
  BY EmptyPlanned
<1>1. ASSUME RecordOutput(r)
      PROVE  Effect(r, Decides(r))
  <2>1. PICK made \in Outputs, scrapped \in Scraps :
          Then(r, Counted(o, made, scrapped),
               IF o.located THEN Run(made) \o ScrapOf(scrapped) ELSE <<>>)
    BY <1>1 DEF RecordOutput
  <2>2. made \in Nat \ {0} /\ scrapped \in Nat
    BY QuantityAssumption
  <2>3. pc[r] = "decide" /\ Booking(o.located) /\ o \in Orders
    BY <1>1, <1>t DEF RecordOutput, Deciding
  <2>4. o.located \in BOOLEAN
    BY <2>3, OrderFields
  <2>5. PICK b \in BOOLEAN : /\ history' = [history EXCEPT !.unbooked = b]
                             /\ history.unbooked => b
                             /\ ~b => o.located
    BY <1>t, <2>3, <2>4, BookingHistory
  <2>6. PICK result \in Orders :
          /\ result = Counted(o, made, scrapped)
          /\ result.completed = o.completed + made
          /\ result.scrapped = o.scrapped + scrapped
    BY <2>2, <2>3, CountedIs
  <2>7. CASE o.located
    <3>1. Then(r, result, Run(made) \o ScrapOf(scrapped))
      BY <2>1, <2>6, <2>7
    <3>2. Planned(Run(made) \o ScrapOf(scrapped), made, scrapped)
      BY <2>2, RunPlanned
    <3> QED
      BY <2>2, <2>3, <2>5, <2>6, <3>1, <3>2, ThenEffect
  <2>8. CASE ~o.located
    <3>1. Then(r, result, <<>>) /\ b
      BY <2>1, <2>5, <2>6, <2>8
    <3> QED
      BY <1>p, <2>3, <2>5, <3>1, ThenEffect
  <2> QED
    BY <2>7, <2>8
<1>2. ASSUME RecordScrap(r)
      PROVE  Effect(r, Decides(r))
  <2>1. PICK scrapped \in Scraps \ {0} :
          Then(r, Added(o, 0, scrapped), IF o.located THEN ScrapOf(scrapped) ELSE <<>>)
    BY <1>2 DEF RecordScrap
  <2>2. scrapped \in Nat /\ 0 \in Nat
    BY QuantityAssumption
  <2>3. pc[r] = "decide" /\ Booking(o.located) /\ o \in Orders
    BY <1>2, <1>t DEF RecordScrap, Deciding
  <2>4. o.located \in BOOLEAN
    BY <2>3, OrderFields
  <2>5. PICK b \in BOOLEAN : /\ history' = [history EXCEPT !.unbooked = b]
                             /\ history.unbooked => b
                             /\ ~b => o.located
    BY <1>t, <2>3, <2>4, BookingHistory
  <2>6. PICK result \in Orders :
          /\ result = Added(o, 0, scrapped)
          /\ result.completed = o.completed + 0
          /\ result.scrapped = o.scrapped + scrapped
    BY <2>2, <2>3, CountedIs
  <2>7. CASE o.located
    <3>1. Then(r, result, ScrapOf(scrapped))
      BY <2>1, <2>6, <2>7
    <3>2. Planned(ScrapOf(scrapped), 0, scrapped)
      BY <2>2, ScrapIs
    <3> QED
      BY <2>2, <2>3, <2>5, <2>6, <3>1, <3>2, ThenEffect
  <2>8. CASE ~o.located
    <3>1. Then(r, result, <<>>) /\ b
      BY <2>1, <2>5, <2>6, <2>8
    <3> QED
      BY <1>p, <2>3, <2>5, <3>1, ThenEffect
  <2> QED
    BY <2>7, <2>8
<1>3. ASSUME Complete(r)
      PROVE  Effect(r, Decides(r))
  <2>1. PICK made \in Outputs \cup {Rest(o)} :
          /\ Then(r, [o EXCEPT !.status = "COMPLETED", !.completed = o.planned],
                  IF made > 0 /\ o.located THEN Run(made) ELSE <<>>)
          /\ Booking((o.located \/ made = 0) /\ o.completed + made = o.planned)
    BY <1>3 DEF Complete
  <2>3. pc[r] = "decide" /\ o \in Orders
    BY <1>3, <1>t DEF Complete, Deciding
  <2>4. o.located \in BOOLEAN /\ o.planned \in Nat /\ o.completed \in Nat
          /\ o.scrapped \in Nat
    BY <2>3, OrderFields
  <2>2. made \in Nat
    <3>1. Rest(o) \in Nat
      BY <2>4 DEF Rest
    <3> QED
      BY <3>1, QuantityAssumption
  <2>5. PICK b \in BOOLEAN :
          /\ history' = [history EXCEPT !.unbooked = b]
          /\ history.unbooked => b
          /\ ~b => (o.located \/ made = 0) /\ o.completed + made = o.planned
    <3>1. PICK booked \in BOOLEAN :
            booked = ((o.located \/ made = 0) /\ o.completed + made = o.planned)
      OBVIOUS
    <3>2. Booking(booked)
      BY <2>1, <3>1
    <3>3. PICK b \in BOOLEAN : /\ history' = [history EXCEPT !.unbooked = b]
                               /\ history.unbooked => b
                               /\ ~b => booked
      BY <1>t, <3>2, BookingHistory
    <3> QED
      BY <3>1, <3>3
  <2>6. PICK result \in Orders :
          /\ result = [o EXCEPT !.status = "COMPLETED", !.completed = o.planned]
          /\ result.completed = o.planned
          /\ result.scrapped = o.scrapped
    <3>1. "COMPLETED" \in Statuses
      BY DEF Statuses
    <3>2. PICK n \in Nat : n = o.planned
      BY <2>4
    <3>3. PICK p \in Orders :
            p = [o EXCEPT !.status = "COMPLETED"] /\ p.scrapped = o.scrapped
      BY <2>3, <3>1, OrderStatus
    <3>4. /\ [p EXCEPT !.completed = n] \in Orders
          /\ [p EXCEPT !.completed = n].completed = n
          /\ [p EXCEPT !.completed = n].scrapped = p.scrapped
      BY OrderCompleted
    <3>5. [p EXCEPT !.completed = n] =
            [o EXCEPT !.status = "COMPLETED", !.completed = o.planned]
      BY <3>2, <3>3
    <3> QED
      BY <3>2, <3>3, <3>4, <3>5
  <2>7. CASE made > 0 /\ o.located
    <3>1. Then(r, result, Run(made))
      BY <2>1, <2>6, <2>7
    <3>2. made \in Nat \ {0}
      BY <2>2, <2>7
    <3>3. Planned(Run(made), made, 0) /\ 0 \in Nat
      BY <3>2, RunPlanned
    <3>4. ~b => /\ result.completed = o.completed + made
                /\ result.scrapped = o.scrapped + 0
      BY <2>4, <2>5, <2>6
    <3> QED
      BY <2>2, <2>3, <2>5, <3>1, <3>3, <3>4, ThenEffect
  <2>8. CASE ~(made > 0 /\ o.located)
    <3>1. Then(r, result, <<>>)
      BY <2>1, <2>6, <2>8
    <3>2. ~b => /\ result.completed = o.completed + 0
                /\ result.scrapped = o.scrapped + 0
      BY <2>2, <2>4, <2>5, <2>6, <2>8
    <3>3. 0 \in Nat
      OBVIOUS
    <3> QED
      BY <1>p, <2>3, <2>5, <3>1, <3>2, <3>3, ThenEffect
  <2> QED
    BY <2>7, <2>8
<1> QED
  BY <1>1, <1>2, <1>3

\* The history of a write: those it overtakes are no longer current.
Overtakes(r) ==
  \E b \in BOOLEAN :
    /\ b <=> history.stale \/ r \notin history.current
    /\ HistoryIs(history.current \cap {r}, b, history.cut, history.unbooked,
                 history.started)

Removes(r) ==
  /\ pc[r] = "decide" /\ pc'[r] = "idle" /\ copy'[r].todo = <<>>
  /\ order' = NoOrder
  /\ UNCHANGED <<receipt, ledger>>
  /\ Overtakes(r)

Saves(r) ==
  /\ pc[r] = "save" /\ pc'[r] = "idle" /\ copy'[r].todo = <<>>
  /\ order' = copy[r].order
  /\ UNCHANGED <<receipt, ledger>>
  /\ Overtakes(r)

Posts(r) ==
  /\ pc[r] = "post" /\ pc'[r] \in {"post", "save"}
  /\ ledger' = Booked(Head(copy[r].todo))
  /\ copy'[r].todo = Tail(copy[r].todo) /\ copy'[r].order = copy[r].order
  /\ UNCHANGED <<order, receipt>>
  /\ \E b \in BOOLEAN :
       /\ b <=> history.stale \/ r \notin history.current
       /\ HistoryIs(history.current, b, history.cut, history.unbooked, history.started)

Receives(r) ==
  /\ pc[r] = "receive" /\ pc'[r] = "saveReceipt" /\ copy'[r] = copy[r]
  /\ ledger' = [ledger EXCEPT !.finished = @ + 1]
  /\ UNCHANGED <<order, receipt, history>>

Counts(r) ==
  /\ pc[r] = "saveReceipt" /\ pc'[r] = "loadOrder" /\ copy'[r] = copy[r]
  /\ UNCHANGED <<order, ledger>>
  /\ \E f \in Receipts, b \in BOOLEAN :
       /\ receipt' = [receipt EXCEPT ![f] = "POSTED"]
       /\ HistoryIs(history.current, b, history.cut, history.unbooked, history.started)
       /\ history.stale => b
       /\ ~b => receipt[f] # "POSTED"

Takes(r) ==
  /\ pc[r] = "loadOrder" /\ pc'[r] = "save" /\ copy'[r].todo = <<>>
  /\ order # NoOrder
  /\ copy'[r].order.completed = order.completed + 1
  /\ copy'[r].order.scrapped = order.scrapped + 1
  /\ UNCHANGED <<order, receipt, ledger>>
  /\ HistoryIs(history.current \cup {r}, history.stale, history.cut, history.unbooked,
               history.started)

\* A request that is done holds nothing.
LEMMA DoneTyped ==
  ASSUME TypeInv, Tables', NEW r \in Requests, Done(r), receipt' = receipt
  PROVE  TypeInv' /\ Others(r) /\ pc'[r] = "idle" /\ copy'[r].todo = <<>>
<1>1. Turn(r, Idle, "idle")
  BY DEF Done, Goto, Turn
<1>2. Shape(Idle, "idle")' /\ Idle.todo = <<>>
  BY IdleShape DEF Shape, Idle
<1>3. TypeInv' /\ Others(r) /\ pc'[r] = "idle" /\ copy'[r] = Idle
  BY <1>1, <1>2, TurnTyped
<1> QED
  BY <1>2, <1>3

LEMMA LeaveEffects ==
  ASSUME TypeInv, NEW r \in Requests
  PROVE  /\ Return(r) => Effect(r, Leaves(r))
         /\ Abort(r) => Effect(r, Leaves(r))
<1>t. Tables /\ history \in Histories
  BY DEF TypeInv, Tables
<1>1. ASSUME Return(r)
      PROVE  Effect(r, Leaves(r))
  <2>1. /\ pc[r] = "decide" /\ Done(r) /\ history' = history
        /\ UNCHANGED <<order, receipt, ledger>>
    BY <1>1 DEF Return, Deciding
  <2>2. PICK b \in BOOLEAN : b = history.cut
    BY <1>t, HistoryFields
  <2>3. HistoryIs(history.current, history.stale, b, history.unbooked, history.started)
    BY <1>t, <2>1, <2>2, FlagHistory
  <2>4. Tables'
    BY <1>t, <2>1 DEF Tables
  <2>5. TypeInv' /\ Others(r) /\ pc'[r] = "idle" /\ copy'[r].todo = <<>>
    BY <2>1, <2>4, DoneTyped
  <2> QED
    BY <2>1, <2>2, <2>3, <2>5 DEF Effect, Leaves
<1>2. ASSUME Abort(r)
      PROVE  Effect(r, Leaves(r))
  <2>1. /\ pc[r] # "idle" /\ Done(r)
        /\ UNCHANGED <<order, receipt, ledger>>
    BY <1>2 DEF Abort
  <2>2. PICK b \in BOOLEAN : b = (history.cut \/ pc[r] \notin {"decide", "receive"})
    BY <1>t, HistoryFields
  <2>3. history' = [history EXCEPT !.cut = b]
    BY <1>2, <2>2 DEF Abort
  <2>4. HistoryIs(history.current, history.stale, b, history.unbooked, history.started)
    BY <1>t, <2>3, FlagHistory
  <2>5. Tables'
    BY <1>t, <2>1, <2>4 DEF Tables, HistoryIs
  <2>6. TypeInv' /\ Others(r) /\ pc'[r] = "idle" /\ copy'[r].todo = <<>>
    BY <2>1, <2>5, DoneTyped
  <2> QED
    BY <2>1, <2>2, <2>4, <2>6 DEF Effect, Leaves
<1> QED
  BY <1>1, <1>2

LEMMA WriteEffects ==
  ASSUME TypeInv, NEW r \in Requests
  PROVE  /\ Delete(r) => Effect(r, Removes(r))
         /\ Save(r) => Effect(r, Saves(r))
<1>t. Tables /\ history \in Histories
  BY DEF TypeInv, Tables
<1>w. Writing(r) => Overtakes(r)
  BY <1>t, WritingHistory DEF Overtakes
<1>h. Overtakes(r) => history' \in Histories
  BY DEF Overtakes, HistoryIs
<1>1. ASSUME Delete(r)
      PROVE  Effect(r, Removes(r))
  <2>1. /\ pc[r] = "decide" /\ Done(r) /\ Writing(r)
        /\ order' = NoOrder /\ UNCHANGED <<receipt, ledger>>
    BY <1>1 DEF Delete, Deciding
  <2>2. Tables'
    BY <1>t, <1>w, <1>h, <2>1 DEF Tables
  <2>3. TypeInv' /\ Others(r) /\ pc'[r] = "idle" /\ copy'[r].todo = <<>>
    BY <2>1, <2>2, DoneTyped
  <2> QED
    BY <1>w, <2>1, <2>3 DEF Effect, Removes
<1>2. ASSUME Save(r)
      PROVE  Effect(r, Saves(r))
  <2>1. /\ pc[r] = "save" /\ Done(r) /\ Writing(r)
        /\ order' = copy[r].order /\ UNCHANGED <<receipt, ledger>>
    BY <1>2 DEF Save
  <2>2. Tables'
    BY <1>t, <1>w, <1>h, <2>1, CopyFields DEF Tables
  <2>3. TypeInv' /\ Others(r) /\ pc'[r] = "idle" /\ copy'[r].todo = <<>>
    BY <2>1, <2>2, DoneTyped
  <2> QED
    BY <1>w, <2>1, <2>3 DEF Effect, Saves
<1> QED
  BY <1>1, <1>2

LEMMA BookedIs ==
  ASSUME ledger \in Ledger, NEW p \in Postings
  PROVE  /\ Booked(p) \in Ledger
         /\ Booked(p).finished = ledger.finished
         /\ Booked(p).made = ledger.made + (IF p.what = "made" THEN p.quantity ELSE 0)
         /\ Booked(p).scrapped =
              ledger.scrapped + (IF p.what = "scrapped" THEN p.quantity ELSE 0)
         /\ \A m \in Materials : Booked(p).issued[m] =
              ledger.issued[m] + (IF p.what = m THEN p.quantity ELSE 0)
<1>1. /\ ledger.issued \in [Materials -> Nat]
      /\ ledger.made \in Nat /\ ledger.finished \in Nat /\ ledger.scrapped \in Nat
      /\ \A m \in Materials : ledger.issued[m] \in Nat
  BY LedgerFields
<1>2. /\ p.what \in Materials \cup {"made", "scrapped"} /\ p.quantity \in Nat
      /\ "made" \notin Materials /\ "scrapped" \notin Materials
  BY PostingFields, BillAssumption
<1>3. CASE p.what \in Materials
  <2>1. PICK n \in Nat : n = ledger.issued[p.what] + p.quantity
    BY <1>1, <1>2, <1>3
  <2>2. PICK issued \in [Materials -> Nat] :
          issued = [ledger.issued EXCEPT ![p.what] = n]
    BY <1>1, <1>3, <2>1
  <2>3. Booked(p) = [ledger EXCEPT !.issued = issued]
    BY <1>3, <2>1, <2>2 DEF Booked, Ledger
  <2>4. /\ Booked(p) \in Ledger /\ Booked(p).issued = issued
        /\ Booked(p).made = ledger.made /\ Booked(p).finished = ledger.finished
        /\ Booked(p).scrapped = ledger.scrapped
    BY <2>2, <2>3 DEF Ledger
  <2>5. \A m \in Materials : issued[m] =
          ledger.issued[m] + (IF p.what = m THEN p.quantity ELSE 0)
    BY <1>1, <1>2, <1>3, <2>1, <2>2
  <2>6. p.what # "made" /\ p.what # "scrapped"
    BY <1>2, <1>3
  <2>7. /\ ledger.made + 0 = ledger.made /\ ledger.scrapped + 0 = ledger.scrapped
    BY <1>1
  <2> QED
    BY <2>4, <2>5, <2>6, <2>7
<1>4. CASE p.what = "made"
  <2>1. PICK n \in Nat : n = ledger.made + p.quantity
    BY <1>1, <1>2
  <2>2. Booked(p) = [ledger EXCEPT !.made = n]
    BY <1>2, <1>4, <2>1 DEF Booked
  <2>3. /\ Booked(p) \in Ledger /\ Booked(p).issued = ledger.issued
        /\ Booked(p).made = n /\ Booked(p).finished = ledger.finished
        /\ Booked(p).scrapped = ledger.scrapped
    BY <2>2 DEF Ledger
  <2>4. \A m \in Materials : p.what # m /\ ledger.issued[m] + 0 = ledger.issued[m]
    BY <1>1, <1>2, <1>4
  <2>5. ledger.scrapped + 0 = ledger.scrapped
    BY <1>1
  <2> QED
    BY <1>4, <2>1, <2>3, <2>4, <2>5
<1>5. CASE p.what = "scrapped"
  <2>1. PICK n \in Nat : n = ledger.scrapped + p.quantity
    BY <1>1, <1>2
  <2>2. Booked(p) = [ledger EXCEPT !.scrapped = n]
    BY <1>2, <1>5, <2>1 DEF Booked
  <2>3. /\ Booked(p) \in Ledger /\ Booked(p).issued = ledger.issued
        /\ Booked(p).made = ledger.made /\ Booked(p).finished = ledger.finished
        /\ Booked(p).scrapped = n
    BY <2>2 DEF Ledger
  <2>4. \A m \in Materials : p.what # m /\ ledger.issued[m] + 0 = ledger.issued[m]
    BY <1>1, <1>2, <1>5
  <2>5. ledger.made + 0 = ledger.made
    BY <1>1
  <2> QED
    BY <1>5, <2>1, <2>3, <2>4, <2>5
<1> QED
  BY <1>2, <1>3, <1>4, <1>5

LEMMA PostEffect ==
  ASSUME TypeInv, NEW r \in Requests, Post(r)
  PROVE  Effect(r, Posts(r))
<1>t. /\ Tables /\ history \in Histories /\ ledger \in Ledger
      /\ copy \in [Requests -> Copies]
  BY DEF TypeInv, Tables
<1>1. /\ pc[r] = "post" /\ ledger' = Booked(Head(copy[r].todo))
      /\ UNCHANGED <<order, receipt>>
  BY DEF Post
<1>2. /\ copy[r] \in Copies /\ Ordered(copy[r].todo) /\ copy[r].todo # <<>>
      /\ copy[r].order \in Orders
  BY <1>1, CopyFields DEF Shape
<1>3. PICK rest : rest = Tail(copy[r].todo)
  OBVIOUS
<1>4. Ordered(rest) /\ rest \in Seq(Postings) /\ Head(copy[r].todo) \in Postings
  <2>1. Ordered(rest) /\ Head(copy[r].todo) \in Postings
    BY <1>2, <1>3, TailPending
  <2> QED
    BY <2>1 DEF Ordered
<1>5. PICK c : c = [copy[r] EXCEPT !.todo = rest]
  OBVIOUS
<1>6. PICK label : label = IF rest = <<>> THEN "save" ELSE "post"
  OBVIOUS
<1>7. c \in Copies /\ c.todo = rest /\ c.order = copy[r].order
  BY <1>2, <1>4, <1>5 DEF Copies
<1>8. Turn(r, c, label)
  BY <1>t, <1>3, <1>5, <1>6 DEF Post, Goto, Turn
<1>9. PICK b \in BOOLEAN : b = (history.stale \/ r \notin history.current)
  BY <1>t, HistoryFields
<1>10. history' = [history EXCEPT !.stale = b]
  BY <1>9 DEF Post
<1>11. HistoryIs(history.current, b, history.cut, history.unbooked, history.started)
  BY <1>t, <1>10, FlagHistory
<1>12. Tables'
  BY <1>t, <1>1, <1>4, <1>11, BookedIs DEF Tables, HistoryIs
<1>13. Shape(c, label)'
  BY <1>2, <1>4, <1>6, <1>7, OrderFields DEF Shape, Labels
<1>14. TypeInv' /\ Others(r) /\ pc'[r] = label /\ copy'[r] = c
  BY <1>1, <1>8, <1>12, <1>13, TurnTyped
<1>15. label \in {"post", "save"}
  BY <1>6
<1> QED
  BY <1>1, <1>3, <1>7, <1>9, <1>11, <1>14, <1>15 DEF Effect, Posts

LEMMA ReceiptEffects ==
  ASSUME TypeInv, NEW r \in Requests
  PROVE  /\ Receive(r) => Effect(r, Receives(r))
         /\ SaveReceipt(r) => Effect(r, Counts(r))
         /\ LoadOrder(r) => Effect(r, Takes(r))
<1>t. /\ Tables /\ history \in Histories /\ ledger \in Ledger
      /\ copy \in [Requests -> Copies] /\ copy[r] \in Copies /\ Shape(copy[r], pc[r])
      /\ receipt \in [Receipts -> {"none", "DRAFT", "POSTED"}]
  BY CopyFields DEF TypeInv, Tables
<1>c. PICK c : c = copy[r]
  OBVIOUS
<1>k. copy' = copy => \A label : pc' = [pc EXCEPT ![r] = label] => Turn(r, c, label)
  BY <1>t, <1>c DEF Turn
<1>1. ASSUME Receive(r)
      PROVE  Effect(r, Receives(r))
  <2>1. /\ pc[r] = "receive" /\ UNCHANGED <<order, receipt, copy, history>>
        /\ ledger' = [ledger EXCEPT !.finished = @ + 1]
    BY <1>1 DEF Receive
  <2>2. PICK n \in Nat : n = ledger.finished + 1
    BY <1>t, LedgerFields
  <2>3. [ledger EXCEPT !.finished = n] \in Ledger
    BY <1>t DEF Ledger
  <2>4. Tables'
    BY <1>t, <2>1, <2>2, <2>3 DEF Tables
  <2>5. Turn(r, c, "saveReceipt")
    BY <1>1, <1>k, <2>1 DEF Receive, Goto
  <2>6. Shape(c, "saveReceipt")'
    BY <1>t, <1>c, <2>1 DEF Shape, Labels
  <2>7. TypeInv' /\ Others(r) /\ pc'[r] = "saveReceipt" /\ copy'[r] = c
    BY <2>1, <2>4, <2>5, <2>6, TurnTyped
  <2> QED
    BY <1>c, <2>1, <2>7 DEF Effect, Receives
<1>2. ASSUME SaveReceipt(r)
      PROVE  Effect(r, Counts(r))
  <2>1. /\ pc[r] = "saveReceipt" /\ UNCHANGED <<order, ledger, copy>>
        /\ receipt' = [receipt EXCEPT ![c.receipt] = "POSTED"]
    BY <1>2, <1>c DEF SaveReceipt
  <2>2. PICK f \in Receipts : f = c.receipt
    BY <1>t, <1>c, <2>1 DEF Shape
  <2>3. PICK b \in BOOLEAN : b = (history.stale \/ receipt[f] = "POSTED")
    BY <1>t, HistoryFields
  <2>4. history' = [history EXCEPT !.stale = b]
    BY <1>2, <1>c, <2>2, <2>3 DEF SaveReceipt
  <2>5. HistoryIs(history.current, b, history.cut, history.unbooked, history.started)
    BY <1>t, <2>4, FlagHistory
  <2>6. /\ receipt' \in [Receipts -> {"none", "DRAFT", "POSTED"}]
        /\ receipt'[f] = "POSTED"
        /\ \A g \in Receipts : receipt[g] # "none" => receipt'[g] # "none"
    BY <1>t, <2>1, <2>2
  <2>7. Tables'
    BY <1>t, <2>1, <2>5, <2>6 DEF Tables, HistoryIs
  <2>8. Turn(r, c, "loadOrder")
    BY <1>2, <1>k, <2>1 DEF SaveReceipt, Goto
  <2>9. Shape(c, "loadOrder")'
    BY <1>t, <1>c, <2>1, <2>2, <2>6 DEF Shape, Labels
  <2>10. TypeInv' /\ Others(r) /\ pc'[r] = "loadOrder" /\ copy'[r] = c
    BY <2>6, <2>7, <2>8, <2>9, TurnTyped
  <2> QED
    BY <1>c, <2>1, <2>2, <2>3, <2>5, <2>10 DEF Effect, Counts
<1>3. ASSUME LoadOrder(r)
      PROVE  Effect(r, Takes(r))
  <2>1. /\ pc[r] = "loadOrder" /\ order # NoOrder /\ order \in Orders
        /\ UNCHANGED <<order, receipt, ledger>>
    BY <1>3, <1>t DEF LoadOrder, Tables
  <2>2. 1 \in Nat
    OBVIOUS
  <2>3. PICK o \in Orders : /\ o = Added(order, 1, 1)
                            /\ o.completed = order.completed + 1
                            /\ o.scrapped = order.scrapped + 1
    BY <2>1, <2>2, CountedIs
  <2>4. PICK d : d = [copy[r] EXCEPT !.order = o]
    OBVIOUS
  <2>5. d \in Copies /\ d.order = o /\ d.todo = copy[r].todo
    BY <1>t, <2>4 DEF Copies
  <2>6. d.todo = <<>> /\ Ordered(d.todo)
    BY <1>t, <2>1, <2>5 DEF Shape
  <2>7. Turn(r, d, "save")
    BY <1>3, <1>t, <2>3, <2>4 DEF LoadOrder, Goto, Turn
  <2>8. PICK cur \in SUBSET Requests : cur = history.current \cup {r}
    BY <1>t, HistoryFields
  <2>9. history' = [history EXCEPT !.current = cur]
    BY <1>3, <2>8 DEF LoadOrder
  <2>10. HistoryIs(history.current \cup {r}, history.stale, history.cut,
                   history.unbooked, history.started)
    <3>1. history' \in Histories
      BY <1>t, <2>9, HistoryUpdates
    <3> QED
      BY <1>t, <2>8, <2>9, <3>1 DEF HistoryIs, Histories
  <2>11. Tables'
    BY <1>t, <2>1, <2>10 DEF Tables, HistoryIs
  <2>12. Shape(d, "save")'
    BY <2>3, <2>5, <2>6, OrderFields DEF Shape, Labels
  <2>13. TypeInv' /\ Others(r) /\ pc'[r] = "save" /\ copy'[r] = d
    BY <2>1, <2>7, <2>11, <2>12, TurnTyped
  <2> QED
    BY <2>1, <2>3, <2>5, <2>6, <2>10, <2>13 DEF Effect, Takes
<1> QED
  BY <1>1, <1>2, <1>3

\* A receipt is entered: nothing is posted for it yet.
Enters(f) ==
  /\ receipt[f] = "none" /\ order # NoOrder
  /\ receipt' = [receipt EXCEPT ![f] = "DRAFT"]
  /\ UNCHANGED <<order, ledger, pc, copy, history>>

LEMMA EnterEffect ==
  ASSUME TypeInv, NEW f \in Receipts, EnterReceipt(f)
  PROVE  TypeInv' /\ Enters(f)
<1>1. Enters(f)
  BY DEF EnterReceipt, Enters
<1>2. /\ receipt' \in [Receipts -> {"none", "DRAFT", "POSTED"}]
      /\ \A g \in Receipts : receipt[g] # "none" => receipt'[g] # "none"
  BY <1>1 DEF TypeInv, Tables, Enters
<1>3. Tables'
  BY <1>1, <1>2 DEF TypeInv, Tables, Enters
<1>4. ASSUME NEW r \in Requests
      PROVE  Shape(copy[r], pc[r])'
  <2>1. Shape(copy[r], pc[r])
    BY DEF TypeInv
  <2> QED
    BY <1>1, <1>2, <2>1 DEF Shape, Enters
<1>5. /\ pc' \in [Requests -> Labels] /\ copy' \in [Requests -> Copies]
  BY <1>1 DEF TypeInv, Enters
<1> QED
  BY <1>1, <1>3, <1>4, <1>5 DEF TypeInv

\* All that the steps of a request do.
Happens(r) ==
  \/ Starts(r) \/ Decides(r) \/ Leaves(r) \/ Removes(r) \/ Saves(r) \/ Posts(r)
  \/ Receives(r) \/ Counts(r) \/ Takes(r)

LEMMA StepEffects ==
  ASSUME TypeInv, NEW r \in Requests, Step(r)
  PROVE  Effect(r, Happens(r))
<1>1. CASE Create(r) \/ (\E op \in Operations : Load(r, op))
           \/ (\E f \in Receipts : LoadReceipt(r, f))
  BY <1>1, StartEffects DEF Effect, Happens
<1>2. CASE \/ Update(r) \/ Release(r) \/ Start(r) \/ Pause(r) \/ Resume(r)
           \/ Close(r) \/ Cancel(r)
  BY <1>2, AdvanceEffects DEF Effect, Happens
<1>3. CASE RecordOutput(r) \/ RecordScrap(r) \/ Complete(r)
  BY <1>3, BookingEffects DEF Effect, Happens
<1>4. CASE Delete(r) \/ Save(r)
  BY <1>4, WriteEffects DEF Effect, Happens
<1>5. CASE Return(r) \/ Abort(r)
  BY <1>5, LeaveEffects DEF Effect, Happens
<1>6. CASE Post(r)
  BY <1>6, PostEffect DEF Effect, Happens
<1>7. CASE Receive(r) \/ SaveReceipt(r) \/ LoadOrder(r)
  BY <1>7, ReceiptEffects DEF Effect, Happens
<1> QED
  BY <1>1, <1>2, <1>3, <1>4, <1>5, <1>6, <1>7 DEF Step

LEMMA TypeKept == TypeInv /\ [Next]_vars => TypeInv'
<1> SUFFICES ASSUME TypeInv, [Next]_vars PROVE TypeInv'
  OBVIOUS
<1>1. CASE \E r \in Requests : Step(r)
  BY <1>1, StepEffects DEF Effect
<1>2. CASE \E f \in Receipts : EnterReceipt(f)
  BY <1>2, EnterEffect
<1>3. CASE UNCHANGED vars
  BY <1>3 DEF vars, TypeInv, Tables, Shape
<1> QED
  BY <1>1, <1>2, <1>3 DEF Next

\* Every row, every copy and every posting keeps its type, and a request that
\* posts has something left to post.
THEOREM TypeCorrect == Spec => []TypeOK
<1>1. Init => TypeInv
  BY TypeInit
<1>2. TypeInv /\ [Next]_vars => TypeInv'
  BY TypeKept
<1>3. TypeInv => TypeOK
  BY TypeInvIsTypeOK
<1> QED
  BY <1>1, <1>2, <1>3, PTL DEF Spec

-----------------------------------------------------------------------------
(* Materials and goods. *)

\* Units of m that have been issued for goods which todo has still to receive.
Lead(todo, m) == Pending(todo, "made") - Pending(todo, m)

Ahead(m) == [r \in Requests |-> Lead(copy[r].todo, m)]

\* The materials are ahead of the goods by what the requests have still to
\* receive, and by the runs that were cut short.
MatchInv ==
  \A m \in Materials :
    /\ IsFiniteSet(Units(Ahead(m)))
    /\ ledger.issued[m] >= ledger.made + Total(Ahead(m))
    /\ ~history.cut => ledger.issued[m] = ledger.made + Total(Ahead(m))

LEMMA LeadIs ==
  ASSUME NEW todo, Ordered(todo), NEW m \in Materials
  PROVE  Lead(todo, m) \in Nat
  BY PendingTyped, PendingMaterial DEF Lead

LEMMA LeadPlanned ==
  ASSUME NEW todo, NEW q \in Nat, NEW s \in Nat, Planned(todo, q, s), NEW m \in Materials
  PROVE  Lead(todo, m) = 0
  BY DEF Lead, Planned

LEMMA LeadEmpty ==
  ASSUME NEW m \in Materials
  PROVE  Lead(<<>>, m) = 0
<1>1. PICK n \in Nat : n = 0
  OBVIOUS
<1>2. Planned(<<>>, n, n)
  BY <1>1, EmptyPlanned
<1> QED
  BY <1>2, LeadPlanned

LEMMA AheadTyped ==
  ASSUME TypeInv, NEW m \in Materials
  PROVE  Ahead(m) \in [Requests -> Nat]
<1>1. \A r \in Requests : Lead(copy[r].todo, m) \in Nat
  BY CopyFields, LeadIs
<1> QED
  BY <1>1 DEF Ahead

LEMMA AheadTypedNext ==
  ASSUME TypeInv', NEW m \in Materials
  PROVE  Ahead(m)' \in [Requests -> Nat]
<1>1. ASSUME NEW r \in Requests
      PROVE  Lead(copy'[r].todo, m) \in Nat
  <2>1. Ordered(copy'[r].todo)
    BY DEF TypeInv, Shape
  <2> QED
    BY <2>1, LeadIs
<1> QED
  BY <1>1 DEF Ahead

\* A step of r changes the sum by what r is ahead.
LEMMA AheadChange ==
  ASSUME TypeInv, TypeInv', NEW r \in Requests, Others(r), NEW m \in Materials,
         IsFiniteSet(Units(Ahead(m)))
  PROVE  /\ IsFiniteSet(Units(Ahead(m)')) /\ Total(Ahead(m)) \in Nat
         /\ Lead(copy[r].todo, m) \in Nat /\ Lead(copy'[r].todo, m) \in Nat
         /\ Total(Ahead(m)') =
              Total(Ahead(m)) - Lead(copy[r].todo, m) + Lead(copy'[r].todo, m)
<1>1. PICK f \in [Requests -> Nat] : f = Ahead(m)
  BY AheadTyped
<1>2. PICK g \in [Requests -> Nat] : g = Ahead(m)'
  BY AheadTypedNext
<1>3. f[r] = Lead(copy[r].todo, m) /\ g[r] = Lead(copy'[r].todo, m)
  BY <1>1, <1>2 DEF Ahead
<1>4. \A s \in Requests \ {r} : g[s] = f[s]
  BY <1>1, <1>2 DEF Ahead, Others
<1>5. IsFiniteSet(Units(f))
  BY <1>1
<1>6. /\ IsFiniteSet(Units(g)) /\ Total(f) \in Nat
      /\ Total(g) = Total(f) - f[r] + g[r]
  BY <1>4, <1>5, TotalChange
<1>7. f[r] \in Nat /\ g[r] \in Nat
  OBVIOUS
<1> QED
  BY <1>1, <1>2, <1>3, <1>6, <1>7

\* A step keeps the match if the ledger moves with what r is ahead, or if r
\* forgets what it was ahead and is counted as cut short.
LEMMA MatchMoves ==
  ASSUME TypeInv, TypeInv', MatchInv, NEW r \in Requests, Others(r),
         history.cut => history'.cut,
         \A m \in Materials :
           \/ ledger'.issued[m] + ledger.made + Lead(copy[r].todo, m) =
                ledger.issued[m] + ledger'.made + Lead(copy'[r].todo, m)
           \/ /\ history'.cut
              /\ ledger'.issued[m] = ledger.issued[m] /\ ledger'.made = ledger.made
              /\ Lead(copy'[r].todo, m) = 0
  PROVE  MatchInv'
<1>1. ASSUME NEW m \in Materials
      PROVE  /\ IsFiniteSet(Units(Ahead(m)'))
             /\ ledger'.issued[m] >= ledger'.made + Total(Ahead(m)')
             /\ ~history'.cut => ledger'.issued[m] = ledger'.made + Total(Ahead(m)')
  <2>1. PICK t \in Nat, a \in Nat, b \in Nat :
          /\ t = Total(Ahead(m)) /\ a = Lead(copy[r].todo, m)
          /\ b = Lead(copy'[r].todo, m)
          /\ Total(Ahead(m)') = t - a + b
          /\ IsFiniteSet(Units(Ahead(m)'))
    BY AheadChange DEF MatchInv
  <2>2. PICK i \in Nat, g \in Nat : i = ledger.issued[m] /\ g = ledger.made
    BY LedgerFields DEF TypeInv, Tables
  <2>3. PICK j \in Nat, h \in Nat : j = ledger'.issued[m] /\ h = ledger'.made
    BY DEF TypeInv, Tables, Ledger
  <2>4. i >= g + t /\ (~history.cut => i = g + t)
    BY <2>1, <2>2 DEF MatchInv
  <2>5. \/ j + g + a = i + h + b
        \/ history'.cut /\ j = i /\ h = g /\ b = 0
    BY <2>1, <2>2, <2>3
  <2>6. j >= h + (t - a + b) /\ (~history'.cut => j = h + (t - a + b))
    BY <2>4, <2>5
  <2> QED
    BY <2>1, <2>3, <2>6
<1> QED
  BY <1>1 DEF MatchInv

\* Before and after such a step the request owes nothing.
LEMMA MatchIdle ==
  ASSUME TypeInv, TypeInv', MatchInv, NEW r \in Requests, Others(r),
         history.cut => history'.cut, pc[r] # "post",
         \A m \in Materials : Lead(copy'[r].todo, m) = 0,
         ledger'.issued = ledger.issued, ledger'.made = ledger.made
  PROVE  MatchInv'
<1>1. ASSUME NEW m \in Materials
      PROVE  ledger'.issued[m] + ledger.made + Lead(copy[r].todo, m) =
               ledger.issued[m] + ledger'.made + Lead(copy'[r].todo, m)
  <2>1. copy[r].todo = <<>>
    BY CopyFields
  <2>2. Lead(copy[r].todo, m) = 0
    BY <2>1, LeadEmpty
  <2> QED
    BY <2>2
<1> QED
  BY <1>1, MatchMoves

LEMMA MatchPosts ==
  ASSUME TypeInv, TypeInv', MatchInv, NEW r \in Requests, Others(r), Posts(r)
  PROVE  MatchInv'
<1>1. PICK todo : todo = copy[r].todo
  OBVIOUS
<1>2. Ordered(todo) /\ todo # <<>>
  BY <1>1, CopyFields DEF Shape, Posts
<1>3. PICK p \in Postings : p = Head(todo)
  BY <1>2, TailPending
<1>4. /\ Pending(todo, p.what) = p.quantity
      /\ \A what : Pending(Tail(todo), what) =
           IF what = p.what THEN 0 ELSE Pending(todo, what)
      /\ p.what \in Materials => Pending(todo, "made") = p.quantity
      /\ p.what = "made" => \A m \in Materials : Pending(todo, m) = 0
  BY <1>2, <1>3, TailPending
<1>5. /\ ledger' = Booked(p) /\ copy'[r].todo = Tail(todo)
      /\ history'.cut = history.cut /\ ledger \in Ledger
  BY <1>1, <1>3 DEF Posts, HistoryIs, TypeInv, Tables
<1>6. /\ p.quantity \in Nat /\ "made" \notin Materials
      /\ ledger.made \in Nat /\ \A m \in Materials : ledger.issued[m] \in Nat
  BY <1>5, PostingFields, LedgerFields, BillAssumption
<1>7. ASSUME NEW m \in Materials
      PROVE  ledger'.issued[m] + ledger.made + Lead(todo, m) =
               ledger.issued[m] + ledger'.made + Lead(Tail(todo), m)
  <2>1. /\ ledger'.made = ledger.made + (IF p.what = "made" THEN p.quantity ELSE 0)
        /\ ledger'.issued[m] =
             ledger.issued[m] + (IF p.what = m THEN p.quantity ELSE 0)
    BY <1>5, BookedIs
  <2>2. PICK x \in Nat, y \in Nat : x = Pending(todo, "made") /\ y = Pending(todo, m)
    BY <1>2, PendingTyped
  <2>3. /\ Lead(todo, m) = x - y
        /\ Lead(Tail(todo), m) = (IF p.what = "made" THEN 0 ELSE x)
                                 - (IF p.what = m THEN 0 ELSE y)
    BY <1>4, <2>2 DEF Lead
  <2>4. CASE p.what = m
    <3>1. p.what # "made" /\ x = p.quantity /\ y = p.quantity
      BY <1>4, <1>6, <2>2, <2>4
    <3>2. /\ ledger'.made = ledger.made + 0
          /\ ledger'.issued[m] = ledger.issued[m] + p.quantity
      BY <2>1, <2>4, <3>1, Zenon
    <3>3. /\ Lead(todo, m) = x - y
          /\ Lead(Tail(todo), m) = x - 0
      BY <2>3, <2>4, <3>1, Zenon
    <3>4. PICK i \in Nat, g \in Nat, q \in Nat :
            i = ledger.issued[m] /\ g = ledger.made /\ q = p.quantity
      BY <1>6
    <3>5. /\ ledger'.made = g + 0 /\ ledger'.issued[m] = i + q
          /\ Lead(todo, m) = q - q /\ Lead(Tail(todo), m) = q - 0
      BY <3>1, <3>2, <3>3, <3>4
    <3>6. (i + q) + g + (q - q) = i + (g + 0) + (q - 0)
      OBVIOUS
    <3> QED
      BY <3>4, <3>5, <3>6, Zenon
  <2>5. CASE p.what = "made"
    <3>1. p.what # m /\ x = p.quantity /\ y = 0
      BY <1>4, <1>6, <2>2, <2>5
    <3> QED
      BY <1>6, <2>1, <2>3, <2>5, <3>1
  <2>6. CASE p.what # m /\ p.what # "made"
    BY <1>6, <2>1, <2>2, <2>3, <2>6
  <2> QED
    BY <2>4, <2>5, <2>6
<1> QED
  BY <1>1, <1>5, <1>7, MatchMoves

LEMMA MatchLeaves ==
  ASSUME TypeInv, TypeInv', MatchInv, NEW r \in Requests, Others(r), Leaves(r)
  PROVE  MatchInv'
<1>1. copy'[r].todo = <<>> /\ ledger' = ledger
  BY DEF Leaves
<1>2. \A m \in Materials : Lead(copy'[r].todo, m) = 0
  BY <1>1, LeadEmpty
<1>3. /\ history.cut => history'.cut
      /\ pc[r] = "post" => history'.cut
  BY DEF Leaves, HistoryIs
<1>4. CASE pc[r] = "post"
  BY <1>1, <1>2, <1>3, <1>4, MatchMoves
<1>5. CASE pc[r] # "post"
  BY <1>1, <1>2, <1>3, <1>5, MatchIdle
<1> QED
  BY <1>4, <1>5

LEMMA MatchKept == TypeInv /\ MatchInv /\ [Next]_vars => MatchInv'
<1> SUFFICES ASSUME TypeInv, MatchInv, [Next]_vars PROVE MatchInv'
  OBVIOUS
<1>1. TypeInv'
  BY TypeKept
<1>2. ASSUME NEW r \in Requests, Step(r)
      PROVE  MatchInv'
  <2>1. Others(r) /\ Happens(r)
    BY <1>2, StepEffects DEF Effect
  <2>2. CASE Posts(r)
    BY <1>1, <2>1, <2>2, MatchPosts
  <2>3. CASE Leaves(r)
    BY <1>1, <2>1, <2>3, MatchLeaves
  <2>4. CASE Decides(r)
    <3>1. PICK q \in Nat, s \in Nat : Planned(copy'[r].todo, q, s)
      BY <2>4 DEF Decides
    <3>2. /\ ledger' = ledger /\ pc[r] # "post" /\ history'.cut = history.cut
      BY <2>4 DEF Decides, HistoryIs
    <3>3. \A m \in Materials : Lead(copy'[r].todo, m) = 0
      BY <3>1, LeadPlanned
    <3> QED
      BY <1>1, <2>1, <3>2, <3>3, MatchIdle
  <2>5. CASE Starts(r) \/ Removes(r) \/ Saves(r) \/ Takes(r)
    <3>1. /\ ledger' = ledger /\ pc[r] # "post" /\ history'.cut = history.cut
          /\ copy'[r].todo = <<>>
      BY <2>5 DEF Starts, Removes, Saves, Takes, Overtakes, HistoryIs
    <3>2. \A m \in Materials : Lead(copy'[r].todo, m) = 0
      BY <3>1, LeadEmpty
    <3> QED
      BY <1>1, <2>1, <3>1, <3>2, MatchIdle
  <2>6. CASE Receives(r) \/ Counts(r)
    <3>1. /\ pc[r] # "post" /\ history'.cut = history.cut /\ copy'[r] = copy[r]
          /\ ledger'.issued = ledger.issued /\ ledger'.made = ledger.made
      BY <2>6 DEF Receives, Counts, HistoryIs, TypeInv, Tables, Ledger
    <3>2. copy[r].todo = <<>>
      BY <3>1, CopyFields
    <3>3. \A m \in Materials : Lead(copy'[r].todo, m) = 0
      BY <3>1, <3>2, LeadEmpty
    <3> QED
      BY <1>1, <2>1, <3>1, <3>3, MatchIdle
  <2> QED
    BY <2>1, <2>2, <2>3, <2>4, <2>5, <2>6 DEF Happens
<1>3. CASE UNCHANGED <<ledger, copy, history>>
  BY <1>3 DEF MatchInv, Ahead
<1>4. ASSUME NEW f \in Receipts, EnterReceipt(f)
      PROVE  UNCHANGED <<ledger, copy, history>>
  BY <1>4 DEF EnterReceipt
<1> QED
  BY <1>2, <1>3, <1>4 DEF Next, vars

LEMMA MatchInit == Init => MatchInv
<1> SUFFICES ASSUME Init, NEW m \in Materials
             PROVE  /\ IsFiniteSet(Units(Ahead(m)))
                    /\ ledger.issued[m] >= ledger.made + Total(Ahead(m))
                    /\ ~history.cut => ledger.issued[m] = ledger.made + Total(Ahead(m))
  BY DEF MatchInv
<1>1. \A r \in Requests : copy[r].todo = <<>>
  BY DEF Init, Idle
<1>2. \A r \in Requests : Ahead(m)[r] = 0
  BY <1>1, LeadEmpty DEF Ahead
<1>3. IsFiniteSet(Units(Ahead(m))) /\ Total(Ahead(m)) = 0
  BY <1>2, TotalZero
<1>4. ledger.issued[m] = 0 /\ ledger.made = 0
  BY DEF Init
<1> QED
  BY <1>3, <1>4

\* The ledger never holds goods of a run whose materials it does not hold as
\* issued, and at rest, if no request was cut short, no materials without goods:
\* for every bill, any number of requests and of what they post between each
\* other's statements.
THEOREM MaterialsAreMatched == Spec => []MaterialsMatchGoods
<1>1. Init => TypeInv /\ MatchInv
  BY TypeInit, MatchInit
<1>2. (TypeInv /\ MatchInv) /\ [Next]_vars => (TypeInv /\ MatchInv)'
  BY TypeKept, MatchKept
<1>3. TypeInv /\ MatchInv => MaterialsMatchGoods
  <2> SUFFICES ASSUME TypeInv, MatchInv, NEW m \in Materials
               PROVE  /\ ledger.issued[m] >= ledger.made
                      /\ ~history.cut /\ Quiet => ledger.issued[m] = ledger.made
    BY DEF MaterialsMatchGoods
  <2>1. PICK f \in [Requests -> Nat] : f = Ahead(m)
    BY AheadTyped
  <2>2. /\ IsFiniteSet(Units(f))
        /\ ledger.issued[m] >= ledger.made + Total(f)
        /\ ~history.cut => ledger.issued[m] = ledger.made + Total(f)
    BY <2>1 DEF MatchInv
  <2>3. Total(f) \in Nat
    BY <2>2, FS_CardinalityType DEF Total
  <2>4. ledger.made \in Nat /\ ledger.issued[m] \in Nat
    BY LedgerFields DEF TypeInv, Tables
  <2>5. ASSUME Quiet
        PROVE  Total(f) = 0
    <3>1. \A r \in Requests : copy[r].todo = <<>>
      BY <2>5, CopyFields DEF Quiet
    <3>2. \A r \in Requests : f[r] = 0
      BY <2>1, <3>1, LeadEmpty DEF Ahead
    <3> QED
      BY <3>2, TotalZero
  <2> QED
    BY <2>2, <2>3, <2>4, <2>5
<1> QED
  BY <1>1, <1>2, <1>3, PTL DEF Spec

-----------------------------------------------------------------------------
(* Counting requests and receipts. *)

\* The requests at one of these statements.
Busy(labels) == {r \in Requests : pc[r] \in labels}

\* Their receipt is in the ledger and not in the order yet.
Unsaved == Busy({"saveReceipt", "loadOrder"})

\* Their receipt is POSTED and not in the order yet.
Uncounted == Busy({"loadOrder"})

\* They hold an order that they are going to save.
Writers == Busy({"post", "save"})

Posted == {f \in Receipts : receipt[f] = "POSTED"}

FiniteInv == IsFiniteSet(Unsaved) /\ IsFiniteSet(Uncounted) /\ IsFiniteSet(Posted)

SameCounts == Unsaved' = Unsaved /\ Uncounted' = Uncounted /\ Posted' = Posted

LEMMA BusyMoves ==
  ASSUME NEW r \in Requests, Others(r), NEW labels
  PROVE  /\ pc[r] \in labels <=> r \in Busy(labels)
         /\ pc'[r] \in labels <=> r \in Busy(labels)'
         /\ (pc[r] \in labels <=> pc'[r] \in labels) => Busy(labels)' = Busy(labels)
         /\ pc'[r] \in labels => Busy(labels)' = Busy(labels) \cup {r}
         /\ pc'[r] \notin labels => Busy(labels)' = Busy(labels) \ {r}
<1>1. \A s \in Requests \ {r} : pc'[s] = pc[s]
  BY DEF Others
<1>2. \A s \in Requests : s # r => (s \in Busy(labels)' <=> s \in Busy(labels))
  BY <1>1 DEF Busy
<1>3. Busy(labels) \subseteq Requests /\ Busy(labels)' \subseteq Requests
  BY DEF Busy
<1>4. /\ pc[r] \in labels <=> r \in Busy(labels)
      /\ pc'[r] \in labels <=> r \in Busy(labels)'
  BY DEF Busy
<1> QED
  BY <1>2, <1>3, <1>4

LEMMA CountsStay ==
  ASSUME NEW r \in Requests, Others(r), receipt' = receipt,
         pc[r] \notin {"saveReceipt", "loadOrder"},
         pc'[r] \notin {"saveReceipt", "loadOrder"}
  PROVE  SameCounts
<1>1. Unsaved' = Unsaved
  BY BusyMoves DEF Unsaved
<1>2. Uncounted' = Uncounted
  BY BusyMoves DEF Uncounted
<1>3. Posted' = Posted
  BY DEF Posted
<1> QED
  BY <1>1, <1>2, <1>3 DEF SameCounts

LEMMA QuietCounts ==
  ASSUME TypeInv, NEW r \in Requests, Others(r)
  PROVE  /\ Starts(r) => SameCounts
         /\ Decides(r) => SameCounts
         /\ Removes(r) => SameCounts
         /\ Saves(r) => SameCounts
         /\ Posts(r) => SameCounts
         /\ Leaves(r) /\ ~history'.cut => SameCounts
<1>1. Starts(r) => SameCounts
  BY CountsStay DEF Starts
<1>2. Decides(r) => SameCounts
  BY CountsStay DEF Decides
<1>3. Removes(r) => SameCounts
  BY CountsStay DEF Removes
<1>4. Saves(r) => SameCounts
  BY CountsStay DEF Saves
<1>5. Posts(r) => SameCounts
  BY CountsStay DEF Posts
<1>6. ASSUME Leaves(r), ~history'.cut
      PROVE  SameCounts
  <2>1. pc[r] \in {"decide", "receive"} /\ pc'[r] = "idle" /\ receipt' = receipt
    BY <1>6 DEF Leaves, HistoryIs
  <2> QED
    BY <2>1, CountsStay
<1> QED
  BY <1>1, <1>2, <1>3, <1>4, <1>5, <1>6

LEMMA ReceivesCounts ==
  ASSUME FiniteInv, NEW r \in Requests, Others(r), Receives(r)
  PROVE  /\ Uncounted' = Uncounted /\ Posted' = Posted
         /\ IsFiniteSet(Unsaved') /\ Cardinality(Unsaved) \in Nat
         /\ Cardinality(Unsaved') = Cardinality(Unsaved) + 1
<1>1. pc[r] = "receive" /\ pc'[r] = "saveReceipt" /\ receipt' = receipt
  BY DEF Receives
<1>2. Uncounted' = Uncounted
  BY <1>1, BusyMoves DEF Uncounted
<1>3. Posted' = Posted
  BY <1>1 DEF Posted
<1>4. Unsaved' = Unsaved \cup {r} /\ r \notin Unsaved
  BY <1>1, BusyMoves DEF Unsaved
<1>5. IsFiniteSet(Unsaved)
  BY DEF FiniteInv
<1>6. PICK S : S = Unsaved
  OBVIOUS
<1>7. /\ Cardinality(S) \in Nat
      /\ IsFiniteSet(S \cup {r}) /\ Cardinality(S \cup {r}) = Cardinality(S) + 1
  BY <1>4, <1>5, <1>6, SetChange
<1> QED
  BY <1>2, <1>3, <1>4, <1>6, <1>7, Zenon

LEMMA CountsCounts ==
  ASSUME FiniteInv, NEW r \in Requests, Others(r), Counts(r),
         receipt \in [Receipts -> {"none", "DRAFT", "POSTED"}]
  PROVE  /\ Unsaved' = Unsaved
         /\ IsFiniteSet(Uncounted') /\ IsFiniteSet(Posted')
         /\ Cardinality(Uncounted) \in Nat /\ Cardinality(Posted) \in Nat
         /\ Cardinality(Uncounted') = Cardinality(Uncounted) + 1
         /\ ~history'.stale => Cardinality(Posted') = Cardinality(Posted) + 1
<1>1. pc[r] = "saveReceipt" /\ pc'[r] = "loadOrder"
  BY DEF Counts
<1>2. PICK f \in Receipts :
        /\ receipt' = [receipt EXCEPT ![f] = "POSTED"]
        /\ ~history'.stale => receipt[f] # "POSTED"
  BY DEF Counts, HistoryIs
<1>3. Unsaved' = Unsaved
  BY <1>1, BusyMoves DEF Unsaved
<1>4. Uncounted' = Uncounted \cup {r} /\ r \notin Uncounted
  BY <1>1, BusyMoves DEF Uncounted
<1>5. /\ Posted' = Posted \cup {f}
      /\ ~history'.stale => f \notin Posted
  BY <1>2 DEF Posted
<1>6. IsFiniteSet(Uncounted) /\ IsFiniteSet(Posted)
  BY DEF FiniteInv
<1>7. PICK S, T : S = Uncounted /\ T = Posted
  OBVIOUS
<1>8. /\ Cardinality(S) \in Nat
      /\ IsFiniteSet(S \cup {r}) /\ Cardinality(S \cup {r}) = Cardinality(S) + 1
  BY <1>4, <1>6, <1>7, SetChange
<1>9. /\ Cardinality(T) \in Nat
      /\ IsFiniteSet(T \cup {f})
      /\ f \notin T => Cardinality(T \cup {f}) = Cardinality(T) + 1
  BY <1>6, <1>7, SetChange
<1> QED
  BY <1>3, <1>4, <1>5, <1>7, <1>8, <1>9, Zenon

LEMMA TakesCounts ==
  ASSUME FiniteInv, NEW r \in Requests, Others(r), Takes(r)
  PROVE  /\ Posted' = Posted
         /\ IsFiniteSet(Unsaved') /\ IsFiniteSet(Uncounted')
         /\ Cardinality(Unsaved) \in Nat /\ Cardinality(Uncounted) \in Nat
         /\ Cardinality(Unsaved') = Cardinality(Unsaved) - 1
         /\ Cardinality(Uncounted') = Cardinality(Uncounted) - 1
<1>1. pc[r] = "loadOrder" /\ pc'[r] = "save" /\ receipt' = receipt
  BY DEF Takes
<1>2. Posted' = Posted
  BY <1>1 DEF Posted
<1>3. Unsaved' = Unsaved \ {r} /\ r \in Unsaved
  BY <1>1, BusyMoves DEF Unsaved
<1>4. Uncounted' = Uncounted \ {r} /\ r \in Uncounted
  BY <1>1, BusyMoves DEF Uncounted
<1>5. IsFiniteSet(Unsaved) /\ IsFiniteSet(Uncounted)
  BY DEF FiniteInv
<1>6. PICK S, T : S = Unsaved /\ T = Uncounted
  OBVIOUS
<1>7. /\ Cardinality(S) \in Nat
      /\ IsFiniteSet(S \ {r}) /\ Cardinality(S \ {r}) = Cardinality(S) - 1
  BY <1>3, <1>5, <1>6, SetChange
<1>8. /\ Cardinality(T) \in Nat
      /\ IsFiniteSet(T \ {r}) /\ Cardinality(T \ {r}) = Cardinality(T) - 1
  BY <1>4, <1>5, <1>6, SetChange
<1> QED
  BY <1>2, <1>3, <1>4, <1>6, <1>7, <1>8, Zenon

LEMMA FiniteMoves ==
  ASSUME TypeInv, FiniteInv, NEW r \in Requests, Others(r), Happens(r)
  PROVE  FiniteInv'
<1>1. CASE SameCounts
  BY <1>1 DEF SameCounts, FiniteInv
<1>2. CASE Receives(r)
  BY <1>2, ReceivesCounts DEF FiniteInv
<1>3. CASE Counts(r)
  BY <1>3, CountsCounts DEF FiniteInv, TypeInv, Tables
<1>4. CASE Takes(r)
  BY <1>4, TakesCounts DEF FiniteInv
<1>5. CASE Leaves(r)
  <2>1. pc'[r] = "idle" /\ receipt' = receipt
    BY <1>5 DEF Leaves
  <2>2. Unsaved' = Unsaved \ {r}
    BY <2>1, BusyMoves DEF Unsaved
  <2>3. Uncounted' = Uncounted \ {r}
    BY <2>1, BusyMoves DEF Uncounted
  <2>4. Posted' = Posted
    BY <2>1 DEF Posted
  <2>5. IsFiniteSet(Unsaved) /\ IsFiniteSet(Uncounted) /\ IsFiniteSet(Posted)
    BY DEF FiniteInv
  <2>6. IsFiniteSet(Unsaved \ {r}) /\ IsFiniteSet(Uncounted \ {r})
    BY <2>5, FS_RemoveElement
  <2> QED
    BY <2>2, <2>3, <2>4, <2>5, <2>6 DEF FiniteInv
<1> QED
  BY <1>1, <1>2, <1>3, <1>4, <1>5, QuietCounts DEF Happens

-----------------------------------------------------------------------------
(* The order at rest. *)

\* Nothing has happened before the first request, and the order is as a request
\* has loaded it as long as its copy is current and it has not decided.
KnowInv ==
  /\ history.started = 0 =>
       /\ \A r \in Requests : pc[r] = "idle"
       /\ ledger.made = 0 /\ ledger.finished = 0 /\ ledger.scrapped = 0
       /\ Posted = {}
       /\ order # NoOrder => order.completed = 0 /\ order.scrapped = 0
  /\ \A r \in history.current : pc[r] = "decide" => order = copy[r].order

\* The order is wrong, or will be when the requests under way have ended.
Doomed ==
  \/ history.stale \/ history.cut \/ history.unbooked
  \/ \E r \in Writers : r \notin history.current
  \/ \E r, s \in Writers : r # s

\* The order o agrees with the ledger l, once todo has been posted, and with p
\* receipts POSTED, but for u receipts in the ledger and c that are POSTED and
\* have still to be counted into the order.
Even(o, todo, l, u, c, p) ==
  /\ o.completed + u = l.made + Pending(todo, "made") + l.finished
  /\ o.scrapped + c = l.scrapped + Pending(todo, "scrapped") + p

Balanced(o, todo) ==
  Even(o, todo, ledger, Cardinality(Unsaved), Cardinality(Uncounted),
       Cardinality(Posted))

\* The copy that is about to be saved agrees, or the order, if there is none.
BalanceInv ==
  ~Doomed =>
    /\ \A r \in Writers : Balanced(copy[r].order, copy[r].todo)
    /\ Writers = {} /\ order # NoOrder => Balanced(order, <<>>)

LEMMA KnowMoves ==
  ASSUME TypeInv, KnowInv, NEW r \in Requests, Others(r), Happens(r)
  PROVE  KnowInv'
<1>1. history.started \in Nat /\ history.current \subseteq Requests
  BY HistoryFields DEF TypeInv, Tables
<1>2. history'.started # 0
  <2>1. CASE Starts(r)
    BY <1>1, <2>1 DEF Starts, HistoryIs
  <2>2. CASE ~Starts(r)
    <3>1. pc[r] # "idle" /\ history'.started = history.started
      BY <2>2 DEF Happens, Decides, Leaves, Removes, Saves, Posts, Receives, Counts,
                  Takes, Overtakes, HistoryIs
    <3> QED
      BY <3>1 DEF KnowInv
  <2> QED
    BY <2>1, <2>2
<1>3. ASSUME NEW s \in history'.current, pc'[s] = "decide"
      PROVE  order' = copy'[s].order
  <2>1. CASE s = r
    <3>1. Starts(r)
      BY <1>3, <2>1 DEF Happens, Decides, Leaves, Removes, Saves, Posts, Receives,
                        Counts, Takes
    <3> QED
      BY <1>3, <2>1, <3>1 DEF Starts
  <2>2. CASE s # r
    <3>1. CASE Removes(r) \/ Saves(r)
      BY <1>3, <2>2, <3>1 DEF Removes, Saves, Overtakes, HistoryIs
    <3>2. CASE ~(Removes(r) \/ Saves(r))
      <4>1. order' = order /\ history'.current \subseteq history.current \cup {r}
        BY <3>2 DEF Happens, Starts, Decides, Leaves, Posts, Receives, Counts, Takes,
                    HistoryIs
      <4>2. s \in history.current /\ s \in Requests
        BY <1>1, <1>3, <2>2, <4>1
      <4>3. pc[s] = "decide" /\ copy'[s] = copy[s]
        BY <1>3, <2>2, <4>2 DEF Others
      <4> QED
        BY <4>1, <4>2, <4>3 DEF KnowInv
    <3> QED
      BY <3>1, <3>2
  <2> QED
    BY <2>1, <2>2
<1> QED
  BY <1>2, <1>3 DEF KnowInv

\* Nothing that a request does makes up for what is lost.
LEMMA DoomedStays ==
  ASSUME TypeInv, NEW r \in Requests, Others(r), Happens(r), Doomed
  PROVE  Doomed'
<1>1. /\ history.stale => history'.stale
      /\ history.cut => history'.cut
      /\ history.unbooked => history'.unbooked
      /\ history'.current \subseteq history.current \cup {r}
  BY DEF Happens, Starts, Decides, Leaves, Removes, Saves, Posts, Receives, Counts,
         Takes, Overtakes, HistoryIs
<1>2. CASE history.stale \/ history.cut \/ history.unbooked
  BY <1>1, <1>2 DEF Doomed
<1>3. ASSUME NEW s \in Writers, s # r
      PROVE  /\ s \in Writers'
             /\ s \notin history.current => s \notin history'.current
  <2>1. s \in Requests /\ pc'[s] = pc[s]
    BY <1>3 DEF Writers, Busy, Others
  <2> QED
    BY <1>1, <1>3, <2>1 DEF Writers, Busy
<1>4. ASSUME NEW s \in Writers, s \notin history.current
      PROVE  Doomed'
  <2>1. CASE s # r
    BY <1>3, <1>4, <2>1 DEF Doomed
  <2>2. CASE s = r
    <3>1. pc[r] \in {"post", "save"}
      BY <1>4, <2>2 DEF Writers, Busy
    <3>2. Leaves(r) \/ Saves(r) \/ Posts(r)
      BY <3>1 DEF Happens, Starts, Decides, Removes, Receives, Counts, Takes
    <3>3. history'.cut \/ history'.stale
      BY <1>4, <2>2, <3>1, <3>2 DEF Leaves, Saves, Posts, Overtakes, HistoryIs
    <3> QED
      BY <3>3 DEF Doomed
  <2> QED
    BY <2>1, <2>2
<1>5. ASSUME NEW s \in Writers, NEW t \in Writers, s # t
      PROVE  Doomed'
  <2>1. CASE s # r /\ t # r
    BY <1>3, <1>5, <2>1 DEF Doomed
  <2>2. CASE s = r \/ t = r
    <3>1. PICK w \in Writers : w # r
      BY <1>5
    <3>2. pc[r] \in {"post", "save"}
      BY <1>5, <2>2 DEF Writers, Busy
    <3>3. Leaves(r) \/ Saves(r) \/ Posts(r)
      BY <3>2 DEF Happens, Starts, Decides, Removes, Receives, Counts, Takes
    <3>4. CASE Leaves(r)
      BY <3>2, <3>4 DEF Leaves, HistoryIs, Doomed
    <3>5. CASE Saves(r)
      <4>1. w \notin history'.current
        BY <3>1, <3>5 DEF Saves, Overtakes, HistoryIs
      <4> QED
        BY <1>3, <3>1, <4>1 DEF Doomed
    <3>6. CASE Posts(r)
      <4>1. r \in Writers'
        BY <3>6 DEF Posts, Writers, Busy
      <4> QED
        BY <1>3, <3>1, <4>1 DEF Doomed
    <3> QED
      BY <3>3, <3>4, <3>5, <3>6
  <2> QED
    BY <2>1, <2>2
<1> QED
  BY <1>2, <1>4, <1>5 DEF Doomed

\* What it takes to agree after a step.
LEMMA BalanceNext ==
  ASSUME \A r \in Writers' :
           Even(copy'[r].order, copy'[r].todo, ledger', Cardinality(Unsaved'),
                Cardinality(Uncounted'), Cardinality(Posted')),
         Writers' = {} /\ order' # NoOrder =>
           Even(order', <<>>, ledger', Cardinality(Unsaved'),
                Cardinality(Uncounted'), Cardinality(Posted'))
  PROVE  BalanceInv'
  BY DEF BalanceInv, Balanced

\* r does not write, and what agreed still agrees.
LEMMA BalanceStays ==
  ASSUME TypeInv, BalanceInv, ~Doomed, NEW r \in Requests, Others(r),
         r \notin Writers, r \notin Writers', order' = order,
         \A o \in Orders : \A todo : Ordered(todo) /\ Balanced(o, todo) =>
           Even(o, todo, ledger', Cardinality(Unsaved'), Cardinality(Uncounted'),
                Cardinality(Posted'))
  PROVE  BalanceInv'
<1>1. Writers' = Writers
  BY BusyMoves DEF Writers
<1>2. ASSUME NEW s \in Writers'
      PROVE  Even(copy'[s].order, copy'[s].todo, ledger', Cardinality(Unsaved'),
                  Cardinality(Uncounted'), Cardinality(Posted'))
  <2>1. s \in Requests /\ s # r /\ pc[s] \in {"post", "save"}
    BY <1>1 DEF Writers, Busy
  <2>2. copy'[s] = copy[s] /\ copy[s].order \in Orders /\ Ordered(copy[s].todo)
    BY <2>1, CopyFields DEF Others
  <2>3. Balanced(copy[s].order, copy[s].todo)
    BY <1>1 DEF BalanceInv
  <2> QED
    BY <2>2, <2>3
<1>3. ASSUME Writers' = {}, order' # NoOrder
      PROVE  Even(order', <<>>, ledger', Cardinality(Unsaved'),
                  Cardinality(Uncounted'), Cardinality(Posted'))
  <2>1. Balanced(order, <<>>) /\ order \in Orders
    BY <1>1, <1>3 DEF BalanceInv, TypeInv, Tables
  <2>2. Ordered(<<>>)
    BY EmptyPlanned DEF Planned
  <2> QED
    BY <2>1, <2>2
<1> QED
  BY <1>2, <1>3, BalanceNext

\* r is the only one to write, and its copy agrees.
LEMMA BalanceWrites ==
  ASSUME NEW r \in Requests, r \in Writers', ~Doomed',
         Even(copy'[r].order, copy'[r].todo, ledger', Cardinality(Unsaved'),
              Cardinality(Uncounted'), Cardinality(Posted'))
  PROVE  BalanceInv'
<1>1. \A s \in Writers' : s = r
  BY DEF Doomed
<1> QED
  BY <1>1, BalanceNext

\* A request that is about to write was alone with the order.
LEMMA BalanceAlone ==
  ASSUME TypeInv, BalanceInv, ~Doomed, ~Doomed', NEW r \in Requests, Others(r),
         r \notin Writers, r \in Writers', order \in Orders
  PROVE  Balanced(order, <<>>)
<1>1. ASSUME NEW s \in Writers
      PROVE  FALSE
  <2>1. s \in Requests /\ s # r /\ pc'[s] = pc[s]
    BY DEF Writers, Busy, Others
  <2>2. s \in Writers'
    BY <2>1 DEF Writers, Busy
  <2> QED
    BY <2>1, <2>2 DEF Doomed
<1>2. Writers = {} /\ order # NoOrder
  BY <1>1, OrderFields
<1> QED
  BY <1>2 DEF BalanceInv

\* No posting is left.
LEMMA EmptyPending == Pending(<<>>, "made") = 0 /\ Pending(<<>>, "scrapped") = 0
  BY EmptyPlanned DEF Planned

LEMMA BalanceStarts ==
  ASSUME TypeInv, KnowInv, BalanceInv, FiniteInv, ~Doomed, ~Doomed',
         NEW r \in Requests, Others(r), Starts(r)
  PROVE  BalanceInv'
<1>1. SameCounts
  BY QuietCounts
<1>2. pc[r] = "idle" /\ ledger' = ledger /\ order' = order
  BY DEF Starts
<1>3. CASE pc'[r] = "save"
  <2>1. /\ history.started = 0 /\ copy'[r].todo = <<>>
        /\ copy'[r].order.completed = 0 /\ copy'[r].order.scrapped = 0
    BY <1>3 DEF Starts
  <2>2. /\ \A s \in Requests : pc[s] = "idle"
        /\ ledger.made = 0 /\ ledger.finished = 0 /\ ledger.scrapped = 0
        /\ Posted = {}
    BY <2>1 DEF KnowInv
  <2>3. Unsaved = {} /\ Uncounted = {}
    BY <2>2 DEF Unsaved, Uncounted, Busy
  <2>4. Cardinality({}) = 0
    BY FS_EmptySet
  <2>5. /\ Cardinality(Unsaved') = 0 /\ Cardinality(Uncounted') = 0
        /\ Cardinality(Posted') = 0
    BY <1>1, <2>2, <2>3, <2>4 DEF SameCounts
  <2>6. Even(copy'[r].order, copy'[r].todo, ledger', Cardinality(Unsaved'),
             Cardinality(Uncounted'), Cardinality(Posted'))
    BY <1>2, <2>1, <2>2, <2>5, EmptyPending DEF Even
  <2>7. r \in Writers'
    BY <1>3 DEF Writers, Busy
  <2> QED
    BY <2>6, <2>7, BalanceWrites
<1>4. CASE pc'[r] # "save"
  <2>1. r \notin Writers /\ r \notin Writers'
    BY <1>2, <1>4 DEF Starts, Writers, Busy
  <2>2. \A o \in Orders : \A todo : Ordered(todo) /\ Balanced(o, todo) =>
          Even(o, todo, ledger', Cardinality(Unsaved'), Cardinality(Uncounted'),
               Cardinality(Posted'))
    BY <1>1, <1>2 DEF Balanced, SameCounts
  <2> QED
    BY <1>2, <2>1, <2>2, BalanceStays
<1> QED
  BY <1>3, <1>4

LEMMA EvenDecides ==
  ASSUME NEW o \in Orders, NEW todo, NEW q \in Nat, NEW s \in Nat, NEW l \in Ledger,
         Planned(todo, q, s), NEW u \in Nat, NEW c \in Nat, NEW p \in Nat,
         Even(o, <<>>, l, u, c, p), NEW result,
         result.completed = o.completed + q, result.scrapped = o.scrapped + s
  PROVE  Even(result, todo, l, u, c, p)
<1>1. /\ o.completed \in Nat /\ o.scrapped \in Nat
      /\ l.made \in Nat /\ l.finished \in Nat /\ l.scrapped \in Nat
  BY OrderFields DEF Ledger
<1>2. Pending(todo, "made") = q /\ Pending(todo, "scrapped") = s
  BY DEF Planned
<1>3. /\ o.completed + u = l.made + 0 + l.finished
      /\ o.scrapped + c = l.scrapped + 0 + p
  BY EmptyPending DEF Even
<1>4. PICK a \in Nat, b \in Nat, g \in Nat, f \in Nat, w \in Nat :
        /\ a = o.completed /\ b = o.scrapped
        /\ g = l.made /\ f = l.finished /\ w = l.scrapped
  BY <1>1
<1>5. a + u = g + 0 + f /\ b + c = w + 0 + p
  BY <1>3, <1>4
<1>6. (a + q) + u = g + q + f /\ (b + s) + c = w + s + p
  BY <1>5
<1>7. result.completed = a + q /\ result.scrapped = b + s
  BY <1>4
<1>8. /\ result.completed + u = l.made + q + l.finished
      /\ result.scrapped + c = l.scrapped + s + p
  BY <1>4, <1>6, <1>7, Zenon
<1> QED
  BY <1>2, <1>8 DEF Even

LEMMA Cardinalities ==
  ASSUME FiniteInv
  PROVE  /\ Cardinality(Unsaved) \in Nat /\ Cardinality(Uncounted) \in Nat
         /\ Cardinality(Posted) \in Nat
  BY FS_CardinalityType DEF FiniteInv

LEMMA BalanceDecides ==
  ASSUME TypeInv, KnowInv, BalanceInv, FiniteInv, ~Doomed, ~Doomed',
         NEW r \in Requests, Others(r), Decides(r)
  PROVE  BalanceInv'
<1>1. SameCounts
  BY QuietCounts
<1>2. /\ pc[r] = "decide" /\ pc'[r] \in {"post", "save"} /\ ledger' = ledger
      /\ history'.current = history.current /\ ~history'.unbooked
  BY DEF Decides, HistoryIs, Doomed
<1>3. r \notin Writers /\ r \in Writers'
  BY <1>2 DEF Writers, Busy
<1>4. r \in history.current
  BY <1>2, <1>3 DEF Doomed
<1>5. copy[r].order = order /\ order \in Orders
  BY <1>2, <1>4, CopyFields DEF KnowInv
<1>6. Balanced(order, <<>>)
  BY <1>3, <1>5, BalanceAlone
<1>7. PICK q \in Nat, s \in Nat :
        /\ Planned(copy'[r].todo, q, s)
        /\ copy'[r].order.completed = order.completed + q
        /\ copy'[r].order.scrapped = order.scrapped + s
  BY <1>2, <1>5 DEF Decides, HistoryIs
<1>8. ledger \in Ledger
  BY DEF TypeInv, Tables
<1>9. PICK o \in Orders, l \in Ledger, u \in Nat, c \in Nat, p \in Nat :
        /\ o = order /\ l = ledger
        /\ u = Cardinality(Unsaved) /\ c = Cardinality(Uncounted)
        /\ p = Cardinality(Posted)
  BY <1>5, <1>8, Cardinalities
<1>10. Even(o, <<>>, l, u, c, p)
  BY <1>6, <1>9 DEF Balanced
<1>11. PICK result, todo : result = copy'[r].order /\ todo = copy'[r].todo
  OBVIOUS
<1>12. Even(result, todo, l, u, c, p)
  BY <1>7, <1>9, <1>10, <1>11, EvenDecides
<1>13. Even(copy'[r].order, copy'[r].todo, ledger', Cardinality(Unsaved'),
            Cardinality(Uncounted'), Cardinality(Posted'))
  BY <1>1, <1>2, <1>9, <1>11, <1>12 DEF SameCounts
<1> QED
  BY <1>3, <1>13, BalanceWrites

LEMMA BalanceLeaves ==
  ASSUME TypeInv, BalanceInv, FiniteInv, ~Doomed, ~Doomed',
         NEW r \in Requests, Others(r), Leaves(r)
  PROVE  BalanceInv'
<1>1. SameCounts
  BY QuietCounts DEF Doomed
<1>2. /\ pc[r] \in {"decide", "receive"} /\ pc'[r] = "idle"
      /\ ledger' = ledger /\ order' = order
  BY DEF Leaves, HistoryIs, Doomed
<1>3. r \notin Writers /\ r \notin Writers'
  BY <1>2 DEF Writers, Busy
<1>4. \A o \in Orders : \A todo : Ordered(todo) /\ Balanced(o, todo) =>
        Even(o, todo, ledger', Cardinality(Unsaved'), Cardinality(Uncounted'),
             Cardinality(Posted'))
  BY <1>1, <1>2 DEF Balanced, SameCounts
<1> QED
  BY <1>2, <1>3, <1>4, BalanceStays

\* A write leaves no other writer: its copy would no longer be current.
LEMMA WriteAlone ==
  ASSUME ~Doomed', NEW r \in Requests, pc'[r] = "idle", Overtakes(r)
  PROVE  Writers' = {}
<1>1. history'.current \subseteq {r} /\ r \notin Writers'
  BY DEF Overtakes, HistoryIs, Writers, Busy
<1> QED
  BY <1>1 DEF Doomed

LEMMA BalanceRemoves ==
  ASSUME ~Doomed', NEW r \in Requests, Removes(r)
  PROVE  BalanceInv'
<1>1. Writers' = {} /\ order' = NoOrder
  BY WriteAlone DEF Removes
<1> QED
  BY <1>1, BalanceNext

LEMMA BalanceSaves ==
  ASSUME TypeInv, BalanceInv, ~Doomed, ~Doomed', NEW r \in Requests, Others(r), Saves(r)
  PROVE  BalanceInv'
<1>1. SameCounts
  BY QuietCounts
<1>2. pc[r] = "save" /\ order' = copy[r].order /\ ledger' = ledger
  BY DEF Saves
<1>3. Writers' = {}
  BY WriteAlone DEF Saves
<1>4. r \in Writers
  BY <1>2 DEF Writers, Busy
<1>5. Balanced(copy[r].order, copy[r].todo) /\ copy[r].todo = <<>>
  BY <1>2, <1>4, CopyFields DEF BalanceInv
<1>6. Even(order', <<>>, ledger', Cardinality(Unsaved'), Cardinality(Uncounted'),
           Cardinality(Posted'))
  BY <1>1, <1>2, <1>5 DEF Balanced, SameCounts
<1> QED
  BY <1>3, <1>6, BalanceNext

LEMMA EvenPosts ==
  ASSUME ledger \in Ledger, NEW o \in Orders, NEW todo, Ordered(todo), todo # <<>>,
         NEW u \in Nat, NEW c \in Nat, NEW p \in Nat,
         Even(o, todo, ledger, u, c, p)
  PROVE  Even(o, Tail(todo), Booked(Head(todo)), u, c, p)
<1>1. PICK e \in Postings : e = Head(todo)
  BY TailPending
<1>2. /\ Pending(todo, e.what) = e.quantity
      /\ \A what : Pending(Tail(todo), what) =
           IF what = e.what THEN 0 ELSE Pending(todo, what)
  BY <1>1, TailPending
<1>3. PICK x \in Nat, y \in Nat :
        x = Pending(todo, "made") /\ y = Pending(todo, "scrapped")
  BY PendingTyped
<1>4. /\ Pending(Tail(todo), "made") = IF e.what = "made" THEN 0 ELSE x
      /\ Pending(Tail(todo), "scrapped") = IF e.what = "scrapped" THEN 0 ELSE y
      /\ e.what = "made" => e.quantity = x
      /\ e.what = "scrapped" => e.quantity = y
  BY <1>2, <1>3
<1>5. /\ Booked(e).finished = ledger.finished
      /\ Booked(e).made = ledger.made + (IF e.what = "made" THEN e.quantity ELSE 0)
      /\ Booked(e).scrapped =
           ledger.scrapped + (IF e.what = "scrapped" THEN e.quantity ELSE 0)
  BY BookedIs
<1>6. /\ o.completed \in Nat /\ o.scrapped \in Nat
      /\ ledger.made \in Nat /\ ledger.finished \in Nat /\ ledger.scrapped \in Nat
  BY OrderFields, LedgerFields
<1>7. /\ o.completed + u = ledger.made + x + ledger.finished
      /\ o.scrapped + c = ledger.scrapped + y + p
  BY <1>3 DEF Even
<1>8. /\ Booked(e).made + Pending(Tail(todo), "made") = ledger.made + x
      /\ Booked(e).scrapped + Pending(Tail(todo), "scrapped") = ledger.scrapped + y
  BY <1>4, <1>5, <1>6
<1>9. /\ o.completed + u = Booked(e).made + Pending(Tail(todo), "made")
                           + Booked(e).finished
      /\ o.scrapped + c = Booked(e).scrapped + Pending(Tail(todo), "scrapped") + p
  BY <1>5, <1>7, <1>8
<1> QED
  BY <1>1, <1>9 DEF Even

LEMMA BalancePosts ==
  ASSUME TypeInv, BalanceInv, FiniteInv, ~Doomed, ~Doomed',
         NEW r \in Requests, Others(r), Posts(r)
  PROVE  BalanceInv'
<1>1. SameCounts
  BY QuietCounts
<1>2. /\ pc[r] = "post" /\ pc'[r] \in {"post", "save"}
      /\ ledger' = Booked(Head(copy[r].todo))
      /\ copy'[r].todo = Tail(copy[r].todo) /\ copy'[r].order = copy[r].order
  BY DEF Posts
<1>3. r \in Writers /\ r \in Writers'
  BY <1>2 DEF Writers, Busy
<1>4. /\ ledger \in Ledger /\ copy[r].order \in Orders
      /\ Ordered(copy[r].todo) /\ copy[r].todo # <<>>
  BY <1>2, CopyFields DEF Shape, TypeInv, Tables
<1>5. PICK u \in Nat, c \in Nat, p \in Nat :
        /\ u = Cardinality(Unsaved) /\ c = Cardinality(Uncounted)
        /\ p = Cardinality(Posted)
  BY Cardinalities
<1> DEFINE o == copy[r].order
           todo == copy[r].todo
<1>6. Even(o, todo, ledger, u, c, p)
  BY <1>3, <1>5 DEF BalanceInv, Balanced
<1>7. Even(o, Tail(todo), Booked(Head(todo)), u, c, p)
  BY <1>4, <1>5, <1>6, EvenPosts
<1>8. Even(copy'[r].order, copy'[r].todo, ledger', Cardinality(Unsaved'),
           Cardinality(Uncounted'), Cardinality(Posted'))
  BY <1>1, <1>2, <1>5, <1>7 DEF SameCounts
<1> QED
  BY <1>3, <1>8, BalanceWrites

LEMMA BalanceReceives ==
  ASSUME TypeInv, BalanceInv, FiniteInv, ~Doomed,
         NEW r \in Requests, Others(r), Receives(r)
  PROVE  BalanceInv'
<1>1. /\ Uncounted' = Uncounted /\ Posted' = Posted
      /\ Cardinality(Unsaved') = Cardinality(Unsaved) + 1
  BY ReceivesCounts
<1>2. /\ pc[r] = "receive" /\ pc'[r] = "saveReceipt" /\ order' = order
      /\ ledger' = [ledger EXCEPT !.finished = @ + 1] /\ ledger \in Ledger
  BY DEF Receives, TypeInv, Tables
<1>3. r \notin Writers /\ r \notin Writers'
  BY <1>2 DEF Writers, Busy
<1>4. PICK n \in Nat : n = ledger.finished + 1
  BY <1>2, LedgerFields
<1>5. /\ ledger'.made = ledger.made /\ ledger'.scrapped = ledger.scrapped
      /\ ledger'.finished = ledger.finished + 1
  BY <1>2, <1>4 DEF Ledger
<1>6. ASSUME NEW o \in Orders, NEW todo, Ordered(todo), Balanced(o, todo)
      PROVE  Even(o, todo, ledger', Cardinality(Unsaved'), Cardinality(Uncounted'),
                  Cardinality(Posted'))
  <2>1. PICK u \in Nat : u = Cardinality(Unsaved)
    BY Cardinalities
  <2>2. PICK x \in Nat : x = Pending(todo, "made")
    BY <1>6, PendingTyped
  <2>3. o.completed \in Nat /\ ledger.made \in Nat /\ ledger.finished \in Nat
    BY <1>2, OrderFields, LedgerFields
  <2>4. o.completed + u = ledger.made + x + ledger.finished
    BY <1>6, <2>1, <2>2 DEF Balanced, Even
  <2>5. o.completed + (u + 1) = ledger'.made + x + ledger'.finished
    BY <1>5, <2>3, <2>4
  <2>6. o.scrapped + Cardinality(Uncounted) =
          ledger.scrapped + Pending(todo, "scrapped") + Cardinality(Posted)
    BY <1>6 DEF Balanced, Even
  <2>7. /\ Cardinality(Unsaved') = u + 1
        /\ Cardinality(Uncounted') = Cardinality(Uncounted)
        /\ Cardinality(Posted') = Cardinality(Posted)
    BY <1>1, <2>1
  <2> QED
    BY <1>5, <2>2, <2>5, <2>6, <2>7 DEF Even
<1> QED
  BY <1>2, <1>3, <1>6, BalanceStays

LEMMA BalanceCounts ==
  ASSUME TypeInv, BalanceInv, FiniteInv, ~Doomed, ~Doomed',
         NEW r \in Requests, Others(r), Counts(r)
  PROVE  BalanceInv'
<1>1. /\ Unsaved' = Unsaved
      /\ Cardinality(Uncounted') = Cardinality(Uncounted) + 1
      /\ Cardinality(Posted') = Cardinality(Posted) + 1
  BY CountsCounts DEF Doomed, TypeInv, Tables
<1>2. /\ pc[r] = "saveReceipt" /\ pc'[r] = "loadOrder" /\ order' = order
      /\ ledger' = ledger /\ ledger \in Ledger
  BY DEF Counts, TypeInv, Tables
<1>3. r \notin Writers /\ r \notin Writers'
  BY <1>2 DEF Writers, Busy
<1>4. ASSUME NEW o \in Orders, NEW todo, Ordered(todo), Balanced(o, todo)
      PROVE  Even(o, todo, ledger', Cardinality(Unsaved'), Cardinality(Uncounted'),
                  Cardinality(Posted'))
  <2>1. PICK c \in Nat, p \in Nat :
          c = Cardinality(Uncounted) /\ p = Cardinality(Posted)
    BY Cardinalities
  <2>2. PICK y \in Nat : y = Pending(todo, "scrapped")
    BY <1>4, PendingTyped
  <2>3. o.scrapped \in Nat /\ ledger.scrapped \in Nat
    BY <1>2, OrderFields, LedgerFields
  <2>4. o.scrapped + c = ledger.scrapped + y + p
    BY <1>4, <2>1, <2>2 DEF Balanced, Even
  <2>5. o.scrapped + (c + 1) = ledger.scrapped + y + (p + 1)
    BY <2>3, <2>4
  <2>6. o.completed + Cardinality(Unsaved) =
          ledger.made + Pending(todo, "made") + ledger.finished
    BY <1>4 DEF Balanced, Even
  <2>7. /\ Cardinality(Unsaved') = Cardinality(Unsaved)
        /\ Cardinality(Uncounted') = c + 1 /\ Cardinality(Posted') = p + 1
    BY <1>1, <2>1
  <2> QED
    BY <1>2, <2>2, <2>5, <2>6, <2>7 DEF Even
<1> QED
  BY <1>2, <1>3, <1>4, BalanceStays

LEMMA BalanceTakes ==
  ASSUME TypeInv, BalanceInv, FiniteInv, ~Doomed, ~Doomed',
         NEW r \in Requests, Others(r), Takes(r)
  PROVE  BalanceInv'
<1>1. /\ Posted' = Posted
      /\ Cardinality(Unsaved') = Cardinality(Unsaved) - 1
      /\ Cardinality(Uncounted') = Cardinality(Uncounted) - 1
  BY TakesCounts
<1>2. /\ pc[r] = "loadOrder" /\ pc'[r] = "save" /\ copy'[r].todo = <<>>
      /\ copy'[r].order.completed = order.completed + 1
      /\ copy'[r].order.scrapped = order.scrapped + 1
      /\ ledger' = ledger /\ order \in Orders /\ ledger \in Ledger
  BY DEF Takes, TypeInv, Tables
<1>3. r \notin Writers /\ r \in Writers'
  BY <1>2 DEF Writers, Busy
<1>4. Balanced(order, <<>>)
  BY <1>2, <1>3, BalanceAlone
<1>5. PICK u \in Nat, c \in Nat, p \in Nat :
        /\ u = Cardinality(Unsaved) /\ c = Cardinality(Uncounted)
        /\ p = Cardinality(Posted)
  BY Cardinalities
<1>6. /\ order.completed \in Nat /\ order.scrapped \in Nat
      /\ ledger.made \in Nat /\ ledger.finished \in Nat /\ ledger.scrapped \in Nat
  BY <1>2, OrderFields, LedgerFields
<1>7. /\ order.completed + u = ledger.made + 0 + ledger.finished
      /\ order.scrapped + c = ledger.scrapped + 0 + p
  BY <1>4, <1>5, EmptyPending DEF Balanced, Even
<1>8. /\ (order.completed + 1) + (u - 1) = ledger.made + 0 + ledger.finished
      /\ (order.scrapped + 1) + (c - 1) = ledger.scrapped + 0 + p
  <2>1. PICK a \in Nat, b \in Nat, g \in Nat, f \in Nat, w \in Nat :
          /\ a = order.completed /\ b = order.scrapped
          /\ g = ledger.made /\ f = ledger.finished /\ w = ledger.scrapped
    BY <1>6
  <2>2. a + u = g + 0 + f /\ b + c = w + 0 + p
    BY <1>7, <2>1
  <2>3. (a + 1) + (u - 1) = g + 0 + f /\ (b + 1) + (c - 1) = w + 0 + p
    BY <2>2
  <2> QED
    BY <2>1, <2>3, Zenon
<1>9. Even(copy'[r].order, copy'[r].todo, ledger', Cardinality(Unsaved'),
           Cardinality(Uncounted'), Cardinality(Posted'))
  <2>1. /\ Cardinality(Unsaved') = u - 1 /\ Cardinality(Uncounted') = c - 1
        /\ Cardinality(Posted') = p
    BY <1>1, <1>5
  <2> QED
    BY <1>2, <1>8, <2>1, EmptyPending DEF Even
<1> QED
  BY <1>3, <1>9, BalanceWrites

BooksInv == TypeInv /\ KnowInv /\ FiniteInv /\ BalanceInv

LEMMA BooksMove ==
  ASSUME BooksInv, NEW r \in Requests, Step(r)
  PROVE  BooksInv'
<1>1. TypeInv' /\ Others(r) /\ Happens(r)
  BY StepEffects DEF Effect, BooksInv
<1>2. KnowInv'
  BY <1>1, KnowMoves DEF BooksInv
<1>3. FiniteInv'
  BY <1>1, FiniteMoves DEF BooksInv
<1>4. BalanceInv'
  <2>1. CASE Doomed'
    BY <2>1 DEF BalanceInv
  <2>2. CASE ~Doomed'
    <3>1. ~Doomed
      BY <1>1, <2>2, DoomedStays DEF BooksInv
    <3>2. TypeInv /\ KnowInv /\ FiniteInv /\ BalanceInv
      BY DEF BooksInv
    <3>3. CASE Starts(r)
      BY <1>1, <2>2, <3>1, <3>2, <3>3, BalanceStarts
    <3>4. CASE Decides(r)
      BY <1>1, <2>2, <3>1, <3>2, <3>4, BalanceDecides
    <3>5. CASE Leaves(r)
      BY <1>1, <2>2, <3>1, <3>2, <3>5, BalanceLeaves
    <3>6. CASE Removes(r)
      BY <2>2, <3>6, BalanceRemoves
    <3>7. CASE Saves(r)
      BY <1>1, <2>2, <3>1, <3>2, <3>7, BalanceSaves
    <3>8. CASE Posts(r)
      BY <1>1, <2>2, <3>1, <3>2, <3>8, BalancePosts
    <3>9. CASE Receives(r)
      BY <1>1, <3>1, <3>2, <3>9, BalanceReceives
    <3>10. CASE Counts(r)
      BY <1>1, <2>2, <3>1, <3>2, <3>10, BalanceCounts
    <3>11. CASE Takes(r)
      BY <1>1, <2>2, <3>1, <3>2, <3>11, BalanceTakes
    <3> QED
      BY <1>1, <3>3, <3>4, <3>5, <3>6, <3>7, <3>8, <3>9, <3>10, <3>11 DEF Happens
  <2> QED
    BY <2>1, <2>2
<1> QED
  BY <1>1, <1>2, <1>3, <1>4 DEF BooksInv

LEMMA BooksEnter ==
  ASSUME BooksInv, NEW f \in Receipts, EnterReceipt(f)
  PROVE  BooksInv'
<1>1. TypeInv' /\ Enters(f)
  BY EnterEffect DEF BooksInv
<1>2. UNCHANGED <<order, ledger, pc, copy, history>>
  BY <1>1 DEF Enters
<1>3. Posted' = Posted
  BY <1>1 DEF Enters, Posted, BooksInv, TypeInv, Tables
<1>4. Unsaved' = Unsaved /\ Uncounted' = Uncounted /\ Writers' = Writers
  BY <1>2 DEF Unsaved, Uncounted, Writers, Busy
<1>5. KnowInv'
  BY <1>2, <1>3 DEF KnowInv, BooksInv
<1>6. FiniteInv'
  BY <1>3, <1>4 DEF FiniteInv, BooksInv
<1>7. BalanceInv'
  BY <1>2, <1>3, <1>4 DEF BalanceInv, BooksInv, Balanced, Doomed
<1> QED
  BY <1>1, <1>5, <1>6, <1>7 DEF BooksInv

LEMMA BooksKept == BooksInv /\ [Next]_vars => BooksInv'
<1> SUFFICES ASSUME BooksInv, [Next]_vars PROVE BooksInv'
  OBVIOUS
<1>1. CASE \E r \in Requests : Step(r)
  BY <1>1, BooksMove
<1>2. CASE \E f \in Receipts : EnterReceipt(f)
  BY <1>2, BooksEnter
<1>3. CASE UNCHANGED vars
  <2>1. UNCHANGED <<order, receipt, ledger, pc, copy, history>>
    BY <1>3 DEF vars
  <2>2. /\ Unsaved' = Unsaved /\ Uncounted' = Uncounted /\ Writers' = Writers
        /\ Posted' = Posted
    BY <2>1 DEF Unsaved, Uncounted, Writers, Busy, Posted
  <2>3. TypeInv'
    BY <1>3, TypeKept DEF BooksInv
  <2>4. KnowInv' /\ FiniteInv'
    BY <2>1, <2>2 DEF KnowInv, FiniteInv, BooksInv
  <2>5. BalanceInv'
    BY <2>1, <2>2 DEF BalanceInv, BooksInv, Balanced, Doomed
  <2> QED
    BY <2>3, <2>4, <2>5 DEF BooksInv
<1> QED
  BY <1>1, <1>2, <1>3 DEF Next

LEMMA BooksInit == Init => BooksInv
<1> SUFFICES ASSUME Init PROVE BooksInv
  OBVIOUS
<1>1. TypeInv
  BY TypeInit
<1>2. /\ \A r \in Requests : pc[r] = "idle"
      /\ ledger.made = 0 /\ ledger.finished = 0 /\ ledger.scrapped = 0
      /\ history.current = {}
  BY DEF Init
<1>3. Posted = {} /\ Unsaved = {} /\ Uncounted = {}
  <2>1. receipt \in [Receipts -> {"none", "DRAFT"}]
    BY DEF Init
  <2>2. Posted = {}
    BY <2>1 DEF Posted
  <2> QED
    BY <1>2, <2>2 DEF Unsaved, Uncounted, Busy
<1>4. ASSUME order # NoOrder
      PROVE  order.completed = 0 /\ order.scrapped = 0
  <2>1. PICK planned \in Plans, located \in BOOLEAN,
             status \in {"DRAFT", "RELEASED", "IN_PROGRESS", "CANCELLED"} :
          order = [New(planned, located) EXCEPT !.status = status]
    BY <1>4 DEF Init
  <2>2. PICK n \in Nat : n = 0
    OBVIOUS
  <2>3. order = [status |-> status, planned |-> planned, completed |-> n,
                 scrapped |-> n, located |-> located]
    BY <2>1, <2>2 DEF New
  <2> QED
    BY <2>2, <2>3
<1>5. KnowInv
  BY <1>2, <1>3, <1>4 DEF KnowInv
<1>6. FiniteInv
  BY <1>3, FS_EmptySet DEF FiniteInv
<1>7. Cardinality({}) = 0
  BY FS_EmptySet
<1>8. order # NoOrder => Balanced(order, <<>>)
  BY <1>2, <1>3, <1>4, <1>7, EmptyPending DEF Balanced, Even
<1>9. Writers = {}
  BY <1>2 DEF Writers, Busy
<1>10. BalanceInv
  BY <1>8, <1>9 DEF BalanceInv
<1> QED
  BY <1>1, <1>5, <1>6, <1>10 DEF BooksInv

\* The order at rest has completed and scrapped what the ledger says, as long as
\* no request acted on an overtaken copy, none was cut short, and the order was
\* not set to another quantity than was posted: for any bill, quantities and
\* receipts, over any sequence of runs, scraps, reopenings and completions.
THEOREM BooksAreKept == Spec => []BooksFollowProduction
<1>1. BooksInv => BooksFollowProduction
  <2> SUFFICES ASSUME BooksInv, ~history.stale, ~history.cut, ~history.unbooked,
                      Quiet, order # NoOrder
               PROVE  /\ order.completed = ledger.made + ledger.finished
                      /\ order.scrapped = ledger.scrapped
                           + Cardinality({f \in Receipts : receipt[f] = "POSTED"})
    BY DEF BooksFollowProduction
  <2>1. Writers = {} /\ Unsaved = {} /\ Uncounted = {}
    BY DEF Quiet, Writers, Unsaved, Uncounted, Busy
  <2>2. ~Doomed
    BY <2>1 DEF Doomed
  <2>3. Balanced(order, <<>>)
    BY <2>1, <2>2 DEF BooksInv, BalanceInv
  <2>4. Cardinality(Unsaved) = 0 /\ Cardinality(Uncounted) = 0
    BY <2>1, FS_EmptySet
  <2>5. PICK p \in Nat : p = Cardinality(Posted)
    BY Cardinalities DEF BooksInv
  <2>6. /\ order.completed + 0 = ledger.made + 0 + ledger.finished
        /\ order.scrapped + 0 = ledger.scrapped + 0 + p
    BY <2>3, <2>4, <2>5, EmptyPending DEF Balanced, Even
  <2>7. order \in Orders /\ ledger \in Ledger
    BY DEF BooksInv, TypeInv, Tables
  <2>8. /\ order.completed \in Nat /\ order.scrapped \in Nat
        /\ ledger.made \in Nat /\ ledger.finished \in Nat /\ ledger.scrapped \in Nat
    BY <2>7, OrderFields, LedgerFields
  <2>9. /\ order.completed = ledger.made + ledger.finished
        /\ order.scrapped = ledger.scrapped + p
    BY <2>6, <2>8
  <2> QED
    BY <2>5, <2>9 DEF Posted
<1>2. Init => BooksInv
  BY BooksInit
<1>3. BooksInv /\ [Next]_vars => BooksInv'
  BY BooksKept
<1> QED
  BY <1>1, <1>2, <1>3, PTL DEF Spec

=============================================================================
