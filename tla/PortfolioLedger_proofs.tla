----------------------- MODULE PortfolioLedger_proofs -----------------------
(***************************************************************************)
(* Proofs about the portfolio ledger, for any number of requests and any   *)
(* transactions that they ask for.  A replay is a recursive function over the sets of      *)
(* transactions, and what it computes is proved by the least set that      *)
(* would be a counterexample: the ordering of finite sets by strict        *)
(* inclusion is well founded.                                              *)
(***************************************************************************)
EXTENDS PortfolioLedger, FiniteSetTheorems, TLAPS

-----------------------------------------------------------------------------
(* Replays.                                                                *)

\* What QuantityAfter chooses: a function that applies the latest last.
Replays(trade, after) ==
    after = [ids \in SUBSET DOMAIN trade |->
                IF ids = {} THEN Exactly(0)
                ELSE LET n == Latest(trade, ids) IN Apply(after[ids \ {n}], trade[n])]

\* Finitely many transactions, by the numbers of their requests.
Recorded(D, trade) == IsFiniteSet(D) /\ D \subseteq Nat /\ trade \in [D -> Trade]

Part(trade, ids) == [n \in ids |-> trade[n]]

IsLatest(trade, ids, n) == n \in ids /\ \A m \in ids \ {n} : Before(trade, m, n)

\* Fractions, and what is made of them.
LEMMA ExactlyType == \A q \in Nat : Exactly(q) \in Fraction
  BY DEF Exactly, Fraction

LEMMA ReducedType ==
    ASSUME NEW n \in Nat, NEW d \in Nat \ {0}
    PROVE  Reduced(n, d) \in Fraction
<1>1. n \div d \in Nat
  OBVIOUS
<1> QED
  BY <1>1 DEF Reduced, Fraction

LEMMA RoundedType ==
    ASSUME NEW x \in Fraction
    PROVE  Rounded(x) \in Nat
<1>1. x[1] \in Nat /\ x[2] \in Nat \ {0} /\ Fine \in Nat \ {0}
  BY FineAssumption DEF Fraction
<1>2. Fine * x[2] \in Nat \ {0}
  BY <1>1
<1>3. 2 * Fine * x[2] \in Nat \ {0}
  BY <1>1
<1>4. 2 * x[1] + Fine * x[2] \in Nat
  BY <1>1, <1>2
<1>5. (2 * x[1] + Fine * x[2]) \div (2 * Fine * x[2]) \in Nat
  BY <1>3, <1>4
<1> QED
  BY <1>1, <1>5 DEF Rounded

LEMMA ColumnType == \A q \in Nat : Column(q) \in Nat
  BY ExactlyType, RoundedType DEF Column

LEMMA StoredType == \A t \in Trade : Stored(t) \in Trade
  BY ColumnType DEF Stored, Trade

\* The engine gives a quantity or refuses, and never gives what was refused.
LEMMA ApplyType ==
    ASSUME NEW x \in Fraction \cup {Refused}, NEW t \in Trade
    PROVE  Apply(x, t) \in Fraction \cup {Refused}
<1>1. t.quantity \in Nat /\ t.from \in Nat /\ t.to \in Nat /\ t.kind \in Kinds
  BY DEF Trade
<1>2. CASE x = Refused
  BY <1>2 DEF Apply
<1>3. CASE x # Refused
  <2>1. x \in Fraction /\ x[1] \in Nat /\ x[2] \in Nat \ {0}
    BY <1>3 DEF Fraction
  <2>2. CASE t.kind \in {"BUY", "BONUS"}
    <3>1. x[1] + t.quantity * x[2] \in Nat
      BY <1>1, <2>1
    <3>2. Apply(x, t) = Reduced(x[1] + t.quantity * x[2], x[2])
      BY <1>3, <2>2 DEF Apply
    <3> QED
      BY <2>1, <3>1, <3>2, ReducedType
  <2>3. CASE t.kind = "SELL"
    <3>0. PICK sold, margin : sold = t.quantity * x[2] /\ margin = Tolerance * x[2]
      OBVIOUS
    <3>1. sold \in Nat /\ margin \in Nat
      BY <1>1, <2>1, <3>0, FineAssumption
    <3>2. Apply(x, t) = IF sold > x[1] + margin THEN Refused
                        ELSE IF x[1] <= sold + margin THEN Exactly(0)
                        ELSE Reduced(x[1] - sold, x[2])
      BY <1>3, <2>3, <3>0 DEF Apply, Sold
    <3>3. x[1] > sold + margin => x[1] - sold \in Nat
      BY <2>1, <3>1
    <3>4. CASE sold > x[1] + margin \/ x[1] <= sold + margin
      BY <3>2, <3>4, ExactlyType
    <3>5. CASE ~(sold > x[1] + margin) /\ ~(x[1] <= sold + margin)
      <4>1. x[1] - sold \in Nat
        BY <2>1, <3>1, <3>5
      <4>2. Reduced(x[1] - sold, x[2]) \in Fraction
        BY <2>1, <4>1, ReducedType
      <4> QED
        BY <3>2, <3>5, <4>2
    <3> QED
      BY <3>4, <3>5
  <2>4. CASE t.kind = "SPLIT"
    <3>1. CASE t.from = 0 \/ t.to = 0
      BY <1>3, <2>4, <3>1 DEF Apply
    <3>2. CASE t.from # 0 /\ t.to # 0
      <4>1. x[1] * t.to \in Nat /\ x[2] * t.from \in Nat \ {0}
        BY <1>1, <2>1, <3>2
      <4>2. Apply(x, t) = Reduced(x[1] * t.to, x[2] * t.from)
        BY <1>3, <2>4, <3>2 DEF Apply
      <4> QED
        BY <4>1, <4>2, ReducedType
    <3> QED
      BY <3>1, <3>2
  <2>5. CASE t.kind = "DIVIDEND"
    BY <1>3, <2>1, <2>5 DEF Apply
  <2> QED
    BY <1>1, <2>2, <2>3, <2>4, <2>5 DEF Kinds
<1> QED
  BY <1>2, <1>3

\* A set of finite sets has a least one.
LEMMA LeastSet ==
    ASSUME NEW S, IsFiniteSet(S), NEW T, T \subseteq SUBSET S, T # {}
    PROVE  \E x \in T : \A y \in T : y \subseteq x => y = x
<1>1. IsWellFoundedOn(StrictSubsetOrdering(S), SUBSET S)
  BY FS_StrictSubsetOrderingWellFounded, FS_FiniteSubsetsOfFinite, Zenon
<1>2. PICK x \in T : \A y \in T : ~(<<y, x>> \in StrictSubsetOrdering(S))
  BY <1>1, WFMin, Zenon
<1>3. \A y \in T : y \subseteq x => y = x
  BY <1>2 DEF StrictSubsetOrdering
<1> QED
  BY <1>3

\* The order of dates, ties by the numbers of the requests, is a strict and
\* total one.
LEMMA BeforeOrders ==
    ASSUME NEW D, NEW trade, Recorded(D, trade),
           NEW k \in D, NEW m \in D, NEW n \in D
    PROVE  /\ ~(Before(trade, m, n) /\ Before(trade, n, m))
           /\ m # n => Before(trade, m, n) \/ Before(trade, n, m)
           /\ Before(trade, k, m) /\ Before(trade, m, n) => Before(trade, k, n)
<1>1. trade[k].date \in Nat /\ trade[m].date \in Nat /\ trade[n].date \in Nat
  BY DEF Recorded, Trade
<1>2. k \in Nat /\ m \in Nat /\ n \in Nat
  BY DEF Recorded
<1> QED
  BY <1>1, <1>2 DEF Before

\* The latest of some transactions is the only one of them that has all others
\* before it.
LEMMA LatestIsTheOne ==
    ASSUME NEW D, NEW trade, Recorded(D, trade),
           NEW ids, ids \subseteq D, NEW n, IsLatest(trade, ids, n)
    PROVE  Latest(trade, ids) = n
<1>1. \A m \in ids : IsLatest(trade, ids, m) => m = n
  BY BeforeOrders DEF IsLatest
<1>2. Latest(trade, ids) \in ids /\ IsLatest(trade, ids, Latest(trade, ids))
  BY DEF Latest, IsLatest
<1> QED
  BY <1>1, <1>2

LEMMA LatestExists ==
    ASSUME NEW D, NEW trade, Recorded(D, trade),
           NEW ids, ids \subseteq D, ids # {}
    PROVE  IsLatest(trade, ids, Latest(trade, ids))
<1>1. PICK bad : bad = {s \in SUBSET D : s # {} /\ \A n \in s : ~IsLatest(trade, s, n)}
  OBVIOUS
<1>2. ASSUME bad # {} PROVE FALSE
  <2>0. IsFiniteSet(D) /\ bad \subseteq SUBSET D
    BY <1>1 DEF Recorded
  <2>1. PICK s \in bad : \A t \in bad : t \subseteq s => t = s
    BY <1>2, <2>0, LeastSet
  <2>2. s \subseteq D /\ s # {} /\ \A n \in s : ~IsLatest(trade, s, n)
    BY <1>1, <2>1
  <2>3. PICK a : a \in s
    BY <2>2
  <2>4. s \ {a} # {}
    BY <2>2, <2>3 DEF IsLatest
  <2>5. s \ {a} \notin bad
    BY <2>1, <2>3
  <2>6. PICK n \in s \ {a} : IsLatest(trade, s \ {a}, n)
    BY <1>1, <2>2, <2>4, <2>5
  <2>7. a \in D /\ n \in D /\ a # n /\ \A m \in s : m \in D
    BY <2>2, <2>3, <2>6
  <2>8. CASE Before(trade, a, n)
    BY <2>2, <2>3, <2>6, <2>8 DEF IsLatest
  <2>9. CASE Before(trade, n, a)
    <3>1. \A m \in s \ {a} : Before(trade, m, a)
      BY <2>6, <2>7, <2>9, BeforeOrders DEF IsLatest
    <3> QED
      BY <2>2, <2>3, <3>1 DEF IsLatest
  <2> QED
    BY <2>7, <2>8, <2>9, BeforeOrders
<1>3. PICK n \in ids : IsLatest(trade, ids, n)
  BY <1>1, <1>2
<1> QED
  BY <1>3, LatestIsTheOne

\* The order in a part of the transactions is that in all of them.
LEMMA LatestOfPart ==
    ASSUME NEW D, NEW trade, Recorded(D, trade),
           NEW E, E \subseteq D, NEW ids, ids \subseteq E, ids # {}
    PROVE  /\ Latest(Part(trade, E), ids) = Latest(trade, ids)
           /\ Latest(trade, ids) \in ids
<1>1. Recorded(E, Part(trade, E))
  BY FS_Subset DEF Recorded, Part
<1>2. IsLatest(trade, ids, Latest(trade, ids))
  BY LatestExists
<1>3. IsLatest(Part(trade, E), ids, Latest(trade, ids))
  BY <1>2 DEF IsLatest, Before, Part
<1> QED
  BY <1>1, <1>2, <1>3, LatestIsTheOne DEF IsLatest

\* Replays of two parts of the same transactions agree on what they share.
LEMMA ReplaysAgree ==
    ASSUME NEW D, NEW trade, Recorded(D, trade),
           NEW E, E \subseteq D, NEW F, F \subseteq D, NEW f, NEW g,
           Replays(Part(trade, E), f), Replays(Part(trade, F), g)
    PROVE  \A ids : ids \subseteq E /\ ids \subseteq F => f[ids] = g[ids]
<1>0. PICK bad : bad = {s \in SUBSET E : s \subseteq F /\ f[s] # g[s]}
  OBVIOUS
<1> SUFFICES ASSUME bad # {} PROVE FALSE
  BY <1>0
<1>1. IsFiniteSet(E) /\ bad \subseteq SUBSET E
  BY <1>0, FS_Subset DEF Recorded
<1>2. PICK s \in bad : \A t \in bad : t \subseteq s => t = s
  BY <1>1, LeastSet
<1>3. s \subseteq E /\ s \subseteq F /\ f[s] # g[s] /\ s # {}
  BY <1>0, <1>2 DEF Replays, Part
<1> DEFINE n == Latest(trade, s)
<1>4. n \in s /\ Latest(Part(trade, E), s) = n /\ Latest(Part(trade, F), s) = n
  BY <1>3, LatestOfPart
<1>5. f[s] = Apply(f[s \ {n}], trade[n]) /\ g[s] = Apply(g[s \ {n}], trade[n])
  <2>1. s \in SUBSET E /\ s \in SUBSET F
    BY <1>3
  <2>2. Part(trade, E)[n] = trade[n] /\ Part(trade, F)[n] = trade[n]
    BY <1>4, <2>1 DEF Part
  <2>3. DOMAIN Part(trade, E) = E /\ DOMAIN Part(trade, F) = F
    BY DEF Part
  <2>4. f[s] = Apply(f[s \ {Latest(Part(trade, E), s)}], Part(trade, E)[Latest(Part(trade, E), s)])
    BY <1>3, <2>1, <2>3 DEF Replays
  <2>5. g[s] = Apply(g[s \ {Latest(Part(trade, F), s)}], Part(trade, F)[Latest(Part(trade, F), s)])
    BY <1>3, <2>1, <2>3 DEF Replays
  <2> HIDE DEF n
  <2> QED
    BY <1>4, <2>2, <2>4, <2>5
<1>6. f[s \ {n}] = g[s \ {n}]
  <2>1. s \ {n} \notin bad /\ s \ {n} \in SUBSET E /\ s \ {n} \subseteq F
    BY <1>2, <1>3, <1>4
  <2> QED
    BY <1>0, <2>1
<1> QED
  BY <1>3, <1>5, <1>6

\* Every finite set of transactions can be replayed.
LEMMA ReplayExists ==
    ASSUME NEW D, NEW trade, Recorded(D, trade)
    PROVE  \A ids \in SUBSET D : \E f : Replays(Part(trade, ids), f)
<1>0. PICK bad : bad = {s \in SUBSET D : ~\E f : Replays(Part(trade, s), f)}
  OBVIOUS
<1> SUFFICES ASSUME bad # {} PROVE FALSE
  BY <1>0
<1>1. PICK s \in bad : \A t \in bad : t \subseteq s => t = s
  <2>1. IsFiniteSet(D) /\ bad \subseteq SUBSET D
    BY <1>0 DEF Recorded
  <2> QED
    BY <2>1, LeastSet
<1>s. s \subseteq D /\ ~\E f : Replays(Part(trade, s), f)
  BY <1>0, <1>1
<1> DEFINE h(u) == CHOOSE f : Replays(Part(trade, u), f)
           val(u) == IF u = {} THEN Exactly(0)
                     ELSE Apply(h(u \ {Latest(trade, u)})[u \ {Latest(trade, u)}], trade[Latest(trade, u)])
           whole == [u \in SUBSET s |-> val(u)]
<1>2. ASSUME NEW u \in SUBSET s, u # s PROVE Replays(Part(trade, u), h(u))
  <2>1. \E f : Replays(Part(trade, u), f)
    BY <1>0, <1>1, <1>s, <1>2
  <2> QED
    BY <2>1
<1>3. ASSUME NEW u \in SUBSET s, u # s PROVE h(u)[u] = whole[u]
  <2>0. Replays(Part(trade, u), h(u)) /\ DOMAIN Part(trade, u) = u /\ u \subseteq D
    BY <1>s, <1>2, <1>3 DEF Part
  <2>1. CASE u = {}
    <3> HIDE DEF h
    <3> QED
    BY <2>0, <2>1 DEF Replays
  <2>2. CASE u # {}
    <3> DEFINE n == Latest(trade, u)
    <3>1. n \in u /\ Latest(Part(trade, u), u) = n
      BY <2>0, <2>2, LatestOfPart
    <3>2. Part(trade, u)[n] = trade[n]
      BY <3>1 DEF Part
    <3>3. h(u)[u] = Apply(h(u)[u \ {n}], trade[n])
      <4> HIDE DEF h, n
      <4> QED
        BY <2>0, <2>2, <3>1, <3>2 DEF Replays
    <3>4. u \ {n} \in SUBSET s /\ u \ {n} # s
      BY <1>3, <3>1
    <3>5. Replays(Part(trade, u \ {n}), h(u \ {n}))
      BY <1>2, <3>4
    <3>6. h(u)[u \ {n}] = h(u \ {n})[u \ {n}]
      <4> HIDE DEF h, n
      <4>1. u \ {n} \subseteq D /\ u \ {n} \subseteq u /\ u \ {n} \subseteq u \ {n}
        BY <2>0
      <4> QED
        BY <2>0, <3>5, <4>1, ReplaysAgree
    <3> HIDE DEF h
    <3> QED
      BY <1>3, <2>2, <3>3, <3>6
  <2> QED
    BY <2>1, <2>2
<1>4. ASSUME NEW u \in SUBSET s
      PROVE  whole[u] = IF u = {} THEN Exactly(0)
                        ELSE LET n == Latest(Part(trade, s), u)
                             IN  Apply(whole[u \ {n}], Part(trade, s)[n])
  <2>1. CASE u = {}
    <3> HIDE DEF h
    <3> QED
      BY <2>1
  <2>2. CASE u # {}
    <3> DEFINE n == Latest(trade, u)
    <3>1. n \in u /\ Latest(Part(trade, s), u) = n
      BY <1>s, <2>2, LatestOfPart
    <3>2. Part(trade, s)[n] = trade[n]
      BY <3>1 DEF Part
    <3>3. u \ {n} \in SUBSET s /\ u \ {n} # s
      BY <3>1
    <3>4. h(u \ {n})[u \ {n}] = whole[u \ {n}]
      BY <1>3, <3>3
    <3>5. whole[u] = Apply(h(u \ {n})[u \ {n}], trade[n])
      <4> HIDE DEF h
      <4> QED
        BY <2>2
    <3> HIDE DEF whole, h, n
    <3> QED
      BY <2>2, <3>1, <3>2, <3>4, <3>5 DEF n
  <2> QED
    BY <2>1, <2>2
<1>5. Replays(Part(trade, s), whole)
  <2>1. whole = [u \in SUBSET s |-> whole[u]] /\ DOMAIN Part(trade, s) = s
    BY DEF Part
  <2> HIDE DEF whole
  <2> QED
    BY <1>4, <2>1 DEF Replays
<1> QED
  BY <1>s, <1>5

\* What a replay computes: nothing from no transactions, and otherwise the
\* latest applied to what the others give.
LEMMA ReplayStep ==
    ASSUME NEW D, NEW trade, Recorded(D, trade)
    PROVE  QuantityAfter(trade) =
               IF D = {} THEN Exactly(0)
               ELSE LET n == Latest(trade, D)
                    IN  Apply(QuantityAfter(Part(trade, D \ {n})), trade[n])
<1> DEFINE h(u) == CHOOSE f : Replays(Part(trade, u), f)
<1>1. ASSUME NEW u, u \subseteq D
      PROVE  /\ Replays(Part(trade, u), h(u))
             /\ QuantityAfter(Part(trade, u)) = h(u)[u]
  <2>1. \E f : Replays(Part(trade, u), f)
    BY <1>1, ReplayExists
  <2>2. DOMAIN Part(trade, u) = u
    BY DEF Part
  <2>3. Replays(Part(trade, u), h(u))
    BY <2>1
  <2>4. QuantityAfter(Part(trade, u)) = h(u)[u]
    BY <2>2 DEF QuantityAfter, Replays
  <2> QED
    BY <2>3, <2>4
<1>2. Part(trade, D) = trade /\ DOMAIN trade = D
  BY DEF Part, Recorded
<1>3. CASE D = {}
  <2> HIDE DEF h
  <2> QED
    BY <1>1, <1>2, <1>3 DEF Replays
<1>4. CASE D # {}
  <2> DEFINE n == Latest(trade, D)
  <2>1. n \in D
    BY <1>4, LatestOfPart
  <2>2. h(D)[D] = Apply(h(D)[D \ {n}], trade[n])
    <3> HIDE DEF h, n
    <3>1. Replays(trade, h(D))
      BY <1>1, <1>2
    <3> QED
      BY <1>2, <1>4, <3>1 DEF Replays, n
  <2>3. h(D)[D \ {n}] = h(D \ {n})[D \ {n}]
    <3> HIDE DEF h, n
    <3>1. D \ {n} \subseteq D /\ D \ {n} \subseteq D \ {n} /\ D \subseteq D
      OBVIOUS
    <3>2. Replays(Part(trade, D), h(D)) /\ Replays(Part(trade, D \ {n}), h(D \ {n}))
      BY <1>1, <3>1
    <3> QED
      BY <3>1, <3>2, ReplaysAgree
  <2>4. QuantityAfter(trade) = h(D)[D] /\ QuantityAfter(Part(trade, D \ {n})) = h(D \ {n})[D \ {n}]
    BY <1>1, <1>2
  <2> HIDE DEF h
  <2> QED
    BY <1>4, <2>2, <2>3, <2>4
<1> QED
  BY <1>3, <1>4

\* A replay gives a quantity or is refused.
LEMMA ReplayType ==
    ASSUME NEW D, NEW trade, Recorded(D, trade)
    PROVE  QuantityAfter(trade) \in Fraction \cup {Refused}
<1>1. PICK bad : bad = {s \in SUBSET D : QuantityAfter(Part(trade, s)) \notin Fraction \cup {Refused}}
  OBVIOUS
<1>2. ASSUME bad # {} PROVE FALSE
  <2>1. IsFiniteSet(D) /\ bad \subseteq SUBSET D
    BY <1>1 DEF Recorded
  <2>2. PICK s \in bad : \A t \in bad : t \subseteq s => t = s
    BY <1>2, <2>1, LeastSet
  <2>3. s \subseteq D /\ Recorded(s, Part(trade, s))
    BY <2>1, <2>2, FS_Subset DEF Recorded, Part
  <2> DEFINE n == Latest(Part(trade, s), s)
  <2>4. CASE s = {}
    BY <1>1, <2>2, <2>3, <2>4, ReplayStep, ExactlyType
  <2>5. CASE s # {}
    <3>1. n \in s
      <4>1. s \subseteq s
        OBVIOUS
      <4> QED
        BY <2>3, <2>5, <4>1, LatestOfPart
    <3>2. Part(Part(trade, s), s \ {n}) = Part(trade, s \ {n})
      BY DEF Part
    <3>3. s \ {n} \notin bad
      BY <2>2, <3>1
    <3>4. QuantityAfter(Part(trade, s \ {n})) \in Fraction \cup {Refused}
      BY <1>1, <2>3, <3>3
    <3>5. Part(trade, s)[n] \in Trade
      BY <2>3, <3>1 DEF Recorded
    <3>6. QuantityAfter(Part(trade, s)) = Apply(QuantityAfter(Part(trade, s \ {n})), Part(trade, s)[n])
      BY <2>3, <2>5, <3>2, ReplayStep
    <3>7. Apply(QuantityAfter(Part(trade, s \ {n})), Part(trade, s)[n]) \in Fraction \cup {Refused}
      <4> HIDE DEF n
      <4> QED
        BY <3>4, <3>5, ApplyType
    <3> QED
      BY <1>1, <2>2, <3>6, <3>7
  <2> QED
    BY <2>4, <2>5
<1>3. Part(trade, D) = trade
  BY DEF Part, Recorded
<1> QED
  BY <1>1, <1>2, <1>3

\* A transaction that none on record comes after is the last of a replay.
LEMMA AppliedLast ==
    ASSUME NEW D, NEW n, NEW trade, Recorded(D \cup {n}, trade), n \notin D,
           \A m \in D : ~Before(trade, n, m)
    PROVE  QuantityAfter(trade) = Apply(QuantityAfter(Part(trade, D)), trade[n])
<1> DEFINE E == D \cup {n}
<1>1. IsLatest(trade, E, n)
  <2>1. \A m \in D : Before(trade, m, n)
    <3> SUFFICES ASSUME NEW m \in D PROVE Before(trade, m, n)
      OBVIOUS
    <3>1. m \in E /\ n \in E /\ m # n /\ ~Before(trade, n, m)
      OBVIOUS
    <3> HIDE DEF E
    <3> QED
      BY <3>1, BeforeOrders DEF E
  <2> QED
    BY <2>1 DEF IsLatest
<1>2. E \subseteq E /\ E # {} /\ E \ {n} = D
  OBVIOUS
<1> HIDE DEF E
<1>3. Latest(trade, E) = n
  BY <1>1, <1>2, LatestIsTheOne DEF E
<1> QED
  BY <1>2, <1>3, ReplayStep DEF E

-----------------------------------------------------------------------------
(* The invariant.                                                          *)

\* What a request has computed is what the engine, or a replay of the list,
\* gives from what it read.
Sound(n) ==
    LET r == request[n]
    IN  /\ r.at = "listed" => r.op = "delete"
        /\ r.op \in {"create", "drop"} => r.at = "ended"
        /\ \A m \in r.listed : m \in DOMAIN request /\ request[m].op = "record"
        /\ r.op = "record" /\ r.at = "computed" =>
              r.quantity = Apply(Exactly(Shown(r.read)), r.trade)
        /\ r.op = "delete" /\ r.at \in {"listed", "computed"} =>
              r.quantity = Replay(r.listed \ {r.target})

\* What is on record was recorded by a request that is over.
HistoryIsPast == \A n \in history : request[n].op = "record" /\ request[n].at = "ended"

\* Without a disturbance there is a holding for every history.
HistoryHasHolding == disturbed \/ holding # Nothing \/ history = {}

IInv ==
    /\ TypeOK
    /\ \A n \in DOMAIN request : Sound(n)
    /\ HistoryIsPast
    /\ SyncUnlessDisturbed
    /\ HistoryHasHolding

\* A step begins a request or changes one; the trades stay as they were.
Kept ==
    /\ DOMAIN request \subseteq DOMAIN request'
    /\ \A m \in DOMAIN request :
          /\ request'[m].trade = request[m].trade
          /\ request'[m].op = request[m].op
          /\ request'[m].target = request[m].target
          /\ request[m].at = "ended" => request'[m] = request[m]

LEMMA RequestsAreNumbered ==
    ASSUME TypeOK
    PROVE  /\ DOMAIN request = 1 .. Len(request)
           /\ Len(request) \in Nat
           /\ \A n \in DOMAIN request : n \in Ids /\ request[n] \in Request
  BY RequestsAssumption DEF TypeOK, Ids

\* A request begun is the last of the sequence, the others stay.
LEMMA BeginsLast ==
    ASSUME TypeOK, CanBegin, NEW op \in Ops, NEW at \in {"begun", "ended"},
           NEW t \in Trade, NEW target \in Ids \cup {0},
           Begin(op, at, t, target)
    PROVE  /\ request' \in Seq(Request) /\ Len(request') \leq Requests
           /\ DOMAIN request' = DOMAIN request \cup {Len(request) + 1}
           /\ Len(request) + 1 \in Ids /\ Len(request) + 1 \notin DOMAIN request
           /\ \A n \in DOMAIN request : request'[n] = request[n]
           /\ request'[Len(request) + 1] =
                 [op |-> op, at |-> at, trade |-> t, target |-> target,
                  read |-> Nothing, listed |-> {}, quantity |-> Exactly(0)]
<1> DEFINE new == [op |-> op, at |-> at, trade |-> t, target |-> target,
                   read |-> Nothing, listed |-> {}, quantity |-> Exactly(0)]
<1>1. new \in Request
  BY ExactlyType DEF Request
<1>2. request \in Seq(Request) /\ Len(request) \in Nat /\ DOMAIN request = 1 .. Len(request)
  BY DEF TypeOK
<1>3. request' = Append(request, new)
  BY DEF Begin
<1> HIDE DEF new
<1>4. /\ request' \in Seq(Request) /\ Len(request') = Len(request) + 1
      /\ \A n \in 1 .. Len(request) : request'[n] = request[n]
      /\ request'[Len(request) + 1] = new
      /\ DOMAIN request' = 1 .. Len(request) + 1
  BY <1>1, <1>2, <1>3
<1>5. Len(request) + 1 \leq Requests
  BY <1>2, RequestsAssumption DEF CanBegin
<1> QED
  BY <1>2, <1>4, <1>5, RequestsAssumption DEF new, Ids

\* A request changed leaves the others as they were.
LEMMA ChangesOne ==
    ASSUME TypeOK, NEW n \in DOMAIN request, NEW r \in Request,
           request' = [request EXCEPT ![n] = r]
    PROVE  /\ request' \in Seq(Request) /\ Len(request') \leq Requests
           /\ DOMAIN request' = DOMAIN request
           /\ request'[n] = r
           /\ \A m \in DOMAIN request \ {n} : request'[m] = request[m]
<1>1. request \in Seq(Request) /\ Len(request) \leq Requests /\ DOMAIN request = 1 .. Len(request)
  BY DEF TypeOK
<1>2. request' \in Seq(Request) /\ Len(request') = Len(request)
  BY <1>1
<1> QED
  BY <1>1, <1>2

\* What is on record can be replayed.
LEMMA RecordIsRecorded ==
    ASSUME IInv, NEW ids, ids \subseteq DOMAIN request, \A n \in ids : request[n].op = "record"
    PROVE  Recorded(ids, Trades(ids))
<1>1. DOMAIN request = 1 .. Len(request) /\ Len(request) \in Nat
  BY RequestsAreNumbered DEF IInv
<1>2. IsFiniteSet(1 .. Len(request))
  BY <1>1, FS_Interval
<1>3. IsFiniteSet(ids) /\ ids \subseteq Nat
  BY <1>1, <1>2, FS_Subset
<1>4. \A n \in ids : Stored(request[n].trade) \in Trade
  <2>1. \A n \in ids : request[n].trade \in Trade
    BY RequestsAreNumbered DEF IInv, Request
  <2> QED
    BY <2>1, StoredType
<1> QED
  BY <1>3, <1>4 DEF Recorded, Trades

LEMMA ReplayStays ==
    ASSUME Kept, NEW ids, ids \subseteq DOMAIN request
    PROVE  QuantityAfter([n \in ids |-> Stored(request'[n].trade)]) = Replay(ids)
<1>1. [n \in ids |-> Stored(request'[n].trade)] = [n \in ids |-> Stored(request[n].trade)]
  BY DEF Kept
<1> QED
  BY <1>1 DEF Replay, Trades

LEMMA SoundStays ==
    ASSUME IInv, Kept, NEW n \in DOMAIN request, request'[n] = request[n]
    PROVE  Sound(n)'
<1>1. Sound(n)
  BY DEF IInv
<1>2. \A m \in request[n].listed : m \in DOMAIN request' /\ request'[m].op = "record"
  BY <1>1 DEF Sound, Kept
<1>3. request[n].listed \ {request[n].target} \subseteq DOMAIN request
  BY <1>1 DEF Sound
<1>4. QuantityAfter([k \in request[n].listed \ {request[n].target} |-> Stored(request'[k].trade)])
        = Replay(request[n].listed \ {request[n].target})
  BY <1>3, ReplayStays
<1>5. Replay(request[n].listed \ {request[n].target})' = Replay(request[n].listed \ {request[n].target})
  BY <1>4 DEF Replay, Trades
<1> QED
  BY <1>1, <1>2, <1>5 DEF Sound

\* A step that changes neither record nor holding.
LEMMA QuietStep ==
    ASSUME IInv, Kept, TypeOK', \A n \in DOMAIN request' : Sound(n)',
           UNCHANGED <<history, holding, disturbed>>
    PROVE  IInv'
<1>1. HistoryIsPast'
  BY DEF IInv, HistoryIsPast, Kept, TypeOK
<1>2. Replay(history)' = Replay(history)
  <2>1. history \subseteq DOMAIN request
    BY DEF IInv, TypeOK
  <2>2. QuantityAfter([k \in history |-> Stored(request'[k].trade)]) = Replay(history)
    BY <2>1, ReplayStays
  <2> QED
    BY <2>2 DEF Replay, Trades
<1>3. SyncUnlessDisturbed'
  BY <1>2 DEF IInv, SyncUnlessDisturbed, InSync, Shown
<1>4. HistoryHasHolding'
  BY DEF IInv, HistoryHasHolding
<1> QED
  BY <1>1, <1>3, <1>4 DEF IInv

\* A request that begins has neither read nor listed anything.
LEMMA BegunIsSound ==
    ASSUME IInv, CanBegin, NEW op \in Ops, NEW at \in {"begun", "ended"},
           NEW t \in Trade, NEW target \in Ids \cup {0},
           Begin(op, at, t, target),
           op \in {"create", "drop"} => at = "ended"
    PROVE  /\ Kept
           /\ \A n \in DOMAIN request' : Sound(n)'
           /\ request' \in Seq(Request) /\ Len(request') \leq Requests
           /\ DOMAIN request' = DOMAIN request \cup {Len(request) + 1}
           /\ Len(request) + 1 \in Ids
<1>0. PICK k : k = Len(request) + 1
  OBVIOUS
<1>1. /\ request' \in Seq(Request) /\ Len(request') \leq Requests
      /\ DOMAIN request' = DOMAIN request \cup {k}
      /\ k \in Ids /\ k \notin DOMAIN request
      /\ \A n \in DOMAIN request : request'[n] = request[n]
      /\ request'[k] = [op |-> op, at |-> at, trade |-> t, target |-> target,
                        read |-> Nothing, listed |-> {}, quantity |-> Exactly(0)]
  BY <1>0, BeginsLast DEF IInv
<1>2. Kept
  BY <1>1 DEF Kept
<1>3. \A n \in DOMAIN request : Sound(n)'
  BY <1>1, <1>2, SoundStays
<1>4. Sound(k)'
  <2>1. /\ request'[k].op = op /\ request'[k].at = at /\ request'[k].trade = t
        /\ request'[k].listed = {}
    BY <1>1
  <2>2. at \notin {"listed", "computed"}
    OBVIOUS
  <2> QED
    BY <2>1, <2>2 DEF Sound
<1>5. \A n \in DOMAIN request' : Sound(n)'
  BY <1>1, <1>3, <1>4
<1> QED
  BY <1>0, <1>1, <1>2, <1>5

\* A request that computes has read what is there.
LEMMA ComputesSoundly ==
    ASSUME IInv, NEW n \in DOMAIN request, request[n].at = "begun",
           NEW at \in {"listed", "computed"}, NEW read \in Holding \cup {Nothing},
           NEW quantity \in Fraction \cup {Refused}, Computes(n, at, read, quantity),
           \/ /\ request[n].op = "record" /\ at = "computed"
              /\ quantity = Apply(Exactly(Shown(read)), request[n].trade)
           \/ /\ request[n].op = "delete" /\ at = "listed"
              /\ quantity = Replay(history \ {request[n].target})
    PROVE  IInv'
<1>0. PICK r : r = [request[n] EXCEPT !.at = at, !.read = read, !.listed = history, !.quantity = quantity]
  OBVIOUS
<1>1. request[n] \in Request /\ history \subseteq Ids /\ history \subseteq DOMAIN request /\ TypeOK
  BY RequestsAreNumbered DEF IInv, TypeOK
<1>2. /\ r \in Request
      /\ r.op = request[n].op /\ r.trade = request[n].trade /\ r.target = request[n].target
      /\ r.at = at /\ r.read = read /\ r.listed = history /\ r.quantity = quantity
  BY <1>0, <1>1 DEF Computes, Request
<1>3. /\ request' = [request EXCEPT ![n] = r]
      /\ UNCHANGED <<history, holding, disturbed>>
  BY <1>0 DEF Computes
<1>4. /\ request' \in Seq(Request) /\ Len(request') \leq Requests
      /\ DOMAIN request' = DOMAIN request
      /\ request'[n] = r
      /\ \A m \in DOMAIN request \ {n} : request'[m] = request[m]
  BY <1>1, <1>2, <1>3, ChangesOne
<1>5. Kept
  BY <1>2, <1>4 DEF Kept
<1>6. Sound(n)'
  <2>1. Sound(n) /\ \A m \in history : request[m].op = "record"
    BY DEF IInv, HistoryIsPast
  <2>2. QuantityAfter([k \in history \ {request[n].target} |-> Stored(request'[k].trade)])
          = Replay(history \ {request[n].target})
    BY <1>1, <1>5, ReplayStays
  <2>3. \A m \in history : m \in DOMAIN request' /\ request'[m].op = "record"
    BY <1>1, <1>5, <2>1 DEF Kept
  <2> QED
    BY <1>2, <1>4, <2>1, <2>2, <2>3 DEF Sound, Replay, Trades
<1>7. \A m \in DOMAIN request' : Sound(m)'
  BY <1>4, <1>5, <1>6, SoundStays
<1>8. TypeOK'
  BY <1>1, <1>3, <1>4 DEF TypeOK
<1> QED
  BY <1>3, <1>5, <1>7, <1>8, QuietStep

\* A request that ends keeps its trade and nothing that it has read.
LEMMA EndsSoundly ==
    ASSUME IInv, NEW n \in DOMAIN request, request[n].at # "ended", Ends(n)
    PROVE  /\ Kept
           /\ \A m \in DOMAIN request' : Sound(m)'
           /\ request' \in Seq(Request) /\ Len(request') \leq Requests
           /\ DOMAIN request' = DOMAIN request
           /\ request'[n].at = "ended"
<1>0. PICK r : r = [request[n] EXCEPT !.at = "ended", !.read = Nothing, !.listed = {}, !.quantity = Exactly(0)]
  OBVIOUS
<1>1. request[n] \in Request /\ TypeOK
  BY RequestsAreNumbered DEF IInv
<1>2. /\ r \in Request
      /\ r.op = request[n].op /\ r.trade = request[n].trade /\ r.target = request[n].target
      /\ r.at = "ended" /\ r.listed = {}
  BY <1>0, <1>1, ExactlyType DEF Request
<1>3. request' = [request EXCEPT ![n] = r]
  BY <1>0 DEF Ends
<1>4. /\ request' \in Seq(Request) /\ Len(request') \leq Requests
      /\ DOMAIN request' = DOMAIN request
      /\ request'[n] = r
      /\ \A m \in DOMAIN request \ {n} : request'[m] = request[m]
  BY <1>1, <1>2, <1>3, ChangesOne
<1>5. Kept
  BY <1>2, <1>4 DEF Kept
<1>6. Sound(n)'
  BY <1>2, <1>4 DEF IInv, Sound
<1> QED
  BY <1>2, <1>4, <1>5, <1>6, SoundStays

LEMMA ShownType ==
    ASSUME TypeOK
    PROVE  Shown(holding) \in Nat
  BY DEF TypeOK, Shown, Holding

LEMMA ReadStep ==
    ASSUME IInv, NEW n \in DOMAIN request, ReadHolding(n)
    PROVE  IInv'
<1>1. holding \in Holding \cup {Nothing} /\ Shown(holding) \in Nat
  BY ShownType DEF IInv, TypeOK
<1>2. Apply(Exactly(Shown(holding)), request[n].trade) \in Fraction \cup {Refused}
  <2>1. request[n].trade \in Trade
    BY RequestsAreNumbered DEF IInv, Request
  <2> QED
    BY <1>1, <2>1, ExactlyType, ApplyType
<1> QED
  BY <1>1, <1>2, ComputesSoundly DEF ReadHolding

LEMMA ListStep ==
    ASSUME IInv, NEW n \in DOMAIN request, ListRemaining(n)
    PROVE  IInv'
<1>0. PICK ids : ids = history \ {request[n].target}
  OBVIOUS
<1>1. ids \subseteq DOMAIN request /\ \A m \in ids : request[m].op = "record"
  BY <1>0 DEF IInv, HistoryIsPast, TypeOK
<1>2. Replay(ids) \in Fraction \cup {Refused}
  BY <1>1, RecordIsRecorded, ReplayType DEF Replay
<1> QED
  BY <1>0, <1>2, ComputesSoundly DEF ListRemaining

LEMMA FindStep ==
    ASSUME IInv, NEW n \in DOMAIN request, FindHolding(n)
    PROVE  IInv'
<1>0. PICK r : r = [request[n] EXCEPT !.at = "computed", !.read = holding]
  OBVIOUS
<1>1. request[n] \in Request /\ TypeOK /\ Sound(n) /\ request[n].at = "listed"
  BY RequestsAreNumbered DEF IInv, FindHolding
<1>2. /\ r \in Request
      /\ r.op = request[n].op /\ r.trade = request[n].trade /\ r.target = request[n].target
      /\ r.at = "computed" /\ r.listed = request[n].listed /\ r.quantity = request[n].quantity
  BY <1>0, <1>1 DEF Request, TypeOK
<1>3. request' = [request EXCEPT ![n] = r] /\ UNCHANGED <<history, holding, disturbed>>
  BY <1>0 DEF FindHolding
<1>4. /\ request' \in Seq(Request) /\ Len(request') \leq Requests
      /\ DOMAIN request' = DOMAIN request
      /\ request'[n] = r
      /\ \A m \in DOMAIN request \ {n} : request'[m] = request[m]
  BY <1>1, <1>2, <1>3, ChangesOne
<1>5. Kept
  BY <1>1, <1>2, <1>4 DEF Kept
<1>6. Sound(n)'
  <2>1. /\ request[n].listed \ {request[n].target} \subseteq DOMAIN request
        /\ \A m \in request[n].listed : m \in DOMAIN request' /\ request'[m].op = "record"
    BY <1>1, <1>5 DEF Sound, Kept
  <2>2. QuantityAfter([k \in request[n].listed \ {request[n].target} |-> Stored(request'[k].trade)])
          = Replay(request[n].listed \ {request[n].target})
    BY <1>5, <2>1, ReplayStays
  <2> QED
    BY <1>1, <1>2, <1>4, <2>1, <2>2 DEF Sound, Replay, Trades
<1>7. \A m \in DOMAIN request' : Sound(m)'
  BY <1>4, <1>5, <1>6, SoundStays
<1>8. TypeOK'
  BY <1>1, <1>3, <1>4 DEF TypeOK
<1> QED
  BY <1>3, <1>5, <1>7, <1>8, QuietStep

\* A request that was not overtaken writes what it computed from what is there.
LEMMA WrittenQuantity ==
    ASSUME TypeOK, NEW n \in DOMAIN request, request[n].read # Nothing,
           SameRow(holding, request[n].read)
    PROVE  /\ Written(request[n]) \in Holding
           /\ Shown(Written(request[n])) \in Nat
           /\ holding = request[n].read =>
                 Shown(Written(request[n])) = Rounded(request[n].quantity)
<1>1. request[n] \in Request /\ holding \in Holding
  BY RequestsAreNumbered DEF SameRow, TypeOK
<1>2. Rounded(request[n].quantity) \in Nat
  BY <1>1, RoundedType DEF Request
<1>3. Written(request[n]) \in Holding
  BY <1>1, <1>2 DEF Written, Holding
<1>4. Shown(Written(request[n])) = Written(request[n]).quantity
  BY <1>3, NothingAssumption DEF Shown
<1>5. holding = request[n].read => Written(request[n]).quantity = Rounded(request[n].quantity)
  BY <1>1, <1>2 DEF Written, Holding
<1> QED
  BY <1>3, <1>4, <1>5 DEF Holding

LEMMA CommitRecordStep ==
    ASSUME IInv, NEW n \in DOMAIN request, CommitRecord(n)
    PROVE  IInv'
<1>1. /\ TypeOK /\ Sound(n) /\ HistoryIsPast /\ SyncUnlessDisturbed
      /\ request[n] \in Request /\ n \in Ids
      /\ request[n].op = "record" /\ request[n].at = "computed"
      /\ SameRow(holding, request[n].read)
      /\ history' = history \cup {n}
      /\ holding' = IF request[n].read = Nothing
                     THEN [row |-> n, quantity |-> Rounded(request[n].quantity)]
                     ELSE Written(request[n])
      /\ disturbed' = (disturbed \/ Overtaken(n) \/ Backdated(n) \/ Rounds(n))
      /\ Ends(n)
  BY RequestsAreNumbered DEF IInv, CommitRecord
<1>2. /\ Kept
      /\ \A m \in DOMAIN request' : Sound(m)'
      /\ request' \in Seq(Request) /\ Len(request') \leq Requests
      /\ DOMAIN request' = DOMAIN request
      /\ request'[n].at = "ended"
  BY <1>1, EndsSoundly
<1>3. holding' \in Holding
  BY <1>1, WrittenQuantity, RoundedType DEF Holding, Request
<1>4. TypeOK'
  BY <1>1, <1>2, <1>3 DEF TypeOK
<1>5. HistoryIsPast'
  BY <1>1, <1>2 DEF HistoryIsPast, Kept, TypeOK
<1>6. SyncUnlessDisturbed'
  <2> SUFFICES ASSUME ~disturbed' PROVE InSync'
    BY DEF SyncUnlessDisturbed
  <2>1. ~disturbed /\ holding = request[n].read /\ history = request[n].listed
        /\ ~Backdated(n) /\ ~Rounds(n)
    BY <1>1, <1>4 DEF Overtaken, TypeOK
  <2>2. Shown(holding') = Rounded(request[n].quantity)
    <3>1. CASE request[n].read = Nothing
      BY <1>1, <1>3, <3>1, NothingAssumption DEF Shown
    <3>2. CASE request[n].read # Nothing
      BY <1>1, <2>1, <3>2, WrittenQuantity
    <3> QED
      BY <3>1, <3>2
  <2>3. /\ request[n].quantity = Apply(Replay(history), request[n].trade)
        /\ request[n].quantity = Exactly(Shown(holding'))
        /\ request[n].trade = Stored(request[n].trade)
    BY <1>1, <2>1, <2>2 DEF Sound, SyncUnlessDisturbed, InSync, Rounds
  <2>4. PICK ids : ids = history \cup {n}
    OBVIOUS
  <2>5. ids \subseteq DOMAIN request /\ n \notin history /\ \A m \in ids : request[m].op = "record"
    BY <1>1, <2>4 DEF HistoryIsPast, TypeOK
  <2>6. PICK trade : trade = Trades(ids)
    OBVIOUS
  <2>7. Recorded(history \cup {n}, trade)
    BY <2>4, <2>5, <2>6, RecordIsRecorded
  <2>8. \A m \in history : ~Before(trade, n, m)
    BY <2>1, <2>4, <2>5, <2>6 DEF Backdated, Before, Trades
  <2>9. Part(trade, history) = Trades(history) /\ trade[n] = Stored(request[n].trade)
    BY <2>4, <2>6 DEF Part, Trades
  <2>10. QuantityAfter(trade) = Apply(Replay(history), request[n].trade)
    <3>1. PICK D : D = history
      OBVIOUS
    <3>2. trade[n] = request[n].trade
      BY <2>3, <2>9
    <3>3. QuantityAfter(trade) = Apply(QuantityAfter(Part(trade, D)), trade[n])
      BY <2>5, <2>7, <2>8, <3>1, AppliedLast
    <3> QED
      BY <2>9, <3>1, <3>2, <3>3 DEF Replay
  <2>11. Replay(history)' = QuantityAfter(trade)
    <3>1. QuantityAfter([k \in ids |-> Stored(request'[k].trade)]) = Replay(ids)
      BY <1>2, <2>5, ReplayStays
    <3> QED
      BY <1>1, <2>4, <2>6, <3>1 DEF Replay, Trades
  <2> QED
    BY <2>3, <2>10, <2>11 DEF InSync, Shown
<1>7. HistoryHasHolding'
  BY <1>3, NothingAssumption DEF HistoryHasHolding
<1> QED
  BY <1>2, <1>4, <1>5, <1>6, <1>7 DEF IInv

LEMMA CommitDeleteStep ==
    ASSUME IInv, NEW n \in DOMAIN request, CommitDelete(n)
    PROVE  IInv'
<1>1. /\ TypeOK /\ Sound(n) /\ HistoryIsPast /\ SyncUnlessDisturbed /\ HistoryHasHolding
      /\ request[n] \in Request
      /\ request[n].op = "delete" /\ request[n].at = "computed"
      /\ request[n].read # Nothing => SameRow(holding, request[n].read)
      /\ history' = history \ {request[n].target}
      /\ holding' = IF request[n].read = Nothing THEN holding ELSE Written(request[n])
      /\ disturbed' = (Overtaken(n) \/ Rounds(n) \/ (disturbed /\ holding = Nothing))
      /\ Ends(n)
  BY RequestsAreNumbered DEF IInv, CommitDelete
<1>2. /\ Kept
      /\ \A m \in DOMAIN request' : Sound(m)'
      /\ request' \in Seq(Request) /\ Len(request') \leq Requests
      /\ DOMAIN request' = DOMAIN request
  BY <1>1, EndsSoundly
<1>3. /\ holding' \in Holding \cup {Nothing}
      /\ holding' = Nothing => holding = Nothing
  BY <1>1, WrittenQuantity, NothingAssumption DEF TypeOK
<1>4. TypeOK'
  BY <1>1, <1>2, <1>3 DEF TypeOK
<1>5. HistoryIsPast'
  BY <1>1, <1>2 DEF HistoryIsPast, Kept, TypeOK
<1>6. HistoryHasHolding'
  BY <1>1, <1>3 DEF HistoryHasHolding, TypeOK
<1>7. SyncUnlessDisturbed'
  <2> SUFFICES ASSUME ~disturbed' PROVE InSync'
    BY DEF SyncUnlessDisturbed
  <2>1. /\ holding = request[n].read /\ history = request[n].listed
        /\ holding = Nothing => ~disturbed
        /\ ~Rounds(n)
    BY <1>1 DEF Overtaken, TypeOK
  <2>2. PICK ids : ids = history \ {request[n].target}
    OBVIOUS
  <2>3. Replay(history)' = Replay(ids)
    <3>1. ids \subseteq DOMAIN request
      BY <1>1, <2>2 DEF TypeOK
    <3>2. QuantityAfter([k \in ids |-> Stored(request'[k].trade)]) = Replay(ids)
      BY <1>2, <3>1, ReplayStays
    <3> QED
      BY <1>1, <2>2, <3>2 DEF Replay, Trades
  <2>4. Replay(ids) = Exactly(Shown(holding'))
    <3>1. CASE request[n].read = Nothing
      <4>1. history = {} /\ ids = history /\ holding' = holding
        BY <1>1, <2>1, <2>2, <3>1 DEF HistoryHasHolding
      <4> QED
        BY <1>1, <2>1, <3>1, <4>1 DEF SyncUnlessDisturbed, InSync
    <3>2. CASE request[n].read # Nothing
      <4>1. request[n].quantity = Replay(ids)
        BY <1>1, <2>1, <2>2 DEF Sound
      <4> QED
        BY <1>1, <2>1, <3>2, <4>1, WrittenQuantity DEF Rounds
    <3> QED
      BY <3>1, <3>2
  <2> QED
    BY <2>3, <2>4 DEF InSync, Shown
<1> QED
  BY <1>2, <1>4, <1>5, <1>6, <1>7 DEF IInv

LEMMA RollBackStep ==
    ASSUME IInv, NEW n \in DOMAIN request, RollBack(n)
    PROVE  IInv'
<1>1. /\ Kept
      /\ \A m \in DOMAIN request' : Sound(m)'
      /\ request' \in Seq(Request) /\ Len(request') \leq Requests
      /\ DOMAIN request' = DOMAIN request
  BY EndsSoundly DEF RollBack
<1>2. TypeOK'
  BY <1>1 DEF IInv, TypeOK, RollBack
<1> QED
  BY <1>1, <1>2, QuietStep DEF RollBack

LEMMA NoTradeType == NoTrade \in Trade
  BY DEF NoTrade, Trade, Kinds

LEMMA BeginStep ==
    ASSUME IInv, (\E t \in Asked : BeginRecord(t)) \/ (\E k \in Ids : FindTransaction(k))
    PROVE  IInv'
<1>1. ASSUME NEW op \in {"record", "delete"}, NEW t \in Trade,
             NEW target \in Ids \cup {0}, CanBegin, Begin(op, "begun", t, target), UNCHANGED <<history, holding, disturbed>>
      PROVE  IInv'
  <2>1. op \in Ops /\ op \notin {"create", "drop"}
    BY DEF Ops
  <2>2. /\ Kept
        /\ \A n \in DOMAIN request' : Sound(n)'
        /\ request' \in Seq(Request) /\ Len(request') \leq Requests
        /\ DOMAIN request' = DOMAIN request \cup {Len(request) + 1}
    BY <1>1, <2>1, NoTradeType, BegunIsSound
  <2>3. TypeOK'
    BY <1>1, <2>2 DEF IInv, TypeOK
  <2> QED
    BY <1>1, <2>2, <2>3, QuietStep
<1>2. CASE \E t \in Asked : BeginRecord(t)
  BY <1>1, <1>2, AskedAssumption DEF BeginRecord
<1>3. CASE \E k \in Ids : FindTransaction(k)
  BY <1>1, <1>3, NoTradeType DEF FindTransaction
<1> QED
  BY <1>2, <1>3

\* Holdings changed by hand leave the record, and disturb unless they write
\* what was there.
LEMMA ByHandStep ==
    ASSUME IInv, (\E q \in Quantities : CreateHolding(q)) \/ DeleteHolding
    PROVE  IInv'
<1>1. ASSUME NEW op \in {"create", "drop"}, CanBegin, Begin(op, "ended", NoTrade, 0),
             holding' \in Holding \cup {Nothing}, disturbed' \in BOOLEAN, history' = history,
             disturbed' \/ (~disturbed /\ Shown(holding') = Shown(holding) /\ holding' # Nothing)
      PROVE  IInv'
  <2>1. op \in Ops /\ op # "record"
    BY DEF Ops
  <2>2. /\ Kept
        /\ \A n \in DOMAIN request' : Sound(n)'
        /\ request' \in Seq(Request) /\ Len(request') \leq Requests
        /\ DOMAIN request' = DOMAIN request \cup {Len(request) + 1}
    BY <1>1, <2>1, NoTradeType, BegunIsSound
  <2>3. TypeOK'
    BY <1>1, <2>2 DEF IInv, TypeOK
  <2>4. HistoryIsPast'
    BY <1>1, <2>2 DEF IInv, HistoryIsPast, Kept, TypeOK
  <2>5. Replay(history)' = Replay(history)
    <3>1. history \subseteq DOMAIN request
      BY DEF IInv, TypeOK
    <3>2. QuantityAfter([k \in history |-> Stored(request'[k].trade)]) = Replay(history)
      BY <2>2, <3>1, ReplayStays
    <3> QED
      BY <1>1, <3>2 DEF Replay, Trades
  <2>6. SyncUnlessDisturbed' /\ HistoryHasHolding'
    BY <1>1, <2>5 DEF IInv, SyncUnlessDisturbed, InSync, Shown, HistoryHasHolding
  <2> QED
    BY <2>2, <2>3, <2>4, <2>6 DEF IInv
<1>2. ASSUME NEW q \in Quantities, CreateHolding(q) PROVE IInv'
  <2>1. Column(q) \in Nat /\ TypeOK /\ disturbed \in BOOLEAN
    BY QuantitiesAssumption, ColumnType DEF IInv, TypeOK
  <2>2. Len(request) + 1 \in Ids
    <3>1. Len(request) \in Nat
      BY <2>1, RequestsAreNumbered
    <3> QED
      BY <1>2, <3>1, RequestsAssumption DEF CreateHolding, CanBegin, Ids
  <2>3. holding' \in Holding /\ holding'.quantity = Column(q)
    BY <1>2, <2>1, <2>2 DEF CreateHolding, TypeOK, Holding
  <2>4. holding' # Nothing /\ Shown(holding') = Column(q)
    BY <2>3, NothingAssumption DEF Shown
  <2>5. disturbed' \in BOOLEAN /\ (disturbed' \/ (~disturbed /\ Column(q) = Shown(holding)))
    BY <1>2, <2>1 DEF CreateHolding
  <2> QED
    BY <1>1, <1>2, <2>3, <2>4, <2>5 DEF CreateHolding
<1>3. CASE DeleteHolding
  BY <1>1, <1>3 DEF DeleteHolding
<1> QED
  BY <1>2, <1>3

-----------------------------------------------------------------------------

\* The invariant holds, for any number of requests that overlap in any way.
THEOREM InvariantHolds == Spec => []IInv
<1>1. Init => IInv
  <2> SUFFICES ASSUME Init PROVE IInv
    OBVIOUS
  <2>1. TypeOK /\ DOMAIN request = {}
    <3>1. <<>> \in Seq(Request) /\ Len(<<>>) = 0 /\ DOMAIN <<>> = {}
      OBVIOUS
    <3>2. history = {} /\ holding = Nothing /\ request = <<>> /\ disturbed = FALSE
      BY DEF Init
    <3>3. Len(request) \leq Requests
      BY <3>1, <3>2, RequestsAssumption
    <3> QED
      BY <3>1, <3>2, <3>3 DEF TypeOK
  <2>2. Replay({}) = Exactly(0)
    <3>1. Recorded({}, Trades({}))
      BY FS_EmptySet DEF Recorded, Trades
    <3> QED
      BY <3>1, ReplayStep DEF Replay
  <2> QED
    BY <2>1, <2>2 DEF Init, IInv, HistoryIsPast, SyncUnlessDisturbed, InSync, Shown, HistoryHasHolding
<1>2. ASSUME IInv, [Next]_vars PROVE IInv'
  <2>1. CASE Next
    <3>1. ASSUME NEW n \in DOMAIN request,
                 \/ ReadHolding(n) \/ CommitRecord(n)
                 \/ ListRemaining(n) \/ FindHolding(n) \/ CommitDelete(n)
                 \/ RollBack(n)
          PROVE  IInv'
      BY <1>2, <3>1, ReadStep, CommitRecordStep, ListStep, FindStep, CommitDeleteStep, RollBackStep
    <3> QED
      BY <1>2, <2>1, <3>1, BeginStep, ByHandStep DEF Next
  <2>2. CASE UNCHANGED vars
    <3>1. Kept
      BY <2>2 DEF vars, Kept
    <3>2. TypeOK' /\ \A n \in DOMAIN request' : Sound(n)'
      BY <1>2, <2>2, <3>1, SoundStays DEF vars, IInv, TypeOK
    <3> QED
      BY <1>2, <2>2, <3>1, <3>2, QuietStep DEF vars
  <2> QED
    BY <1>2, <2>1, <2>2
<1> QED
  BY <1>1, <1>2, PTL DEF Spec

\* The holding is what a replay of the record gives, unless since it was last
\* recomputed a request was overtaken, a transaction was recorded with a date
\* before one on record, the holding was changed by hand, or a column rounded.
THEOREM HoldingIsReplay == Spec => []SyncUnlessDisturbed
<1>1. IInv => SyncUnlessDisturbed
  BY DEF IInv
<1> QED
  BY <1>1, InvariantHolds, PTL
=============================================================================
