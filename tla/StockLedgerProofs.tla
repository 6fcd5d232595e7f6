------------------------- MODULE StockLedgerProofs -------------------------
(***************************************************************************)
(* The ledger keeps its two equations for every set of offers, every       *)
(* finite set of orders and every total.  Quantities are counted as sets   *)
(* of units, so the sums over orders become cardinalities, which the       *)
(* theorems on finite sets speak about.                                    *)
(***************************************************************************)
EXTENDS StockLedger, FiniteSetTheorems, TLAPS

\* The units of finitely many orders are finitely many.
LEMMA UnitsFinite ==
    ASSUME NEW S, IsFiniteSet(S), NEW qty \in [Orders -> Nat], S \subseteq Orders
    PROVE  /\ IsFiniteSet(Units(S, qty))
           /\ Cardinality(Units(S, qty)) \in Nat
<1> DEFINE Of(o) == {o} \X (1..qty[o])
           Parts == {Of(o) : o \in S}
           f == [o \in S |-> Of(o)]
<1>1. IsFiniteSet(Parts)
  <2>1. f \in Surjection(S, Parts)
    BY DEF Surjection
  <2> QED BY <2>1, FS_Surjection
<1>2. ASSUME NEW o \in S PROVE IsFiniteSet(Of(o))
  <2>1. qty[o] \in Nat
    OBVIOUS
  <2>2. IsFiniteSet({o})
    BY FS_Singleton
  <2>3. IsFiniteSet(1..qty[o])
    BY <2>1, FS_Interval
  <2> QED BY <2>2, <2>3, FS_Product
<1>3. \A T \in Parts : IsFiniteSet(T)
  BY <1>2
<1>4. IsFiniteSet(UNION Parts)
  <2> HIDE DEF Parts
  <2> QED BY <1>1, <1>3, FS_UNION
<1> QED BY <1>4, FS_CardinalityType DEF Units

\* One more order takes as many units more as its quantity.
LEMMA UnitsAdd ==
    ASSUME NEW S, IsFiniteSet(S), S \subseteq Orders,
           NEW qty \in [Orders -> Nat], NEW o \in Orders \ S
    PROVE  Cardinality(Units(S \cup {o}, qty)) = Cardinality(Units(S, qty)) + qty[o]
<1> DEFINE New == {o} \X (1..qty[o])
<1>1. Units(S \cup {o}, qty) = Units(S, qty) \cup New
  BY DEF Units
<1>2. Units(S, qty) \cap New = {}
  BY DEF Units
<1>3. IsFiniteSet(New) /\ Cardinality(New) = qty[o]
  <2> qty[o] \in Nat
    OBVIOUS
  <2>1. IsFiniteSet({o}) /\ Cardinality({o}) = 1
    BY FS_Singleton
  <2>2. IsFiniteSet(1..qty[o]) /\ Cardinality(1..qty[o]) = qty[o]
    BY FS_Interval
  <2>3. IsFiniteSet(New) /\ Cardinality(New) = 1 * qty[o]
    BY <2>1, <2>2, FS_Product
  <2> QED BY <2>3
<1>4. IsFiniteSet(Units(S, qty)) /\ Cardinality(Units(S, qty)) \in Nat
  BY UnitsFinite
<1>5. Cardinality({}) = 0
  BY FS_EmptySet
<1> HIDE DEF New
<1>6. Cardinality(Units(S, qty) \cup New)
        = Cardinality(Units(S, qty)) + Cardinality(New) - Cardinality(Units(S, qty) \cap New)
  BY <1>3, <1>4, FS_Union
<1>7. qty[o] \in Nat
  OBVIOUS
<1>8. Cardinality(Units(S, qty) \cap New) = 0
  BY <1>2, <1>5
<1>9. Cardinality(Units(S, qty) \cup New) = Cardinality(Units(S, qty)) + qty[o]
  BY <1>3, <1>4, <1>6, <1>7, <1>8
<1> QED BY <1>1, <1>9

\* One order fewer takes as many units fewer as its quantity.
LEMMA UnitsRemove ==
    ASSUME NEW S, IsFiniteSet(S), S \subseteq Orders,
           NEW qty \in [Orders -> Nat], NEW o \in S
    PROVE  /\ Cardinality(Units(S \ {o}, qty)) = Cardinality(Units(S, qty)) - qty[o]
           /\ qty[o] <= Cardinality(Units(S, qty))
<1>1. IsFiniteSet(S \ {o}) /\ S \ {o} \subseteq Orders /\ o \in Orders \ (S \ {o})
  BY FS_RemoveElement
<1>2. (S \ {o}) \cup {o} = S
  OBVIOUS
<1>3. Cardinality(Units((S \ {o}) \cup {o}, qty)) = Cardinality(Units(S \ {o}, qty)) + qty[o]
  BY <1>1, UnitsAdd
<1>4. Cardinality(Units(S \ {o}, qty)) \in Nat
  BY <1>1, UnitsFinite
<1>5. qty[o] \in Nat
  BY <1>1
<1> QED BY <1>2, <1>3, <1>4, <1>5

\* Only the quantities of the orders of S matter.
LEMMA UnitsSame ==
    ASSUME NEW S, NEW qty, NEW qty2, \A o \in S : qty[o] = qty2[o]
    PROVE  Units(S, qty) = Units(S, qty2)
BY DEF Units

----------------------------------------------------------------------------
\* An order that left stage "none" has an offer.
Placed == \A o \in Orders : stage[o] # "none" => offerOf[o] \in Offers

LedgerInv == TypeOK /\ Placed /\ PromisedMatchesHolds /\ StockConserved

LEMMA OrdersInFinite ==
    ASSUME LedgerAssumption, NEW f, NEW stages
    PROVE  IsFiniteSet(OrdersIn(f, stages)) /\ OrdersIn(f, stages) \subseteq Orders
BY FS_Subset DEF OrdersIn, LedgerAssumption

LEMMA QuantityNat ==
    ASSUME LedgerAssumption, TypeOK, NEW f, NEW stages
    PROVE  Quantity(f, stages) \in Nat
BY OrdersInFinite, UnitsFinite DEF Quantity, TypeOK

\* How the quantity of an offer in a set of stages follows an order that
\* enters the set, leaves it, or stays in or out of it.
LEMMA QuantityStep ==
    ASSUME LedgerAssumption, TypeOK, NEW f, NEW stages, NEW o \in Orders,
           stage' \in [Orders -> Stages],
           offerOf' \in [Orders -> Offers \cup {NoOffer}],
           qtyOf' \in [Orders -> Nat],
           \A p \in Orders \ {o} : /\ stage'[p] = stage[p]
                                   /\ offerOf'[p] = offerOf[p]
                                   /\ qtyOf'[p] = qtyOf[p]
    PROVE  /\ o \notin OrdersIn(f, stages) /\ o \in OrdersIn(f, stages)' =>
                  Quantity(f, stages)' = Quantity(f, stages) + qtyOf'[o]
           /\ o \in OrdersIn(f, stages) /\ o \notin OrdersIn(f, stages)' =>
                  /\ Quantity(f, stages)' = Quantity(f, stages) - qtyOf[o]
                  /\ qtyOf[o] <= Quantity(f, stages)
           /\ /\ o \in OrdersIn(f, stages) <=> o \in OrdersIn(f, stages)'
              /\ o \in OrdersIn(f, stages) => qtyOf'[o] = qtyOf[o]
              => Quantity(f, stages)' = Quantity(f, stages)
<1> DEFINE S == OrdersIn(f, stages)
           T == OrdersIn(f, stages)'
<1>1. \A p \in Orders \ {o} : p \in S <=> p \in T
  BY DEF OrdersIn
<1>2. S \subseteq Orders /\ IsFiniteSet(S) /\ T \subseteq Orders
  <2>1. S \subseteq Orders /\ IsFiniteSet(S)
    BY OrdersInFinite
  <2>2. T \subseteq Orders
    BY DEF OrdersIn
  <2> QED BY <2>1, <2>2
<1>3. qtyOf \in [Orders -> Nat]
  BY DEF TypeOK
<1>4. Quantity(f, stages) = Cardinality(Units(S, qtyOf))
  BY DEF Quantity
<1>5. Quantity(f, stages)' = Cardinality(Units(T, qtyOf'))
  BY DEF Quantity, Units
<1> HIDE DEF S, T
<1>6. CASE o \notin S /\ o \in T
  <2>1. T = S \cup {o}
    BY <1>1, <1>2, <1>6
  <2>2. Units(S, qtyOf) = Units(S, qtyOf')
    BY <1>2, <1>6, UnitsSame
  <2>3. Cardinality(Units(S \cup {o}, qtyOf')) = Cardinality(Units(S, qtyOf')) + qtyOf'[o]
    BY <1>2, <1>6, UnitsAdd
  <2> QED BY <1>4, <1>5, <1>6, <2>1, <2>2, <2>3 DEF S, T
<1>7. CASE o \in S /\ o \notin T
  <2>1. T = S \ {o}
    BY <1>1, <1>2, <1>7
  <2>2. Units(T, qtyOf) = Units(T, qtyOf')
    BY <1>2, <1>7, UnitsSame
  <2>3. /\ Cardinality(Units(S \ {o}, qtyOf)) = Cardinality(Units(S, qtyOf)) - qtyOf[o]
        /\ qtyOf[o] <= Cardinality(Units(S, qtyOf))
    BY <1>2, <1>3, <1>7, UnitsRemove
  <2> QED BY <1>4, <1>5, <1>7, <2>1, <2>2, <2>3 DEF S, T
<1>8. CASE (o \in S <=> o \in T) /\ (o \in S => qtyOf'[o] = qtyOf[o])
  <2>1. T = S
    BY <1>1, <1>2, <1>8
  <2>2. Units(S, qtyOf) = Units(S, qtyOf')
    BY <1>2, <1>8, UnitsSame
  <2> QED BY <1>4, <1>5, <1>8, <2>1, <2>2 DEF S, T
<1> QED BY <1>6, <1>7, <1>8 DEF S, T

\* What an order holds is part of what is promised on its offer.
LEMMA HeldWithin ==
    ASSUME LedgerAssumption, LedgerInv, NEW o \in Orders, stage[o] = "held"
    PROVE  offerOf[o] \in Offers /\ qtyOf[o] \in Nat /\ qtyOf[o] <= promised[offerOf[o]]
<1> DEFINE f == offerOf[o]
           S == OrdersIn(f, {"held"})
<1>1. f \in Offers /\ qtyOf \in [Orders -> Nat]
  BY DEF LedgerInv, Placed, TypeOK
<1>2. o \in S /\ IsFiniteSet(S) /\ S \subseteq Orders
  <2>1. o \in S
    BY DEF OrdersIn
  <2> QED BY <2>1, OrdersInFinite
<1>3. promised[f] = Cardinality(Units(S, qtyOf))
  BY <1>1 DEF LedgerInv, PromisedMatchesHolds, Quantity
<1> HIDE DEF f, S
<1>4. qtyOf[o] <= Cardinality(Units(S, qtyOf))
  BY <1>1, <1>2, UnitsRemove
<1> QED BY <1>1, <1>3, <1>4 DEF f

----------------------------------------------------------------------------
LEMMA LedgerInvInit ==
    ASSUME LedgerAssumption, Init PROVE LedgerInv
<1>1. TypeOK /\ Placed
  BY DEF Init, TypeOK, Placed, Stages, LedgerAssumption
<1>2. ASSUME NEW f \in Offers, NEW stages, "none" \notin stages
      PROVE  Quantity(f, stages) = 0
  <2>1. OrdersIn(f, stages) = {}
    BY <1>2 DEF Init, OrdersIn
  <2>2. Units({}, qtyOf) = {}
    BY DEF Units
  <2> QED BY <2>1, <2>2, FS_EmptySet DEF Quantity
<1>3. \A f \in Offers : /\ Quantity(f, {"held"}) = 0
                         /\ Quantity(f, {"held", "sold", "collected"}) = 0
  BY <1>2
<1>4. PromisedMatchesHolds /\ StockConserved
  BY <1>3 DEF PromisedMatchesHolds, StockConserved, Init, LedgerAssumption
<1> QED BY <1>1, <1>4 DEF LedgerInv

\* The abbreviations of the step lemma below.
InHold == {"held"}
InUse == {"held", "sold", "collected"}

LEMMA LedgerInvNext ==
    ASSUME LedgerAssumption, LedgerInv, [Next]_ledgerVars PROVE LedgerInv'
<1> USE DEF LedgerInv
<1>1. \A f \in Offers : /\ promised[f] = Quantity(f, InHold)
                         /\ available[f] + Quantity(f, InUse) = Total[f]
  BY DEF PromisedMatchesHolds, StockConserved, InHold, InUse
<1>2. \A f \in Offers : /\ Quantity(f, InHold) \in Nat
                         /\ Quantity(f, InUse) \in Nat
                         /\ available[f] \in Nat
                         /\ promised[f] \in Nat
                         /\ Total[f] \in Nat
  BY QuantityNat DEF TypeOK, LedgerAssumption
<1>3. SUFFICES /\ TypeOK' /\ Placed'
               /\ \A f \in Offers : /\ promised'[f] = Quantity(f, InHold)'
                                     /\ available'[f] + Quantity(f, InUse)' = Total[f]
  BY DEF PromisedMatchesHolds, StockConserved, InHold, InUse
<1>4. ASSUME NEW o \in Orders, NEW f \in Offers, NEW q \in 1..available[f], Hold(o, f, q)
      PROVE  <1>3!1
  <2>1. TypeOK' /\ Placed'
    BY <1>2, <1>4 DEF Hold, TypeOK, Placed, Stages
  <2>2. \A g \in Offers, stages \in {InHold, InUse} :
           /\ o \notin OrdersIn(g, stages)
           /\ o \in OrdersIn(g, stages)' <=> g = f
    BY <1>4 DEF Hold, TypeOK, OrdersIn, InHold, InUse
  <2>3. \A g \in Offers, stages \in {InHold, InUse} :
           Quantity(g, stages)' = IF g = f THEN Quantity(g, stages) + q ELSE Quantity(g, stages)
    BY <1>4, <2>1, <2>2, QuantityStep DEF Hold, TypeOK
  <2> QED BY <1>1, <1>2, <1>4, <2>1, <2>3 DEF Hold, TypeOK
<1>5. ASSUME NEW o \in Orders, Sell(o) PROVE <1>3!1
  <2> DEFINE f == offerOf[o]
  <2>1. f \in Offers /\ qtyOf[o] \in Nat
    BY <1>5 DEF Sell, Placed, TypeOK
  <2>2. \A g \in Offers :
           /\ o \in OrdersIn(g, InHold) <=> g = f
           /\ o \notin OrdersIn(g, InHold)'
           /\ o \in OrdersIn(g, InUse) <=> o \in OrdersIn(g, InUse)'
    BY <1>5 DEF Sell, TypeOK, OrdersIn, InHold, InUse
  <2>3. stage' \in [Orders -> Stages] /\ UNCHANGED <<offerOf, qtyOf>>
    BY <1>5 DEF Sell, TypeOK, Stages
  <2>4. \A g \in Offers :
           /\ g = f => /\ Quantity(g, InHold)' = Quantity(g, InHold) - qtyOf[o]
                       /\ qtyOf[o] <= Quantity(g, InHold)
           /\ g # f => Quantity(g, InHold)' = Quantity(g, InHold)
           /\ Quantity(g, InUse)' = Quantity(g, InUse)
    BY <1>5, <2>2, <2>3, QuantityStep DEF Sell, TypeOK
  <2>5. TypeOK' /\ Placed'
    BY <1>1, <1>2, <1>5, <2>1, <2>3, <2>4 DEF Sell, TypeOK, Placed
  <2> QED BY <1>1, <1>2, <1>5, <2>1, <2>4, <2>5 DEF Sell, TypeOK
<1>6. ASSUME NEW o \in Orders, Release(o) PROVE <1>3!1
  <2> DEFINE f == offerOf[o]
  <2>1. f \in Offers /\ qtyOf[o] \in Nat
    BY <1>6 DEF Release, Placed, TypeOK
  <2>2. \A g \in Offers, stages \in {InHold, InUse} :
           /\ o \in OrdersIn(g, stages) <=> g = f
           /\ o \notin OrdersIn(g, stages)'
    BY <1>6 DEF Release, TypeOK, OrdersIn, InHold, InUse
  <2>3. stage' \in [Orders -> Stages] /\ UNCHANGED <<offerOf, qtyOf>>
    BY <1>6 DEF Release, TypeOK, Stages
  <2>4. \A g \in Offers, stages \in {InHold, InUse} :
           /\ g = f => /\ Quantity(g, stages)' = Quantity(g, stages) - qtyOf[o]
                       /\ qtyOf[o] <= Quantity(g, stages)
           /\ g # f => Quantity(g, stages)' = Quantity(g, stages)
    BY <1>6, <2>2, <2>3, QuantityStep DEF Release, TypeOK
  <2>5. TypeOK' /\ Placed'
    BY <1>1, <1>2, <1>6, <2>1, <2>3, <2>4 DEF Release, TypeOK, Placed
  <2> QED BY <1>1, <1>2, <1>6, <2>1, <2>4, <2>5 DEF Release, TypeOK
<1>7. ASSUME NEW o \in Orders, TakeBack(o) PROVE <1>3!1
  <2> DEFINE f == offerOf[o]
  <2>1. f \in Offers /\ qtyOf[o] \in Nat
    BY <1>7 DEF TakeBack, Placed, TypeOK
  <2>2. \A g \in Offers :
           /\ o \in OrdersIn(g, InUse) <=> g = f
           /\ o \notin OrdersIn(g, InUse)'
           /\ o \notin OrdersIn(g, InHold) /\ o \notin OrdersIn(g, InHold)'
    BY <1>7 DEF TakeBack, TypeOK, OrdersIn, InHold, InUse
  <2>3. stage' \in [Orders -> Stages] /\ UNCHANGED <<offerOf, qtyOf>>
    BY <1>7 DEF TakeBack, TypeOK, Stages
  <2>4. \A g \in Offers :
           /\ g = f => Quantity(g, InUse)' = Quantity(g, InUse) - qtyOf[o]
           /\ g # f => Quantity(g, InUse)' = Quantity(g, InUse)
           /\ Quantity(g, InHold)' = Quantity(g, InHold)
    BY <1>7, <2>2, <2>3, QuantityStep DEF TakeBack, TypeOK
  <2>5. TypeOK' /\ Placed'
    BY <1>7, <2>1, <2>3 DEF TakeBack, TypeOK, Placed
  <2> QED BY <1>1, <1>2, <1>7, <2>1, <2>4, <2>5 DEF TakeBack, TypeOK
<1>8. ASSUME NEW o \in Orders, HandOver(o) PROVE <1>3!1
  <2>1. stage' \in [Orders -> Stages] /\ UNCHANGED <<available, promised, offerOf, qtyOf>>
    BY <1>8 DEF HandOver, TypeOK, Stages
  <2>2. \A g \in Offers, stages \in {InHold, InUse} :
           o \in OrdersIn(g, stages) <=> o \in OrdersIn(g, stages)'
    BY <1>8 DEF HandOver, TypeOK, OrdersIn, InHold, InUse
  <2>3. \A g \in Offers, stages \in {InHold, InUse} :
           Quantity(g, stages)' = Quantity(g, stages)
    BY <1>8, <2>1, <2>2, QuantityStep DEF HandOver, TypeOK
  <2>4. TypeOK' /\ Placed'
    BY <1>8, <2>1 DEF HandOver, TypeOK, Placed
  <2> QED BY <1>1, <2>1, <2>3, <2>4
<1>9. CASE UNCHANGED ledgerVars
  <2>1. \A g \in Offers, stages \in {InHold, InUse} :
           Quantity(g, stages)' = Quantity(g, stages)
    BY <1>9 DEF ledgerVars, Quantity, OrdersIn, Units
  <2>2. TypeOK' /\ Placed'
    BY <1>9 DEF ledgerVars, TypeOK, Placed
  <2> QED BY <1>1, <1>9, <2>1, <2>2 DEF ledgerVars
<1> QED BY <1>4, <1>5, <1>6, <1>7, <1>8, <1>9 DEF Next

\* The ledger never oversells and never loses a unit.
THEOREM LedgerInvariant == LedgerAssumption => (Spec => []LedgerInv)
<1> SUFFICES ASSUME LedgerAssumption PROVE Spec => []LedgerInv
  OBVIOUS
<1>1. Init => LedgerInv
  BY LedgerInvInit
<1>2. LedgerInv /\ [Next]_ledgerVars => LedgerInv'
  BY LedgerInvNext
<1> QED BY <1>1, <1>2, PTL DEF Spec
============================================================================
