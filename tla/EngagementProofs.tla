---------------------------- MODULE EngagementProofs ----------------------------
(***************************************************************************)
(* What MCEngagement checks on a small instance, for every value of the    *)
(* constants: one section for each component, with the inductive invariant *)
(* its property needs.  A theorem about a component P is stated of the     *)
(* component alone (P!Spec) and of the composition, whose steps are steps  *)
(* of the component or leave it alone (the lemmas ...Moves).               *)
(***************************************************************************)
EXTENDS MCEngagement, FiniteSetTheorems, SequenceTheorems, WellFoundedInduction, TLAPS

----------------------------------------------------------------------------
(* Statistics: the totals of a user, for any number of orders and open transactions. *)

CountedTotals == {Stats!Counted(orders) : orders \in [Orders -> Stats!Stage]}

TxState ==
    [pc: {"idle", "changed", "counted"}, orders: SUBSET Orders, stage: Stats!Stage,
     counted: CountedTotals, late: BOOLEAN]

\* The shape of the values, as far as the argument needs it.
Shape ==
    /\ placed \in [Orders -> Stats!Stage] /\ tx \in [Txs -> TxState]
    /\ stats \in CountedTotals /\ overtaken \in BOOLEAN

\* No order is changed by two open transactions, and an idle one changes none.
Apart ==
    /\ \A t, u \in Txs : t # u => tx[t].orders \cap tx[u].orders = {}
    /\ \A t \in Txs : tx[t].pc = "idle" => tx[t].orders = {}

\* Totals that are not late are those of the orders as the transaction sees them.
CountsRight ==
    \A t \in Txs : tx[t].pc = "counted" /\ ~tx[t].late => tx[t].counted = Stats!Counted(Stats!Seen(t))

TotalsInv == Shape /\ Apart /\ CountsRight /\ Stats!StatisticsRight

----------------------------------------------------------------------------
LEMMA StatsCardinality == ASSUME NEW S PROVE Stats!Cardinality(S) = Cardinality(S)
BY Zenon DEF Stats!Cardinality, Cardinality

LEMMA SeenType == ASSUME Shape, NEW t \in Txs PROVE Stats!Seen(t) \in [Orders -> Stats!Stage]
BY DEF Shape, TxState, Stats!Seen

LEMMA CountedType ==
    ASSUME NEW orders \in [Orders -> Stats!Stage]
    PROVE  Stats!Counted(orders) \in CountedTotals
BY DEF CountedTotals

LEMMA NoTxType == Stats!NoTx \in TxState
<1>1. [o \in Orders |-> "none"] \in [Orders -> Stats!Stage] /\ "none" \in Stats!Stage
  BY DEF Stats!Stage
<1>2. Stats!Counted([o \in Orders |-> "none"]) \in CountedTotals
  BY <1>1, CountedType
<1> HIDE DEF Stats!Counted
<1> QED BY <1>1, <1>2 DEF Stats!NoTx, TxState

LEMMA StatsInit == Stats!Init => TotalsInv
<1> SUFFICES ASSUME Stats!Init PROVE TotalsInv
  OBVIOUS
<1>1. Shape
  <2>1. placed \in [Orders -> Stats!Stage] /\ stats = Stats!Counted(placed)
        /\ tx = [t \in Txs |-> Stats!NoTx] /\ overtaken = FALSE
    BY DEF Stats!Init, Stats!Stage
  <2>2. stats \in CountedTotals
    BY <2>1, CountedType
  <2> QED BY <2>1, <2>2, NoTxType DEF Shape
<1>2. Apart /\ CountsRight /\ Stats!StatisticsRight
  BY DEF Stats!Init, Apart, CountsRight, Stats!StatisticsRight, Stats!NoTx
<1> QED BY <1>1, <1>2 DEF TotalsInv

\* Transaction t is replaced, nothing is committed.
LEMMA TxStep ==
    ASSUME TotalsInv, NEW t \in Txs, NEW new \in TxState, tx' = [tx EXCEPT ![t] = new],
           UNCHANGED <<placed, stats, overtaken>>,
           new.pc = "idle" => new.orders = {},
           \A u \in Txs \ {t} : new.orders \cap tx[u].orders = {},
           new.pc = "counted" /\ ~new.late =>
               new.counted = Stats!Counted([o \in Orders |-> IF o \in new.orders THEN new.stage
                                                       ELSE placed[o]])
    PROVE  TotalsInv'
<1>1. tx \in [Txs -> TxState]
  BY DEF TotalsInv, Shape
<1>2. tx'[t] = new /\ \A u \in Txs \ {t} : tx'[u] = tx[u]
  BY <1>1
<1>3. Shape'
  BY <1>1 DEF TotalsInv, Shape
<1>4. Apart'
  BY <1>2 DEF TotalsInv, Apart
<1>5. CountsRight'
  <2>1. ASSUME NEW u \in Txs, tx'[u].pc = "counted", ~tx'[u].late
        PROVE  tx'[u].counted = Stats!Counted(Stats!Seen(u)')
    <3>1. CASE u = t
      BY <1>2, <2>1, <3>1 DEF Stats!Seen
    <3>2. CASE u # t
      <4>1. Stats!Seen(u)' = Stats!Seen(u)
        BY <1>2, <3>2 DEF Stats!Seen
      <4> QED BY <1>2, <2>1, <3>2, <4>1 DEF TotalsInv, CountsRight
    <3> QED BY <3>1, <3>2
  <2> QED BY <2>1 DEF CountsRight, Stats!Counted, Stats!NumberIn
<1>6. Stats!StatisticsRight'
  BY DEF TotalsInv, Stats!StatisticsRight, Stats!Counted, Stats!NumberIn
<1> QED BY <1>3, <1>4, <1>5, <1>6 DEF TotalsInv

LEMMA TxFields ==
    ASSUME Shape, NEW t \in Txs
    PROVE  /\ tx[t].pc \in {"idle", "changed", "counted"} /\ tx[t].orders \in SUBSET Orders
           /\ tx[t].stage \in Stats!Stage /\ tx[t].late \in BOOLEAN
           /\ tx[t].counted \in CountedTotals
           /\ tx[t] = [pc |-> tx[t].pc, orders |-> tx[t].orders, stage |-> tx[t].stage,
                       counted |-> tx[t].counted, late |-> tx[t].late]
BY DEF Shape, TxState

LEMMA ChangeKeeps ==
    ASSUME TotalsInv, NEW t \in Txs, NEW o \in Orders, NEW stage \in Stats!Stage,
           Stats!ChangeOrder(t, o, stage)
    PROVE  TotalsInv'
<1> DEFINE new == [Stats!NoTx EXCEPT !.pc = "changed", !.orders = {o}, !.stage = stage]
<1>1. new \in TxState /\ new.pc = "changed" /\ new.orders = {o}
  BY NoTxType DEF TxState, Stats!NoTx
<1>2. tx' = [tx EXCEPT ![t] = new] /\ UNCHANGED <<placed, stats, overtaken>>
  BY DEF Stats!ChangeOrder
<1>3. \A u \in Txs \ {t} : {o} \cap tx[u].orders = {}
  BY DEF Stats!ChangeOrder
<1> HIDE DEF new
<1> QED BY <1>1, <1>2, <1>3, TxStep

LEMMA CountKeeps ==
    ASSUME TotalsInv, NEW t \in Txs, Stats!CountOrders(t)
    PROVE  TotalsInv'
<1> DEFINE new == [tx[t] EXCEPT !.pc = "counted", !.counted = Stats!Counted(Stats!Seen(t))]
<1>0. Shape /\ tx[t] \in TxState
  BY DEF TotalsInv, Shape
<1>1. Stats!Counted(Stats!Seen(t)) \in CountedTotals
  BY <1>0, SeenType, CountedType
<1>2. /\ new \in TxState /\ new.pc = "counted" /\ new.orders = tx[t].orders
      /\ new.stage = tx[t].stage /\ new.counted = Stats!Counted(Stats!Seen(t))
  <2> HIDE DEF Stats!Counted, Stats!Seen
  <2> QED BY <1>0, <1>1 DEF TxState
<1>3. tx' = [tx EXCEPT ![t] = new] /\ UNCHANGED <<placed, stats, overtaken>>
  BY <1>0 DEF Stats!CountOrders, TotalsInv, Shape
<1>4. \A u \in Txs \ {t} : new.orders \cap tx[u].orders = {}
  BY <1>2 DEF TotalsInv, Apart
<1>5. new.counted = Stats!Counted([o \in Orders |-> IF o \in new.orders THEN new.stage ELSE placed[o]])
  BY <1>2 DEF Stats!Seen
<1> HIDE DEF new
<1> QED BY <1>2, <1>3, <1>4, <1>5, TxStep

LEMMA RollbackKeeps ==
    ASSUME TotalsInv, NEW t \in Txs, Stats!Rollback(t)
    PROVE  TotalsInv'
<1>1. Stats!NoTx \in TxState /\ Stats!NoTx.pc = "idle" /\ Stats!NoTx.orders = {}
  BY NoTxType DEF Stats!NoTx
<1>2. tx' = [tx EXCEPT ![t] = Stats!NoTx] /\ UNCHANGED <<placed, stats, overtaken>>
  BY DEF Stats!Rollback
<1> QED BY <1>1, <1>2, TxStep

\* A transaction that is counted when another one commits is late from then on;
\* one that is not yet counted counts that commit.
LEMMA CommitKeeps ==
    ASSUME TotalsInv, NEW t \in Txs, Stats!Commit(t)
    PROVE  TotalsInv'
<1>0. Shape
  BY DEF TotalsInv
<1>1. /\ tx'[t] = Stats!NoTx /\ DOMAIN tx' = Txs
      /\ \A u \in Txs \ {t} : tx'[u] = [tx[u] EXCEPT !.late = tx[u].pc = "counted"]
  BY DEF Stats!Commit
<1>2. ASSUME NEW u \in Txs \ {t}
      PROVE  /\ tx'[u] \in TxState /\ tx'[u].pc = tx[u].pc /\ tx'[u].orders = tx[u].orders
             /\ tx[u].pc = "counted" => tx'[u].late = TRUE
  <2>0. tx[u] \in TxState /\ tx'[u] = [tx[u] EXCEPT !.late = (tx[u].pc = "counted")]
    BY <1>0, <1>1 DEF Shape
  <2>1. CASE tx[u].pc = "counted"
    <3>1. (tx[u].pc = "counted") = TRUE
      BY <2>1
    <3>2. tx'[u] = [tx[u] EXCEPT !.late = TRUE]
      BY <2>0, <3>1, Zenon
    <3> QED BY <2>0, <3>2 DEF TxState
  <2>2. CASE tx[u].pc # "counted"
    <3>1. (tx[u].pc = "counted") = FALSE
      BY <2>2
    <3>2. tx'[u] = [tx[u] EXCEPT !.late = FALSE]
      BY <2>0, <3>1, Zenon
    <3> QED BY <2>0, <2>2, <3>2 DEF TxState
  <2> QED BY <2>1, <2>2
<1>3. Shape'
  <2>1. placed' \in [Orders -> Stats!Stage]
    BY <1>0, SeenType DEF Stats!Commit
  <2>2. tx' \in [Txs -> TxState]
    BY <1>1, <1>2, NoTxType DEF Stats!Commit
  <2>3. stats' \in CountedTotals /\ overtaken' \in BOOLEAN
    BY <1>0, TxFields DEF Stats!Commit
  <2> QED BY <2>1, <2>2, <2>3 DEF Shape
<1>4. Apart'
  <2>1. tx'[t].orders = {}
    BY <1>1 DEF Stats!NoTx
  <2>2. \A u \in Txs \ {t} : tx'[u].orders = tx[u].orders /\ tx'[u].pc = tx[u].pc
    BY <1>2
  <2> QED BY <2>1, <2>2 DEF TotalsInv, Apart
<1>5. CountsRight'
  <2>1. ASSUME NEW u \in Txs PROVE ~(tx'[u].pc = "counted" /\ ~tx'[u].late)
    <3>1. CASE u = t
      BY <1>1, <3>1 DEF Stats!NoTx
    <3>2. CASE u # t
      BY <1>2, <3>2
    <3> QED BY <3>1, <3>2
  <2> QED BY <2>1 DEF CountsRight
<1>6. Stats!StatisticsRight'
  <2>1. CASE ~tx[t].late
    <3>1. stats' = Stats!Counted(Stats!Seen(t)) /\ placed' = Stats!Seen(t)
      BY <2>1 DEF Stats!Commit, TotalsInv, CountsRight
    <3>2. Stats!Counted(placed') = Stats!Counted(Stats!Seen(t))
      BY <3>1
    <3> QED BY <3>1, <3>2 DEF Stats!StatisticsRight, Stats!Counted, Stats!NumberIn
  <2>2. CASE tx[t].late
    BY <2>2 DEF Stats!Commit, Stats!StatisticsRight
  <2> QED BY <2>1, <2>2
<1> QED BY <1>3, <1>4, <1>5, <1>6 DEF TotalsInv

LEMMA StatsNext == TotalsInv /\ [Stats!Next]_Stats!statisticsVars => TotalsInv'
<1> SUFFICES ASSUME TotalsInv, [Stats!Next]_Stats!statisticsVars PROVE TotalsInv'
  OBVIOUS
<1>1. CASE UNCHANGED Stats!statisticsVars
  <2>1. Shape' /\ Apart'
    BY <1>1 DEF Stats!statisticsVars, TotalsInv, Shape, Apart
  <2>2. CountsRight' /\ Stats!StatisticsRight'
    <3>1. UNCHANGED <<placed, stats, tx, overtaken>>
      BY <1>1 DEF Stats!statisticsVars
    <3>2. \A t \in Txs : Stats!Seen(t)' = Stats!Seen(t)
      BY <3>1 DEF Stats!Seen
    <3> QED BY <3>1, <3>2 DEF TotalsInv, CountsRight, Stats!StatisticsRight, Stats!Counted, Stats!NumberIn
  <2> QED BY <2>1, <2>2 DEF TotalsInv
<1>2. CASE Stats!Next
  BY <1>2, ChangeKeeps, CountKeeps, CommitKeeps, RollbackKeeps DEF Stats!Next
<1> QED BY <1>1, <1>2

\* The numbers in the totals are at most that of the orders.
LEMMA TotalsTyped == TotalsInv => Stats!TypeOK
<1> SUFFICES ASSUME TotalsInv PROVE Stats!TypeOK
  OBVIOUS
<1> DEFINE Number == 0..Cardinality(Orders)
<1>1. ASSUME NEW orders, NEW stages PROVE Stats!NumberIn(orders, stages) \in Number
  <2> DEFINE S == {o \in Orders : orders[o] \in stages}
  <2>1. S \in SUBSET Orders /\ IsFiniteSet(Orders)
    BY EngagementAssumption
  <2>2. Cardinality(Orders) \in Nat /\ IsFiniteSet(S) /\ Cardinality(S) <= Cardinality(Orders)
    BY <2>1, FS_CardinalityType, FS_Subset
  <2>3. Cardinality(S) \in Nat
    BY <2>2, FS_CardinalityType
  <2>4. Stats!NumberIn(orders, stages) = Cardinality(S)
    BY StatsCardinality DEF Stats!NumberIn
  <2> HIDE DEF S
  <2> QED BY <2>2, <2>3, <2>4
<1>2. ASSUME NEW orders PROVE Stats!Counted(orders) \in Stats!Totals
  <2>1. Stats!Totals = [{"total", "completed", "cancelled", "saved", "spent"} -> Number]
    BY StatsCardinality DEF Stats!Totals
  <2> HIDE DEF Number
  <2> QED BY <1>1, <2>1 DEF Stats!Counted
<1>3. CountedTotals \subseteq Stats!Totals
  BY <1>2 DEF CountedTotals
<1>4. \A t \in Txs : tx[t].counted \in Stats!Totals
  BY <1>3, TxFields DEF TotalsInv
<1>5. placed \in [Orders -> Stats!Stage] /\ stats \in Stats!Totals /\ overtaken \in BOOLEAN
  BY <1>3 DEF TotalsInv, Shape
<1> QED BY <1>4, <1>5, TxFields DEF TotalsInv, Stats!TypeOK

LEMMA StatsMoves == [Next]_vars => [Stats!Next]_(Stats!statisticsVars)
BY DEF Next, vars, statisticsVars, Stats!statisticsVars

\* The totals in the user's row are those of his orders, for any number of
\* overlapping transactions, unless the last one to write them had counted
\* before another one committed.
THEOREM TotalsAreRight ==
    (Stats!Spec => []Stats!StatisticsRight) /\ (Spec => []StatisticsRight)
<1>1. Stats!Init => TotalsInv
  BY StatsInit
<1>2. TotalsInv /\ [Stats!Next]_(Stats!statisticsVars) => TotalsInv'
  BY StatsNext
<1>3. TotalsInv => Stats!StatisticsRight /\ StatisticsRight
  BY DEF TotalsInv, StatisticsRight
<1>4. Stats!Spec => []Stats!StatisticsRight
  BY <1>1, <1>2, <1>3, PTL DEF Stats!Spec
<1>5. Init => Stats!Init
  BY DEF Init
<1>6. Spec => []StatisticsRight
  BY <1>1, <1>2, <1>3, <1>5, StatsMoves, PTL DEF Spec
<1> QED BY <1>4, <1>6

----------------------------------------------------------------------------
(* Favourites. *)

FavCall == [pc: {"idle", "save", "count"}, op: {"none", "add", "remove", "toggle"},
            note: Notes \cup {NoNote}, entity: Fav!Row]

\* A call that found the favourite knows what it is to do, and only an add brings a note.
FavCallsMeant ==
    \A c \in Calls :
        /\ favCall[c].pc = "save" => favCall[c].op # "none"
        /\ favCall[c].op # "add" => favCall[c].note = NoNote

FavInv == Fav!TypeOK /\ FavCallsMeant /\ Fav!FavouritesFollow

LEMMA FavNoCall == Fav!NoCall \in FavCall /\ Fav!NoRow \in Fav!Row
BY DEF Fav!NoCall, Fav!NoRow, Fav!Row, FavCall

LEMMA FavTyped ==
    ASSUME Fav!TypeOK
    PROVE  favourite \in Fav!Row /\ favCall \in [Calls -> FavCall]
BY DEF Fav!TypeOK, FavCall

LEMMA FavInit == Fav!Init => FavInv
<1> SUFFICES ASSUME Fav!Init PROVE FavInv
  OBVIOUS
<1>1. Fav!TypeOK
  BY FavNoCall DEF Fav!Init, Fav!TypeOK, FavCall
<1>2. FavCallsMeant /\ Fav!FavouritesFollow
  BY DEF Fav!Init, FavCallsMeant, Fav!FavouritesFollow, Fav!NoCall, Fav!NoRow
<1> QED BY <1>1, <1>2 DEF FavInv

\* Only call c moves, to new.
LEMMA FavStep ==
    ASSUME Fav!TypeOK, FavCallsMeant, NEW c \in Calls, NEW new \in FavCall,
           favCall' = [favCall EXCEPT ![c] = new],
           new.pc = "save" => new.op # "none",
           new.op # "add" => new.note = NoNote
    PROVE  favCall' \in [Calls -> FavCall] /\ FavCallsMeant'
<1>1. favCall \in [Calls -> FavCall]
  BY FavTyped
<1>2. favCall'[c] = new /\ \A d \in Calls \ {c} : favCall'[d] = favCall[d]
  BY <1>1
<1> QED BY <1>1, <1>2 DEF FavCallsMeant

LEMMA FavStays ==
    ASSUME FavInv, NEW c \in Calls, NEW new \in FavCall,
           favCall' = [favCall EXCEPT ![c] = new],
           new.pc = "save" => new.op # "none",
           new.op # "add" => new.note = NoNote,
           UNCHANGED <<favourite, shouldShow, shouldNote, toggleOvertaken, saveOvertaken>>
    PROVE  FavInv'
<1>1. favCall' \in [Calls -> FavCall] /\ FavCallsMeant'
  BY FavStep DEF FavInv
<1>2. Fav!TypeOK'
  BY <1>1 DEF FavInv, Fav!TypeOK, FavCall
<1>3. Fav!FavouritesFollow'
  BY DEF FavInv, Fav!FavouritesFollow
<1> QED BY <1>1, <1>2, <1>3 DEF FavInv

\* What a save leaves: the favourite as the operation on the entity it read.
LEMMA FavSaveKeeps ==
    ASSUME FavInv, NEW c \in Calls, Fav!SaveFavourite(c)
    PROVE  FavInv'
<1> DEFINE call == favCall[c]
<1>1. /\ favCall \in [Calls -> FavCall] /\ call \in FavCall /\ call.op \in {"add", "remove", "toggle"}
      /\ call.entity \in Fav!Row /\ call.note \in Notes \cup {NoNote}
      /\ call.op # "add" => call.note = NoNote
      /\ favourite \in Fav!Row
  BY FavTyped DEF FavInv, FavCallsMeant, FavCall, Fav!SaveFavourite
<1>2. PICK new : /\ favCall' = [favCall EXCEPT ![c] = new] /\ new \in FavCall
                 /\ new.pc # "save" /\ (new.op # "add" => new.note = NoNote)
  <2>1. [call EXCEPT !.pc = "count"] \in FavCall /\ [call EXCEPT !.pc = "count"].pc = "count"
        /\ [call EXCEPT !.pc = "count"].op = call.op
        /\ [call EXCEPT !.pc = "count"].note = call.note
    BY <1>1 DEF FavCall
  <2>2. Fav!NoCall \in FavCall /\ Fav!NoCall.pc = "idle" /\ Fav!NoCall.note = NoNote
    BY FavNoCall DEF Fav!NoCall
  <2>3. CASE call.op = "add" /\ call.entity.kept # "kept"
    BY <1>1, <2>1, <2>3 DEF Fav!SaveFavourite
  <2>4. CASE ~(call.op = "add" /\ call.entity.kept # "kept")
    BY <2>2, <2>4 DEF Fav!SaveFavourite
  <2> QED BY <2>3, <2>4
<1>3. favCall' \in [Calls -> FavCall] /\ FavCallsMeant'
  BY <1>2, FavStep DEF FavInv
<1>4. /\ favourite' = Fav!Written(call.op, call.note, call.entity)
      /\ shouldShow' = (call.op = "add" \/ (call.op = "toggle" /\ ~shouldShow))
      /\ shouldNote' = Fav!Noted(call.note, shouldNote)
      /\ toggleOvertaken' = (call.op = "toggle" /\ (toggleOvertaken \/ call.entity # favourite))
      /\ saveOvertaken' = (call.note = NoNote /\ (saveOvertaken \/ call.entity # favourite))
  BY DEF Fav!SaveFavourite
<1>5. favourite' \in Fav!Row /\ shouldNote' \in Notes \cup {NoNote}
  BY <1>1, <1>4 DEF Fav!Written, Fav!Noted, Fav!Row, FavInv, Fav!TypeOK
<1>6. Fav!TypeOK'
  BY <1>3, <1>4, <1>5 DEF Fav!TypeOK, FavCall
<1>7. toggleOvertaken' \/ (favourite'.kept = "kept") = shouldShow'
  <2>1. favourite'.kept = "kept" <=> ~(call.op = "remove" \/ (call.op = "toggle" /\ call.entity.kept = "kept"))
    BY <1>1, <1>4 DEF Fav!Written, Fav!Row
  <2>2. CASE call.op = "toggle"
    BY <1>4, <2>1, <2>2 DEF FavInv, Fav!FavouritesFollow
  <2>3. CASE call.op # "toggle"
    BY <1>1, <1>4, <2>1, <2>3
  <2> QED BY <2>2, <2>3
<1>8. saveOvertaken' \/ favourite'.note = shouldNote'
  <2>1. CASE call.note = NoNote
    <3>1. favourite'.note = call.entity.note /\ shouldNote' = shouldNote
      BY <1>1, <1>4, <2>1 DEF Fav!Written, Fav!Row, Fav!Noted
    <3> QED BY <1>4, <2>1, <3>1 DEF FavInv, Fav!FavouritesFollow
  <2>2. CASE call.note # NoNote
    BY <1>1, <1>4, <2>2 DEF Fav!Written, Fav!Row, Fav!Noted
  <2> QED BY <2>1, <2>2
<1> QED BY <1>3, <1>6, <1>7, <1>8 DEF FavInv, Fav!FavouritesFollow

LEMMA FavNext == FavInv /\ [Fav!Next]_(Fav!favouriteVars) => FavInv'
<1> SUFFICES ASSUME FavInv, [Fav!Next]_(Fav!favouriteVars) PROVE FavInv'
  OBVIOUS
<1>1. CASE UNCHANGED Fav!favouriteVars
  BY <1>1 DEF Fav!favouriteVars, FavInv, Fav!TypeOK, FavCallsMeant, Fav!FavouritesFollow
<1>2. ASSUME NEW c \in Calls, Fav!Favour(c) PROVE FavInv'
  <2>1. Fav!NoCall \in FavCall /\ Fav!NoCall.pc = "idle" /\ Fav!NoCall.note = NoNote
    BY FavNoCall DEF Fav!NoCall
  <2>2. ASSUME NEW op \in {"add", "remove", "toggle"}, NEW note \in Notes \cup {NoNote},
               Fav!FindFavourite(c, op, note)
        PROVE  FavInv'
    <3> DEFINE new == [pc |-> "save", op |-> op, note |-> note, entity |-> favourite]
    <3>1. new \in FavCall /\ new.pc = "save" /\ new.op = op /\ new.note = note
      BY FavTyped DEF FavInv, FavCall
    <3>2. /\ favCall' = [favCall EXCEPT ![c] = new] /\ (op # "add" => note = NoNote)
          /\ UNCHANGED <<favourite, shouldShow, shouldNote, toggleOvertaken, saveOvertaken>>
      BY <2>2 DEF Fav!FindFavourite
    <3> HIDE DEF new
    <3> QED BY <3>1, <3>2, FavStays
  <2>3. CASE Fav!SaveFavourite(c)
    BY <2>3, FavSaveKeeps
  <2>4. CASE Fav!CountFavourite(c)
    BY <2>1, <2>4, FavStays DEF Fav!CountFavourite
  <2>5. CASE Fav!AbandonFavourite(c)
    BY <2>1, <2>5, FavStays DEF Fav!AbandonFavourite
  <2> QED BY <1>2, <2>2, <2>3, <2>4, <2>5 DEF Fav!Favour
<1> QED BY <1>1, <1>2 DEF Fav!Next

LEMMA FavMoves == [Next]_vars => [Fav!Next]_(Fav!favouriteVars)
BY DEF Next, vars, favouriteVars, Fav!favouriteVars

\* The list of favourites and the note are what the calls would leave one by one,
\* for any number of overlapping calls, but for a toggle, or a call without a
\* note, that another save overtook.
THEOREM FavouritesAreFollowed ==
    (Fav!Spec => []Fav!FavouritesFollow) /\ (Spec => []FavouritesFollow)
<1>1. FavInv => Fav!FavouritesFollow /\ FavouritesFollow
  BY DEF FavInv, FavouritesFollow
<1>2. Init => Fav!Init
  BY DEF Init
<1>3. Fav!Spec => []Fav!FavouritesFollow
  BY <1>1, FavInit, FavNext, PTL DEF Fav!Spec
<1>4. Spec => []FavouritesFollow
  BY <1>1, <1>2, FavInit, FavNext, FavMoves, PTL DEF Spec
<1> QED BY <1>3, <1>4

----------------------------------------------------------------------------
(* The accounts of one phone number. *)

\* A call about to activate read PENDING before the admin's last word (racing) or
\* after it (the admin said PENDING, or nothing yet).
ActivatesPending ==
    adminSaid = "none" \/ racing # {} \/ adminSaid = "PENDING"
        \/ \A c \in Calls : userCall[c] # "activate"

\* Unless two inserted at once, no call inserts a device that is there already.
InsertsFirstDevice ==
    devices = 0 \/ together \/ \A c \in Calls : userCall[c] # "insertDevice"

AccountsInv == Users!TypeOK /\ ActivatesPending /\ InsertsFirstDevice /\ Users!AccountsOnce

UserPC == {"idle", "insertUser", "findDevice", "insertDevice",
           "saveDevice", "noteDevice", "activate", "login"}

LEMMA AccountsInit == Users!Init => AccountsInv
<1> SUFFICES ASSUME Users!Init PROVE AccountsInv
  OBVIOUS
<1>1. Users!TypeOK
  BY DEF Users!Init, Users!TypeOK, Users!NoUser, Users!UserStatus
<1> QED BY <1>1 DEF Users!Init, AccountsInv, ActivatesPending, InsertsFirstDevice,
                    Users!AccountsOnce

LEMMA UserGoto ==
    ASSUME Users!TypeOK, NEW c \in Calls, NEW pc \in UserPC, Users!Goto(c, pc)
    PROVE  /\ userCall' \in [Calls -> UserPC] /\ userCall'[c] = pc
           /\ \A d \in Calls \ {c} : userCall'[d] = userCall[d]
BY DEF Users!TypeOK, Users!Goto, UserPC

\* A step of a call that changes no row.
LEMMA UserMoves ==
    ASSUME AccountsInv, NEW c \in Calls, NEW pc \in UserPC, Users!Goto(c, pc),
           UNCHANGED <<users, userRow, devices, adminSaid, racing, together>>,
           pc = "activate" => userRow.status = "PENDING",
           pc = "insertDevice" => devices = 0
    PROVE  AccountsInv'
<1>1. /\ userCall' \in [Calls -> UserPC] /\ userCall'[c] = pc
      /\ \A d \in Calls \ {c} : userCall'[d] = userCall[d]
  BY UserGoto DEF AccountsInv
<1>2. Users!TypeOK'
  BY <1>1 DEF AccountsInv, Users!TypeOK, UserPC
<1>3. ActivatesPending'
  <2>1. CASE pc = "activate"
    BY <2>1 DEF AccountsInv, ActivatesPending, Users!AccountsOnce, Users!TypeOK
  <2>2. CASE pc # "activate"
    BY <1>1, <2>2 DEF AccountsInv, ActivatesPending
  <2> QED BY <2>1, <2>2
<1>4. InsertsFirstDevice'
  BY <1>1 DEF AccountsInv, InsertsFirstDevice
<1>5. Users!AccountsOnce'
  BY DEF AccountsInv, Users!AccountsOnce
<1> QED BY <1>2, <1>3, <1>4, <1>5 DEF AccountsInv

LEMMA InsertUserKeeps ==
    ASSUME AccountsInv, NEW c \in Calls, Users!InsertUser(c)
    PROVE  AccountsInv'
<1>1. PICK pc \in {"idle", "findDevice"} : Users!Goto(c, pc)
  BY DEF Users!InsertUser
<1>2. /\ userCall' \in [Calls -> UserPC] /\ userCall'[c] = pc
      /\ \A d \in Calls \ {c} : userCall'[d] = userCall[d]
  BY <1>1, UserGoto DEF AccountsInv, UserPC
<1>3. users' = 1 /\ UNCHANGED <<userRow, devices, adminSaid, racing, together>>
  BY DEF Users!InsertUser
<1>4. Users!TypeOK'
  BY <1>2, <1>3 DEF AccountsInv, Users!TypeOK, UserPC
<1> QED BY <1>1, <1>2, <1>3, <1>4 DEF AccountsInv, ActivatesPending, InsertsFirstDevice, Users!AccountsOnce

LEMMA InsertDeviceKeeps ==
    ASSUME AccountsInv, NEW c \in Calls, Users!InsertDevice(c)
    PROVE  AccountsInv'
<1>0. devices \in Nat /\ "noteDevice" \in UserPC
  BY DEF AccountsInv, Users!TypeOK, UserPC
<1>1. /\ userCall' \in [Calls -> UserPC] /\ userCall'[c] = "noteDevice"
      /\ \A d \in Calls \ {c} : userCall'[d] = userCall[d]
  BY <1>0, UserGoto DEF AccountsInv, Users!InsertDevice
<1>2. /\ userCall[c] = "insertDevice" /\ devices' = devices + 1
      /\ UNCHANGED <<users, userRow, adminSaid, racing>>
      /\ together' \in BOOLEAN
      /\ together' <=> together \/ \E d \in Calls \ {c} : userCall[d] = "insertDevice"
  BY DEF Users!InsertDevice, AccountsInv, Users!TypeOK
<1>3. Users!TypeOK'
  BY <1>0, <1>1, <1>2 DEF AccountsInv, Users!TypeOK, UserPC
<1>4. ActivatesPending'
  BY <1>1, <1>2 DEF AccountsInv, ActivatesPending
<1>5. InsertsFirstDevice'
  BY <1>1, <1>2 DEF InsertsFirstDevice
<1>6. devices' > 1 => together'
  BY <1>0, <1>2 DEF AccountsInv, InsertsFirstDevice
<1> QED BY <1>2, <1>3, <1>4, <1>5, <1>6 DEF AccountsInv, Users!AccountsOnce

LEMMA ActivateKeeps ==
    ASSUME AccountsInv, NEW c \in Calls, Users!ActivateUser(c)
    PROVE  AccountsInv'
<1>0. "login" \in UserPC
  BY DEF UserPC
<1>1. /\ userCall' \in [Calls -> UserPC] /\ userCall'[c] = "login"
      /\ \A d \in Calls \ {c} : userCall'[d] = userCall[d]
  BY <1>0, UserGoto DEF AccountsInv, Users!ActivateUser
<1>2. /\ userCall[c] = "activate" /\ userRow' = [userRow EXCEPT !.status = "ACTIVE"]
      /\ UNCHANGED <<users, devices, adminSaid, racing, together>>
  BY DEF Users!ActivateUser
<1>3. userRow'.status = "ACTIVE" /\ Users!TypeOK'
  BY <1>1, <1>2 DEF AccountsInv, Users!TypeOK, Users!UserStatus, UserPC
<1> QED BY <1>1, <1>2, <1>3
        DEF AccountsInv, ActivatesPending, InsertsFirstDevice, Users!AccountsOnce

LEMMA AdminKeeps ==
    ASSUME AccountsInv
    PROVE  /\ \A s \in Users!UserStatus : Users!UpdateStatus(s) => AccountsInv'
           /\ Users!RemoveUser => AccountsInv'
<1>1. ASSUME NEW s \in Users!UserStatus, Users!UpdateStatus(s) PROVE AccountsInv'
  <2>1. /\ userRow' = [userRow EXCEPT !.status = s] /\ adminSaid' = s
        /\ racing' = {c \in Calls : userCall[c] = "activate"}
        /\ UNCHANGED <<users, devices, userCall, together>>
    BY <1>1 DEF Users!UpdateStatus
  <2>2. userRow'.status = s /\ Users!TypeOK'
    BY <2>1 DEF AccountsInv, Users!TypeOK, Users!UserStatus
  <2> QED BY <2>1, <2>2
          DEF AccountsInv, ActivatesPending, InsertsFirstDevice, Users!AccountsOnce
<1>2. ASSUME Users!RemoveUser PROVE AccountsInv'
  <2>1. /\ userRow' = [userRow EXCEPT !.deleted = TRUE]
        /\ UNCHANGED <<users, devices, userCall, adminSaid, racing, together>>
    BY <1>2 DEF Users!RemoveUser
  <2>2. userRow'.status = userRow.status /\ Users!TypeOK'
    BY <2>1 DEF AccountsInv, Users!TypeOK
  <2> QED BY <2>1, <2>2
          DEF AccountsInv, ActivatesPending, InsertsFirstDevice, Users!AccountsOnce
<1> QED BY <1>1, <1>2

LEMMA AccountsNext == AccountsInv /\ [Users!Next]_(Users!accountVars) => AccountsInv'
<1> SUFFICES ASSUME AccountsInv, [Users!Next]_(Users!accountVars) PROVE AccountsInv'
  OBVIOUS
<1>1. CASE UNCHANGED Users!accountVars
  BY <1>1 DEF Users!accountVars, AccountsInv, Users!TypeOK, ActivatesPending,
              InsertsFirstDevice, Users!AccountsOnce
<1>2. ASSUME NEW c \in Calls, Users!Register(c) PROVE AccountsInv'
  <2>1. CASE Users!FindUser(c)
    BY <2>1, UserMoves DEF Users!FindUser, UserPC
  <2>2. CASE Users!InsertUser(c)
    BY <2>2, InsertUserKeeps
  <2>3. CASE Users!FindDevice(c)
    <3>1. PICK pc : /\ Users!Goto(c, pc) /\ pc \in UserPC /\ pc # "activate"
                    /\ pc = "insertDevice" => devices = 0
      BY <2>3 DEF Users!FindDevice, UserPC
    <3> QED BY <2>3, <3>1, UserMoves DEF Users!FindDevice
  <2>4. CASE Users!InsertDevice(c)
    BY <2>4, InsertDeviceKeeps
  <2>5. CASE Users!SaveDevice(c)
    BY <2>5, UserMoves DEF Users!SaveDevice, UserPC
  <2>6. CASE Users!NoteDevice(c)
    BY <2>6, UserMoves DEF Users!NoteDevice, UserPC
  <2> QED BY <1>2, <2>1, <2>2, <2>3, <2>4, <2>5, <2>6 DEF Users!Register
<1>3. ASSUME NEW c \in Calls, Users!Verify(c) PROVE AccountsInv'
  <2>1. CASE Users!VerifyUser(c)
    <3>1. PICK pc : /\ Users!Goto(c, pc) /\ pc \in UserPC /\ pc # "insertDevice"
                    /\ pc = "activate" => userRow.status = "PENDING"
      BY <2>1 DEF Users!VerifyUser, UserPC
    <3> QED BY <2>1, <3>1, UserMoves DEF Users!VerifyUser
  <2>2. CASE Users!ActivateUser(c)
    BY <2>2, ActivateKeeps
  <2>3. CASE Users!LoginUser(c)
    BY <2>3, UserMoves DEF Users!LoginUser, UserPC
  <2> QED BY <1>3, <2>1, <2>2, <2>3 DEF Users!Verify
<1>4. ASSUME NEW c \in Calls, Users!Abandon(c) PROVE AccountsInv'
  BY <1>4, UserMoves DEF Users!Abandon, UserPC
<1> QED BY <1>1, <1>2, <1>3, <1>4, AdminKeeps DEF Users!Next

LEMMA AccountsMove == [Next]_vars => [Users!Next]_(Users!accountVars)
BY DEF Next, vars, accountVars, Users!accountVars

\* A phone number has one row, an admin's word on its status stands, and a device
\* is stored once, for any number of overlapping registrations and verifications,
\* with the two exceptions that the property names.
THEOREM AccountsAreOnce ==
    (Users!Spec => []Users!AccountsOnce) /\ (Spec => []AccountsOnce)
<1>1. AccountsInv => Users!AccountsOnce /\ AccountsOnce
  BY DEF AccountsInv, AccountsOnce
<1>2. Init => Users!Init
  BY DEF Init
<1>3. Users!Spec => []Users!AccountsOnce
  BY <1>1, AccountsInit, AccountsNext, PTL DEF Users!Spec
<1>4. Spec => []AccountsOnce
  BY <1>1, <1>2, AccountsInit, AccountsNext, AccountsMove, PTL DEF Spec
<1> QED BY <1>3, <1>4

----------------------------------------------------------------------------
(* The provider's answers. *)

MapperInv == Mapper!TypeOK /\ (outcome = Mapper!NoOutcome \/ outcome = Mapper!Mapped(answer))

AllPhrases ==
    {"RCS_SUCCESS", "SUCCESSFUL", "APPROVED", "other", "RCS_USER_REJECTED", "USER REJECTED",
     "UNSUCCESSFUL", "PIN ERROR", "NAMBARKA SIRTA", "PIN-KA", "INSUFFICIENT BALANCE", "HARAAGA",
     "NOT APPROVED", "PENDING", "PROCESSING"}

\* The mapper's other words are phrases themselves.
PlainWords ==
    {"RCS_USER_REJECTED", "USER REJECTED", "PIN ERROR", "NAMBARKA SIRTA", "PIN-KA",
     "INSUFFICIENT BALANCE", "HARAAGA", "PENDING", "PROCESSING"}

LEMMA PhrasesOfDeeds ==
    /\ Mapper!PhrasesFor["paid"] = {"RCS_SUCCESS", "SUCCESSFUL", "APPROVED", "other"}
    /\ Mapper!PhrasesFor["userRejected"] =
           {"RCS_USER_REJECTED", "USER REJECTED", "UNSUCCESSFUL", "other"}
    /\ Mapper!PhrasesFor["wrongPin"] = {"PIN ERROR", "NAMBARKA SIRTA", "PIN-KA", "UNSUCCESSFUL"}
    /\ Mapper!PhrasesFor["noBalance"] = {"INSUFFICIENT BALANCE", "HARAAGA", "NOT APPROVED"}
    /\ Mapper!PhrasesFor["waiting"] = {"PENDING", "PROCESSING", "other"}
    /\ Mapper!PhrasesFor["declined"] = {"UNSUCCESSFUL", "NOT APPROVED", "other"}
BY DEF Mapper!PhrasesFor

LEMMA WordsOfPhrase ==
    ASSUME NEW p \in AllPhrases
    PROVE  /\ "RCS_SUCCESS" \in Mapper!WordsIn(p) <=> p = "RCS_SUCCESS"
           /\ "APPROVED" \in Mapper!WordsIn(p) <=> p \in {"APPROVED", "NOT APPROVED"}
           /\ "SUCCESS" \in Mapper!WordsIn(p) <=>
                  p \in {"RCS_SUCCESS", "SUCCESSFUL", "UNSUCCESSFUL"}
           /\ \A w \in PlainWords : w \in Mapper!WordsIn(p) <=> w = p
<1>1. CASE p = "RCS_SUCCESS"
  BY <1>1 DEF Mapper!WordsIn, PlainWords
<1>2. CASE p \in {"SUCCESSFUL", "UNSUCCESSFUL"}
  BY <1>2 DEF Mapper!WordsIn, PlainWords
<1>3. CASE p \in {"APPROVED", "NOT APPROVED"}
  BY <1>3 DEF Mapper!WordsIn, PlainWords
<1>4. CASE p = "other"
  BY <1>4 DEF Mapper!WordsIn, PlainWords
<1>5. CASE p \in PlainWords
  <2>1. Mapper!WordsIn(p) = {p}
    BY <1>5 DEF Mapper!WordsIn, PlainWords
  <2> QED BY <1>5, <2>1 DEF PlainWords
<1> QED BY <1>1, <1>2, <1>3, <1>4, <1>5 DEF AllPhrases, PlainWords

LEMMA WordInText ==
    ASSUME NEW a, NEW w, NEW S,
           \A p \in a.phrases : w \in Mapper!WordsIn(p) <=> p \in S
    PROVE  w \in Mapper!SearchableText(a) <=> \E p \in S : p \in a.phrases
BY Zenon DEF Mapper!SearchableText

\* Which phrases bring each word the mapper looks for into the text.
LEMMA WordsOfPhrases ==
    ASSUME NEW a, a.phrases \subseteq AllPhrases
    PROVE  LET text == Mapper!SearchableText(a) IN
           /\ "RCS_SUCCESS" \in text <=> "RCS_SUCCESS" \in a.phrases
           /\ "APPROVED" \in text <=> "APPROVED" \in a.phrases \/ "NOT APPROVED" \in a.phrases
           /\ "SUCCESS" \in text <=> \/ "RCS_SUCCESS" \in a.phrases \/ "SUCCESSFUL" \in a.phrases
                                     \/ "UNSUCCESSFUL" \in a.phrases
           /\ \A w \in PlainWords : w \in text <=> w \in a.phrases
<1> DEFINE text == Mapper!SearchableText(a)
<1>1. \A p \in a.phrases :
           /\ "RCS_SUCCESS" \in Mapper!WordsIn(p) <=> p \in {"RCS_SUCCESS"}
           /\ "APPROVED" \in Mapper!WordsIn(p) <=> p \in {"APPROVED", "NOT APPROVED"}
           /\ "SUCCESS" \in Mapper!WordsIn(p) <=>
                  p \in {"RCS_SUCCESS", "SUCCESSFUL", "UNSUCCESSFUL"}
           /\ \A w \in PlainWords : w \in Mapper!WordsIn(p) <=> p \in {w}
  BY WordsOfPhrase
<1>2. "RCS_SUCCESS" \in text <=> \E p \in {"RCS_SUCCESS"} : p \in a.phrases
  <2>1. \A p \in a.phrases : "RCS_SUCCESS" \in Mapper!WordsIn(p) <=> p \in {"RCS_SUCCESS"}
    BY <1>1
  <2> QED BY <2>1, WordInText
<1>3. "APPROVED" \in text <=> \E p \in {"APPROVED", "NOT APPROVED"} : p \in a.phrases
  <2>1. \A p \in a.phrases :
            "APPROVED" \in Mapper!WordsIn(p) <=> p \in {"APPROVED", "NOT APPROVED"}
    BY <1>1
  <2> QED BY <2>1, WordInText
<1>4. "SUCCESS" \in text <=>
          \E p \in {"RCS_SUCCESS", "SUCCESSFUL", "UNSUCCESSFUL"} : p \in a.phrases
  <2>1. \A p \in a.phrases :
            "SUCCESS" \in Mapper!WordsIn(p) <=> p \in {"RCS_SUCCESS", "SUCCESSFUL", "UNSUCCESSFUL"}
    BY <1>1
  <2> QED BY <2>1, WordInText
<1>5. ASSUME NEW w \in PlainWords PROVE w \in text <=> \E p \in {w} : p \in a.phrases
  <2>1. \A p \in a.phrases : w \in Mapper!WordsIn(p) <=> p \in {w}
    BY <1>1
  <2> QED BY <2>1, WordInText
<1> HIDE DEF text
<1>6. /\ "RCS_SUCCESS" \in text <=> "RCS_SUCCESS" \in a.phrases
      /\ "APPROVED" \in text <=> "APPROVED" \in a.phrases \/ "NOT APPROVED" \in a.phrases
      /\ "SUCCESS" \in text <=> \/ "RCS_SUCCESS" \in a.phrases \/ "SUCCESSFUL" \in a.phrases
                                \/ "UNSUCCESSFUL" \in a.phrases
  BY <1>2, <1>3, <1>4
<1>7. \A w \in PlainWords : w \in text <=> w \in a.phrases
  BY <1>5
<1> QED BY <1>6, <1>7 DEF text

(* The mapper's cases, read from the phrases alone. *)
SaysApproved(a) ==
    \/ a.code = "2001"
    \/ "RCS_SUCCESS" \in a.phrases \/ "APPROVED" \in a.phrases \/ "NOT APPROVED" \in a.phrases
    \/ a.http2xx /\ ("SUCCESSFUL" \in a.phrases \/ "UNSUCCESSFUL" \in a.phrases)
SaysRejected(a) ==
    a.code = "5310" \/ "RCS_USER_REJECTED" \in a.phrases \/ "USER REJECTED" \in a.phrases
SaysFailed(a) ==
    \/ "PIN ERROR" \in a.phrases \/ "NAMBARKA SIRTA" \in a.phrases \/ "PIN-KA" \in a.phrases
    \/ "INSUFFICIENT BALANCE" \in a.phrases \/ "HARAAGA" \in a.phrases
SaysWaiting(a) == "PENDING" \in a.phrases \/ "PROCESSING" \in a.phrases

LEMMA MappedByPhrases ==
    ASSUME NEW a, a.phrases \subseteq AllPhrases
    PROVE  LET m == Mapper!Mapped(a) IN
           /\ SaysApproved(a) => m.status = "CONFIRMED" /\ ~m.canRetry
           /\ ~SaysApproved(a) /\ SaysRejected(a) => m.status = "REJECTED"
           /\ ~SaysApproved(a) /\ ~SaysRejected(a) /\ SaysFailed(a) => m.status = "FAILED"
           /\ ~SaysApproved(a) /\ ~SaysRejected(a) /\ ~SaysFailed(a) /\ SaysWaiting(a) =>
                  m.status = "PROCESSING" /\ ~m.canRetry
           /\ ~SaysApproved(a) /\ ~SaysRejected(a) /\ ~SaysFailed(a) /\ ~SaysWaiting(a) =>
                  m.status = "FAILED"
<1> DEFINE text == Mapper!SearchableText(a)
<1>1. /\ SaysApproved(a) <=> \/ a.code = "2001"
                             \/ text \cap {"RCS_SUCCESS", "APPROVED"} # {}
                             \/ a.http2xx /\ "SUCCESS" \in text
  BY WordsOfPhrases DEF SaysApproved
<1>2. \A w \in PlainWords : w \in text <=> w \in a.phrases
  BY WordsOfPhrases
<1> HIDE DEF text
<1>3. SaysRejected(a) <=> a.code = "5310" \/ text \cap {"RCS_USER_REJECTED", "USER REJECTED"} # {}
  BY <1>2 DEF SaysRejected, PlainWords
<1>4. SaysFailed(a) <=> text \cap {"PIN ERROR", "NAMBARKA SIRTA", "PIN-KA",
                                   "INSUFFICIENT BALANCE", "HARAAGA"} # {}
  BY <1>2 DEF SaysFailed, PlainWords
<1>5. SaysWaiting(a) <=> text \cap {"PENDING", "PROCESSING"} # {}
  BY <1>2 DEF SaysWaiting, PlainWords
<1>6. Mapper!Mapped(a) =
          IF SaysApproved(a) THEN [status |-> "CONFIRMED", canRetry |-> FALSE]
          ELSE IF SaysRejected(a) THEN [status |-> "REJECTED", canRetry |-> TRUE]
          ELSE IF SaysFailed(a) THEN [status |-> "FAILED", canRetry |-> TRUE]
          ELSE IF SaysWaiting(a) THEN [status |-> "PROCESSING", canRetry |-> FALSE]
          ELSE [status |-> "FAILED", canRetry |-> TRUE]
  <2> USE DEF text
  <2> QED BY <1>1, <1>3, <1>4, <1>5 DEF Mapper!Mapped
<1> QED BY <1>6

LEMMA MappedType == ASSUME NEW a PROVE Mapper!Mapped(a) \in Mapper!Outcome
BY DEF Mapper!Mapped, Mapper!Outcome

LEMMA MapperInit == Mapper!Init => MapperInv
<1> SUFFICES ASSUME Mapper!Init PROVE MapperInv
  OBVIOUS
<1>1. PICK phrases \in SUBSET Mapper!PhrasesFor[deed], code \in Mapper!CodesFor(deed),
           http2xx \in BOOLEAN :
         answer = [phrases |-> phrases, code |-> code, http2xx |-> http2xx]
  BY DEF Mapper!Init
<1>2. Mapper!TypeOK
  BY <1>1 DEF Mapper!Init, Mapper!TypeOK, Mapper!NoOutcome, Mapper!Outcome
<1> QED BY <1>2 DEF Mapper!Init, MapperInv

LEMMA MapperNext == MapperInv /\ [Mapper!Next]_(Mapper!mapperVars) => MapperInv'
<1> SUFFICES ASSUME MapperInv, [Mapper!Next]_(Mapper!mapperVars) PROVE MapperInv'
  OBVIOUS
<1>1. CASE UNCHANGED Mapper!mapperVars
  BY <1>1 DEF Mapper!mapperVars, MapperInv, Mapper!TypeOK
<1>2. CASE Mapper!Next
  BY <1>2, MappedType DEF Mapper!Next, Mapper!MapWaafiResponse, MapperInv, Mapper!TypeOK
<1> QED BY <1>1, <1>2

\* Each deed in turn: its phrases, and what the code may be.
LEMMA MappedAgrees == MapperInv => Mapper!MapperAgrees
<1> SUFFICES ASSUME Mapper!TypeOK, outcome = Mapper!Mapped(answer)
             PROVE  /\ outcome.status = IF Mapper!Negated(answer) THEN "CONFIRMED"
                                        ELSE IF Mapper!Silent(answer) THEN "FAILED"
                                        ELSE Mapper!StatusOf[deed]
                    /\ outcome.canRetry => Mapper!Silent(answer) \/ deed \notin {"paid", "waiting"}
  BY DEF MapperInv, Mapper!MapperAgrees
<1>0. LET m == outcome IN
      /\ SaysApproved(answer) => m.status = "CONFIRMED" /\ ~m.canRetry
      /\ ~SaysApproved(answer) /\ SaysRejected(answer) => m.status = "REJECTED"
      /\ ~SaysApproved(answer) /\ ~SaysRejected(answer) /\ SaysFailed(answer) => m.status = "FAILED"
      /\ ~SaysApproved(answer) /\ ~SaysRejected(answer) /\ ~SaysFailed(answer) /\ SaysWaiting(answer)
             => m.status = "PROCESSING" /\ ~m.canRetry
      /\ ~SaysApproved(answer) /\ ~SaysRejected(answer) /\ ~SaysFailed(answer) /\ ~SaysWaiting(answer)
             => m.status = "FAILED"
  <2>1. answer.phrases \subseteq AllPhrases
    BY PhrasesOfDeeds DEF Mapper!TypeOK, Mapper!Deeds, AllPhrases
  <2> QED BY <2>1, MappedByPhrases
<1>1. CASE deed = "paid"
  <2>1. answer.phrases \subseteq {"RCS_SUCCESS", "SUCCESSFUL", "APPROVED", "other"}
        /\ answer.code \in {"none", "2001"}
    BY <1>1, PhrasesOfDeeds DEF Mapper!TypeOK, Mapper!CodesFor
  <2>2. Mapper!Silent(answer) <=> answer.code \in {"none", "5206"}
            /\ "RCS_SUCCESS" \notin answer.phrases
            /\ ("SUCCESSFUL" \in answer.phrases => ~answer.http2xx)
            /\ "APPROVED" \notin answer.phrases
    BY <2>1 DEF Mapper!Silent
  <2> QED BY <1>1, <1>0, <2>1, <2>2 DEF SaysApproved, SaysRejected, SaysFailed, SaysWaiting,
                                      Mapper!Negated, Mapper!StatusOf
<1>2. CASE deed = "userRejected"
  <2>1. answer.phrases \subseteq {"RCS_USER_REJECTED", "USER REJECTED", "UNSUCCESSFUL", "other"}
        /\ answer.code \in {"none", "5310"}
    BY <1>2, PhrasesOfDeeds DEF Mapper!TypeOK, Mapper!CodesFor
  <2>2. Mapper!Silent(answer) <=> answer.code \in {"none", "5206"}
            /\ "RCS_USER_REJECTED" \notin answer.phrases
            /\ "USER REJECTED" \notin answer.phrases
    BY <2>1 DEF Mapper!Silent
  <2> QED BY <1>2, <1>0, <2>1, <2>2 DEF SaysApproved, SaysRejected, SaysFailed, SaysWaiting,
                                      Mapper!Negated, Mapper!StatusOf
<1>3. CASE deed = "wrongPin"
  <2>1. answer.phrases \subseteq {"PIN ERROR", "NAMBARKA SIRTA", "PIN-KA", "UNSUCCESSFUL"}
        /\ answer.code \in {"none", "5206"}
    BY <1>3, PhrasesOfDeeds DEF Mapper!TypeOK, Mapper!CodesFor
  <2>2. Mapper!Silent(answer) <=> answer.code \in {"none", "5206"}
            /\ "PIN ERROR" \notin answer.phrases
            /\ "NAMBARKA SIRTA" \notin answer.phrases
            /\ "PIN-KA" \notin answer.phrases
    BY <2>1 DEF Mapper!Silent
  <2> QED BY <1>3, <1>0, <2>1, <2>2 DEF SaysApproved, SaysRejected, SaysFailed, SaysWaiting,
                                      Mapper!Negated, Mapper!StatusOf
<1>4. CASE deed = "noBalance"
  <2>1. answer.phrases \subseteq {"INSUFFICIENT BALANCE", "HARAAGA", "NOT APPROVED"}
        /\ answer.code \in {"none", "5206"}
    BY <1>4, PhrasesOfDeeds DEF Mapper!TypeOK, Mapper!CodesFor
  <2>2. Mapper!Silent(answer) <=> answer.code \in {"none", "5206"}
            /\ "INSUFFICIENT BALANCE" \notin answer.phrases
            /\ "HARAAGA" \notin answer.phrases
            /\ "NOT APPROVED" \notin answer.phrases
    BY <2>1 DEF Mapper!Silent
  <2> QED BY <1>4, <1>0, <2>1, <2>2 DEF SaysApproved, SaysRejected, SaysFailed, SaysWaiting,
                                      Mapper!Negated, Mapper!StatusOf
<1>5. CASE deed = "waiting"
  <2>1. answer.phrases \subseteq {"PENDING", "PROCESSING", "other"}
        /\ answer.code \in {"none", "5206"}
    BY <1>5, PhrasesOfDeeds DEF Mapper!TypeOK, Mapper!CodesFor
  <2>2. Mapper!Silent(answer) <=> answer.code \in {"none", "5206"}
            /\ "PENDING" \notin answer.phrases
            /\ "PROCESSING" \notin answer.phrases
    BY <2>1 DEF Mapper!Silent
  <2> QED BY <1>5, <1>0, <2>1, <2>2 DEF SaysApproved, SaysRejected, SaysFailed, SaysWaiting,
                                      Mapper!Negated, Mapper!StatusOf
<1>6. CASE deed = "declined"
  <2>1. answer.phrases \subseteq {"UNSUCCESSFUL", "NOT APPROVED", "other"}
        /\ answer.code \in {"none", "5206"}
    BY <1>6, PhrasesOfDeeds DEF Mapper!TypeOK, Mapper!CodesFor
  <2>2. Mapper!Silent(answer) <=> answer.code \in {"none", "5206"}
            /\ "NOT APPROVED" \notin answer.phrases
    BY <2>1 DEF Mapper!Silent
  <2> QED BY <1>6, <1>0, <2>1, <2>2 DEF SaysApproved, SaysRejected, SaysFailed, SaysWaiting,
                                      Mapper!Negated, Mapper!StatusOf
<1> QED BY <1>1, <1>2, <1>3, <1>4, <1>5, <1>6 DEF Mapper!TypeOK, Mapper!Deeds

LEMMA MapperMoves == [Next]_vars => [Mapper!Next]_(Mapper!mapperVars)
BY DEF Next, vars, mapperVars, Mapper!mapperVars

\* What the mapper makes of an answer is what the provider did, for every set of
\* the phrases, each code and HTTP class, but for silent answers and refusals
\* worded as a negated success.
THEOREM MapperIsRight ==
    (Mapper!Spec => []Mapper!MapperAgrees) /\ (Spec => []MapperAgrees)
<1>1. Init => Mapper!Init
  BY DEF Init
<1>2. Mapper!MapperAgrees => MapperAgrees
  BY DEF MapperAgrees
<1>3. Mapper!Spec => []Mapper!MapperAgrees
  BY MappedAgrees, MapperInit, MapperNext, PTL DEF Mapper!Spec
<1>4. Spec => []MapperAgrees
  BY <1>1, <1>2, MappedAgrees, MapperInit, MapperNext, MapperMoves, PTL DEF Spec
<1> QED BY <1>3, <1>4

----------------------------------------------------------------------------
(* Reviews and review reminders. *)

RevCalls == {"idle", "insert", "flag"}
RevState == {"none", "delayed", "look", "record", "push", "completed", "failed"}
RevJob == [state: RevState, devices: BOOLEAN, failures: 0..Attempts, stalls: 0..2]

\* A request that is to set the flag has inserted its review.
FlagsItsReview == \A c \in Calls : revCall[c] = "flag" => reviews = 1

\* Before the order is collected there is no job.
NoEarlyReminder == ~collected => reminder.state = "none"

\* A job that may still run has an attempt left, and lost one worker at most.
AttemptsLeft ==
    /\ reminder.state \notin {"completed", "failed"} => reminder.failures < Attempts
    /\ reminder.state # "failed" => reminder.stalls <= 1

\* Rows and pushes of the attempts so far: the present attempt has its row once it
\* pushes, its push once it completed.
RowsOfAttempts ==
    /\ pushes <= notices
    /\ reminder.state = "push" => pushes < notices
    /\ notices <= 1 + reminder.failures + reminder.stalls
    /\ reminder.state \in {"none", "delayed", "look", "record"} =>
           notices <= reminder.failures + reminder.stalls
    /\ pushes <= 1 + broken
    /\ reminder.state # "completed" => pushes <= broken
    /\ reminder.state = "completed" => pushes > 0 \/ notices > 0 \/ reviews = 1

RevInv == /\ Rev!TypeOK /\ FlagsItsReview /\ NoEarlyReminder /\ AttemptsLeft /\ RowsOfAttempts
          /\ Rev!ReviewedOnce

LEMMA RevInit == Rev!Init => RevInv
<1> SUFFICES ASSUME Rev!Init PROVE RevInv
  OBVIOUS
<1>1. Rev!NoJob \in RevJob /\ Rev!NoJob.state = "none" /\ Rev!NoJob.failures = 0 /\ Rev!NoJob.stalls = 0
  BY EngagementAssumption DEF Rev!NoJob, RevJob, RevState
<1>2. Rev!TypeOK
  BY <1>1 DEF Rev!Init, Rev!TypeOK, RevJob, RevState
<1> QED BY <1>1, <1>2, EngagementAssumption
        DEF Rev!Init, RevInv, FlagsItsReview, NoEarlyReminder, AttemptsLeft, RowsOfAttempts,
            Rev!ReviewedOnce

\* A request moves: the job, its rows and pushes stay as they are.
LEMMA RevCallKeeps ==
    ASSUME RevInv, NEW c \in Calls, NEW pc \in RevCalls,
           revCall' = [revCall EXCEPT ![c] = pc],
           UNCHANGED <<collected, reminder, notices, pushes, broken>>,
           reviews' \in Nat, hasReviewed' \in BOOLEAN, halfDone' \in BOOLEAN,
           reviews = 1 => reviews' = 1,
           pc = "flag" => reviews' = 1,
           Rev!ReviewedOnce'
    PROVE  RevInv'
<1>1. /\ revCall' \in [Calls -> RevCalls] /\ revCall'[c] = pc
      /\ \A d \in Calls \ {c} : revCall'[d] = revCall[d]
  BY DEF RevInv, Rev!TypeOK, RevCalls
<1>2. Rev!TypeOK'
  BY <1>1 DEF RevInv, Rev!TypeOK, RevCalls
<1>3. FlagsItsReview'
  BY <1>1 DEF RevInv, FlagsItsReview
<1>4. NoEarlyReminder' /\ AttemptsLeft' /\ RowsOfAttempts'
  BY DEF RevInv, NoEarlyReminder, AttemptsLeft, RowsOfAttempts
<1> QED BY <1>2, <1>3, <1>4 DEF RevInv

\* The job moves to job, with so many rows and pushes.
LEMMA ReminderKeeps ==
    ASSUME RevInv, NEW job \in RevJob, NEW n \in Nat, NEW p \in Nat, NEW b \in Nat,
           reminder' = job, notices' = n, pushes' = p, broken' = b,
           UNCHANGED <<hasReviewed, reviews, revCall, halfDone>>,
           collected' \in BOOLEAN,
           ~collected' => job.state = "none",
           job.state \notin {"completed", "failed"} => job.failures < Attempts,
           job.state # "failed" => job.stalls <= 1,
           p <= n, job.state = "push" => p < n,
           n <= 1 + job.failures + job.stalls,
           job.state \in {"none", "delayed", "look", "record"} => n <= job.failures + job.stalls,
           p <= 1 + b,
           job.state # "completed" => p <= b,
           job.state = "completed" => p > 0 \/ n > 0 \/ reviews = 1
    PROVE  RevInv'
<1>1. Rev!TypeOK'
  BY DEF RevInv, Rev!TypeOK, RevJob, RevState
<1>2. NoEarlyReminder' /\ AttemptsLeft' /\ RowsOfAttempts'
  BY DEF NoEarlyReminder, AttemptsLeft, RowsOfAttempts
<1>3. FlagsItsReview' /\ Rev!ReviewedOnce'
  BY DEF RevInv, FlagsItsReview, Rev!ReviewedOnce
<1> QED BY <1>1, <1>2, <1>3 DEF RevInv

LEMMA ReminderTyped ==
    ASSUME RevInv
    PROVE  /\ reminder \in RevJob /\ notices \in Nat /\ pushes \in Nat /\ broken \in Nat
           /\ reminder.state \in RevState /\ reminder.failures \in 0..Attempts
           /\ reminder.stalls \in 0..2 /\ reminder.failures \in Nat /\ reminder.stalls \in Nat
           /\ Attempts \in Nat
BY EngagementAssumption DEF RevInv, Rev!TypeOK, RevJob, RevState

\* One job's fields after a move of its state.
LEMMA ReminderState ==
    ASSUME NEW job \in RevJob, NEW state \in RevState
    PROVE  /\ [job EXCEPT !.state = state] \in RevJob
           /\ [job EXCEPT !.state = state].state = state
           /\ [job EXCEPT !.state = state].failures = job.failures
           /\ [job EXCEPT !.state = state].stalls = job.stalls
BY DEF RevJob, RevState

LEMMA CompleteOrderKeeps == ASSUME RevInv, Rev!CompleteOrder PROVE RevInv'
<1>1. PICK state \in {"none", "delayed"} : reminder' = [reminder EXCEPT !.state = state]
  BY DEF Rev!CompleteOrder
<1>2. /\ reminder' \in RevJob /\ reminder'.state = state
      /\ reminder'.failures = reminder.failures /\ reminder'.stalls = reminder.stalls
  <2>1. state \in RevState
    BY DEF RevState
  <2> QED BY <1>1, <2>1, ReminderState, ReminderTyped
<1>3. /\ ~collected /\ collected' = TRUE
      /\ UNCHANGED <<hasReviewed, reviews, revCall, halfDone, notices, pushes, broken>>
  BY DEF Rev!CompleteOrder
<1>4. reminder.state = "none"
  BY <1>3 DEF RevInv, NoEarlyReminder
<1> QED BY <1>2, <1>3, <1>4, ReminderTyped, ReminderKeeps
        DEF RevInv, AttemptsLeft, RowsOfAttempts

LEMMA StepKeeps ==
    ASSUME RevInv, Rev!TakeReminder \/ Rev!LookForReview \/ Rev!RecordNotification \/ Rev!PushReminder
    PROVE  RevInv'
<1>0. collected
  BY DEF RevInv, NoEarlyReminder, Rev!TakeReminder, Rev!LookForReview, Rev!RecordNotification,
         Rev!PushReminder
<1>1. CASE Rev!TakeReminder
  <2>1. /\ reminder' \in RevJob /\ reminder'.state = "look"
        /\ reminder'.failures = reminder.failures /\ reminder'.stalls = reminder.stalls
    BY <1>1, ReminderState, ReminderTyped DEF Rev!TakeReminder, RevState
  <2>2. /\ reminder.state = "delayed"
        /\ UNCHANGED <<collected, hasReviewed, reviews, revCall, halfDone, notices, pushes, broken>>
    BY <1>1 DEF Rev!TakeReminder, Rev!orderVars
  <2> QED BY <1>0, <2>1, <2>2, ReminderTyped, ReminderKeeps
          DEF RevInv, AttemptsLeft, RowsOfAttempts, Rev!TypeOK
<1>2. CASE Rev!LookForReview
  <2>2. /\ reminder.state = "look"
        /\ UNCHANGED <<collected, hasReviewed, reviews, revCall, halfDone, notices, pushes, broken>>
    BY <1>2 DEF Rev!LookForReview, Rev!orderVars
  <2>3. CASE (reviews > 0 \/ hasReviewed) /\ reminder' = [reminder EXCEPT !.state = "completed"]
    <3>1. /\ reminder' \in RevJob /\ reminder'.state = "completed"
          /\ reminder'.failures = reminder.failures /\ reminder'.stalls = reminder.stalls
      BY <2>3, ReminderState, ReminderTyped DEF RevState
    <3>2. reviews = 1
      BY <2>3 DEF RevInv, Rev!ReviewedOnce, Rev!TypeOK
    <3> QED BY <1>0, <2>2, <3>1, <3>2, ReminderTyped, ReminderKeeps
            DEF RevInv, AttemptsLeft, RowsOfAttempts, Rev!TypeOK
  <2>4. ASSUME NEW devs \in BOOLEAN,
               reminder' = [reminder EXCEPT !.state = "record", !.devices = devs]
        PROVE  RevInv'
    <3>1. /\ reminder' \in RevJob /\ reminder'.state = "record"
          /\ reminder'.failures = reminder.failures /\ reminder'.stalls = reminder.stalls
      BY <2>4, ReminderTyped DEF RevJob, RevState
    <3> QED BY <1>0, <2>2, <3>1, ReminderTyped, ReminderKeeps
            DEF RevInv, AttemptsLeft, RowsOfAttempts, Rev!TypeOK
  <2> QED BY <1>2, <2>3, <2>4 DEF Rev!LookForReview
<1>3. CASE Rev!RecordNotification
  <2>1. PICK state \in {"push", "completed"} : reminder' = [reminder EXCEPT !.state = state]
    BY <1>3 DEF Rev!RecordNotification
  <2>2. /\ reminder' \in RevJob /\ reminder'.state = state
        /\ reminder'.failures = reminder.failures /\ reminder'.stalls = reminder.stalls
    <3>1. state \in RevState
      BY DEF RevState
    <3> QED BY <2>1, <3>1, ReminderState, ReminderTyped
  <2>3. /\ reminder.state = "record" /\ notices' = notices + 1
        /\ UNCHANGED <<collected, hasReviewed, reviews, revCall, halfDone, pushes, broken>>
    BY <1>3 DEF Rev!RecordNotification, Rev!orderVars
  <2>4. /\ pushes <= notices /\ notices <= reminder.failures + reminder.stalls
        /\ pushes <= broken /\ reminder.failures < Attempts /\ reminder.stalls <= 1
    BY <2>3 DEF RevInv, AttemptsLeft, RowsOfAttempts
  <2> DEFINE n == notices + 1
  <2>5. n \in Nat /\ n > pushes /\ n <= 1 + reminder.failures + reminder.stalls /\ n > 0
    BY <2>4, ReminderTyped
  <2>6. notices' = n /\ pushes' = pushes /\ broken' = broken /\ collected' \in BOOLEAN /\ collected'
    BY <1>0, <2>3 DEF RevInv, Rev!TypeOK
  <2> HIDE DEF n
  <2> QED BY <2>2, <2>3, <2>4, <2>5, <2>6, ReminderTyped, ReminderKeeps
<1>4. CASE Rev!PushReminder
  <2>1. /\ reminder' \in RevJob /\ reminder'.state = "completed"
        /\ reminder'.failures = reminder.failures /\ reminder'.stalls = reminder.stalls
    BY <1>4, ReminderState, ReminderTyped DEF Rev!PushReminder, RevState
  <2>2. /\ reminder.state = "push" /\ pushes' = pushes + 1
        /\ UNCHANGED <<collected, hasReviewed, reviews, revCall, halfDone, notices, broken>>
    BY <1>4 DEF Rev!PushReminder, Rev!orderVars
  <2>3. /\ pushes < notices /\ notices <= 1 + reminder.failures + reminder.stalls
        /\ pushes <= broken /\ reminder.stalls <= 1
    BY <2>2 DEF RevInv, AttemptsLeft, RowsOfAttempts
  <2> DEFINE p == pushes + 1
  <2>4. p \in Nat /\ p <= notices /\ p <= 1 + broken /\ p > 0
    BY <2>3, ReminderTyped
  <2>5. pushes' = p /\ notices' = notices /\ broken' = broken /\ collected' \in BOOLEAN /\ collected'
    BY <1>0, <2>2 DEF RevInv, Rev!TypeOK
  <2> HIDE DEF p
  <2> QED BY <2>1, <2>2, <2>3, <2>4, <2>5, ReminderTyped, ReminderKeeps
<1> QED BY <1>1, <1>2, <1>3, <1>4

\* What an attempt that breaks off leaves behind, as its job has one more failure or
\* has lost one more worker.
LEMMA BehindKeeps ==
    ASSUME RevInv, Rev!Working, Rev!LeavesBehind, UNCHANGED Rev!orderVars,
           NEW job \in RevJob, reminder' = job, job.state \in {"failed", "delayed"},
           job.failures + job.stalls = reminder.failures + reminder.stalls + 1,
           job.state # "failed" => job.failures < Attempts /\ job.stalls <= 1
    PROVE  RevInv'
<1>1. /\ reminder.state \in {"look", "record", "push"}
      /\ pushes <= notices /\ pushes <= broken
      /\ reminder.state = "push" => pushes < notices
      /\ notices <= 1 + reminder.failures + reminder.stalls
      /\ reminder.state # "push" => notices <= reminder.failures + reminder.stalls
      /\ collected /\ collected \in BOOLEAN
  BY DEF Rev!Working, RevInv, NoEarlyReminder, RowsOfAttempts, Rev!TypeOK
<1>2. UNCHANGED <<collected, hasReviewed, reviews, revCall, halfDone>>
  BY DEF Rev!orderVars
<1>3. /\ notices' \in Nat /\ pushes' \in Nat /\ broken' \in Nat
      /\ notices' <= job.failures + job.stalls /\ pushes' <= notices' /\ pushes' <= broken'
  <2>1. CASE reminder.state = "look"
    BY <1>1, <2>1, ReminderTyped DEF Rev!LeavesBehind
  <2>2. CASE reminder.state = "record"
    BY <1>1, <2>2, ReminderTyped DEF Rev!LeavesBehind
  <2>3. CASE reminder.state = "push"
    BY <1>1, <2>3, ReminderTyped DEF Rev!LeavesBehind
  <2> QED BY <1>1, <2>1, <2>2, <2>3
<1>4. PICK n \in Nat, p \in Nat, b \in Nat : n = notices' /\ p = pushes' /\ b = broken'
  BY <1>3
<1>5. job.failures \in Nat /\ job.stalls \in Nat
  BY EngagementAssumption DEF RevJob
<1>6. n <= 1 + job.failures + job.stalls /\ p <= 1 + b
  <2>1. n <= job.failures + job.stalls /\ p <= b
    BY Zenon, <1>3, <1>4
  <2> QED BY <1>5, <2>1
<1> QED BY <1>1, <1>2, <1>3, <1>4, <1>6, ReminderKeeps

LEMMA ErrorKeeps == ASSUME RevInv, Rev!ReminderError PROVE RevInv'
<1> DEFINE f == reminder.failures + 1
           state == IF f = Attempts THEN "failed" ELSE "delayed"
<1>1. reminder.state \in {"look", "record", "push"}
      /\ reminder.failures < Attempts /\ reminder.stalls <= 1
  BY DEF Rev!ReminderError, Rev!Working, RevInv, AttemptsLeft
<1>2. f \in 0..Attempts /\ state \in RevState /\ state \in {"failed", "delayed"}
      /\ (state # "failed" => f < Attempts)
  BY <1>1, ReminderTyped DEF RevState
<1>3. reminder' = [reminder EXCEPT !.failures = f, !.state = state]
  BY DEF Rev!ReminderError, Rev!Thrown
<1>4. /\ reminder' \in RevJob /\ reminder'.state = state /\ reminder'.failures = f
      /\ reminder'.stalls = reminder.stalls
  <2> HIDE DEF f, state
  <2> QED BY <1>2, <1>3, ReminderTyped DEF RevJob
<1>5. f + reminder.stalls = reminder.failures + reminder.stalls + 1
  BY ReminderTyped
<1>6. Rev!Working /\ Rev!LeavesBehind /\ UNCHANGED Rev!orderVars
  BY DEF Rev!ReminderError
<1> HIDE DEF f, state
<1> QED BY <1>1, <1>2, <1>4, <1>5, <1>6, BehindKeeps

LEMMA DeathKeeps == ASSUME RevInv, Rev!ReminderWorkerDies PROVE RevInv'
<1> DEFINE s == reminder.stalls + 1
           state == IF reminder.stalls = 0 THEN "delayed" ELSE "failed"
<1>1. reminder.state \in {"look", "record", "push"}
      /\ reminder.failures < Attempts /\ reminder.stalls <= 1
  BY DEF Rev!ReminderWorkerDies, Rev!Working, RevInv, AttemptsLeft
<1>2. s \in 0..2 /\ state \in RevState /\ state \in {"failed", "delayed"}
      /\ (state # "failed" => s <= 1)
  BY <1>1, ReminderTyped DEF RevState
<1>3. reminder' = [reminder EXCEPT !.stalls = s, !.state = state]
  BY DEF Rev!ReminderWorkerDies
<1>4. /\ reminder' \in RevJob /\ reminder'.state = state /\ reminder'.stalls = s
      /\ reminder'.failures = reminder.failures
  <2> HIDE DEF s, state
  <2> QED BY <1>2, <1>3, ReminderTyped DEF RevJob
<1>5. reminder.failures + s = reminder.failures + reminder.stalls + 1
  BY ReminderTyped
<1>6. Rev!Working /\ Rev!LeavesBehind /\ UNCHANGED Rev!orderVars
  BY DEF Rev!ReminderWorkerDies
<1> HIDE DEF s, state
<1> QED BY <1>1, <1>2, <1>4, <1>5, <1>6, BehindKeeps

LEMMA CreateReviewKeeps ==
    ASSUME RevInv, NEW c \in Calls, Rev!CreateReview(c)
    PROVE  RevInv'
<1>0. /\ reviews \in Nat /\ hasReviewed \in BOOLEAN /\ halfDone \in BOOLEAN
      /\ revCall \in [Calls -> RevCalls] /\ RevCalls = {"idle", "insert", "flag"}
  BY DEF RevInv, Rev!TypeOK, RevCalls
<1>1. CASE Rev!CheckOrder(c)
  <2>1. /\ revCall[c] = "idle" /\ revCall' = [revCall EXCEPT ![c] = "insert"]
        /\ UNCHANGED <<collected, hasReviewed, reviews, halfDone, reminder, notices, pushes, broken>>
    BY <1>1 DEF Rev!CheckOrder, Rev!reminderVars
  <2>2. Rev!ReviewedOnce'
    BY <1>0, <2>1 DEF RevInv, Rev!ReviewedOnce
  <2> QED BY <1>0, <2>1, <2>2, RevCallKeeps
<1>2. CASE Rev!InsertReview(c)
  <2>1. /\ revCall[c] = "insert" /\ revCall' = [revCall EXCEPT ![c] = "flag"]
        /\ reviews = 0 /\ reviews' = 1
        /\ UNCHANGED <<collected, hasReviewed, halfDone, reminder, notices, pushes, broken>>
    BY <1>2 DEF Rev!InsertReview, Rev!reminderVars
  <2>2. Rev!ReviewedOnce'
    BY <1>0, <2>1 DEF RevInv, Rev!ReviewedOnce
  <2> QED BY <1>0, <2>1, <2>2, RevCallKeeps
<1>3. CASE Rev!SaveOrder(c)
  <2>1. /\ revCall[c] = "flag" /\ revCall' = [revCall EXCEPT ![c] = "idle"]
        /\ hasReviewed' = TRUE
        /\ UNCHANGED <<collected, reviews, halfDone, reminder, notices, pushes, broken>>
    BY <1>3 DEF Rev!SaveOrder, Rev!reminderVars
  <2>2. reviews = 1
    BY <2>1 DEF RevInv, FlagsItsReview
  <2>3. Rev!ReviewedOnce'
    BY <2>1, <2>2 DEF Rev!ReviewedOnce
  <2> QED BY <1>0, <2>1, <2>3, RevCallKeeps
<1>4. CASE Rev!AbandonReview(c)
  <2>1. /\ revCall[c] # "idle" /\ revCall' = [revCall EXCEPT ![c] = "idle"]
        /\ halfDone' = (halfDone \/ revCall[c] = "flag")
        /\ UNCHANGED <<collected, hasReviewed, reviews, reminder, notices, pushes, broken>>
    BY <1>4 DEF Rev!AbandonReview, Rev!reminderVars
  <2>2. Rev!ReviewedOnce'
    BY <1>0, <2>1 DEF RevInv, Rev!ReviewedOnce
  <2> QED BY <1>0, <2>1, <2>2, RevCallKeeps
<1> QED BY <1>1, <1>2, <1>3, <1>4 DEF Rev!CreateReview

LEMMA RevNext == RevInv /\ [Rev!Next]_(Rev!reviewVars) => RevInv'
<1> SUFFICES ASSUME RevInv, [Rev!Next]_(Rev!reviewVars) PROVE RevInv'
  OBVIOUS
<1>1. CASE UNCHANGED Rev!reviewVars
  BY <1>1 DEF Rev!reviewVars, RevInv, Rev!TypeOK, FlagsItsReview, NoEarlyReminder, AttemptsLeft,
              RowsOfAttempts, Rev!ReviewedOnce
<1>2. CASE Rev!Next
  BY <1>2, CompleteOrderKeeps, StepKeeps, ErrorKeeps, DeathKeeps, CreateReviewKeeps
     DEF Rev!Next, Rev!HandleReviewReminder
<1> QED BY <1>1, <1>2

LEMMA RevMoves == [Next]_vars => [Rev!Next]_(Rev!reviewVars)
BY DEF Next, vars, reviewVars, Rev!reviewVars

\* An order has at most one review and a flag that tells of it, for any number of
\* overlapping requests.
THEOREM ReviewsAreOnce ==
    (Rev!Spec => []Rev!ReviewedOnce) /\ (Spec => []ReviewedOnce)
<1>1. RevInv => Rev!ReviewedOnce /\ ReviewedOnce
  BY DEF RevInv, ReviewedOnce
<1>2. Init => Rev!Init
  BY DEF Init
<1>3. Rev!Spec => []Rev!ReviewedOnce
  BY <1>1, RevInit, RevNext, PTL DEF Rev!Spec
<1>4. Spec => []ReviewedOnce
  BY <1>1, <1>2, RevInit, RevNext, RevMoves, PTL DEF Spec
<1> QED BY <1>3, <1>4

\* Reminders, notification rows and attempts add up, for every number of attempts,
\* wherever one throws or its worker dies.
THEOREM RemindersDoAddUp ==
    (Rev!Spec => []Rev!RemindersAddUp) /\ (Spec => []RemindersAddUp)
<1>1. RevInv => Rev!RemindersAddUp /\ RemindersAddUp
  BY DEF RevInv, RowsOfAttempts, Rev!RemindersAddUp, RemindersAddUp
<1>2. Init => Rev!Init
  BY DEF Init
<1>3. Rev!Spec => []Rev!RemindersAddUp
  BY <1>1, RevInit, RevNext, PTL DEF Rev!Spec
<1>4. Spec => []RemindersAddUp
  BY <1>1, <1>2, RevInit, RevNext, RevMoves, PTL DEF Spec
<1> QED BY <1>3, <1>4

----------------------------------------------------------------------------
(* The expiry job of a hold. *)

HoldState == {"none", "delayed", "active", "clearing", "completed", "failed"}
HoldJob == [state: HoldState, failures: 0..Attempts, errors: 0..MaxErrors, stalls: 0..2]

\* A job that may still run has an attempt left, and lost one worker at most.
HoldAttemptsLeft ==
    /\ holdJob.state \in {"none", "delayed", "active", "clearing"} => holdJob.failures < Attempts
    /\ holdJob.state # "failed" => holdJob.stalls <= 1

JobsInv == Jobs!TypeOK /\ HoldAttemptsLeft

LEMMA JobsInit == Jobs!Init => JobsInv
<1> SUFFICES ASSUME Jobs!Init PROVE JobsInv
  OBVIOUS
<1>1. /\ Jobs!NoJob \in HoldJob /\ Jobs!NoJob.state = "none" /\ Jobs!NoJob.failures = 0
      /\ Jobs!NoJob.stalls = 0
  BY EngagementAssumption DEF Jobs!NoJob, HoldJob, HoldState
<1> QED BY <1>1, EngagementAssumption
        DEF Jobs!Init, JobsInv, Jobs!TypeOK, HoldAttemptsLeft, HoldJob, HoldState

LEMMA JobsKeep ==
    ASSUME JobsInv, NEW job \in HoldJob, holdJob' = job,
           held' \in BOOLEAN, lag' = lag,
           job.state \in {"none", "delayed", "active", "clearing"} => job.failures < Attempts,
           job.state # "failed" => job.stalls <= 1
    PROVE  JobsInv'
BY DEF JobsInv, Jobs!TypeOK, HoldAttemptsLeft, HoldJob, HoldState

LEMMA JobTyped ==
    ASSUME JobsInv
    PROVE  /\ holdJob \in HoldJob /\ holdJob.state \in HoldState
           /\ holdJob.failures \in 0..Attempts /\ holdJob.failures \in Nat /\ Attempts \in Nat
           /\ holdJob.errors \in 0..MaxErrors /\ MaxErrors \in Nat
           /\ holdJob.stalls \in 0..2 /\ held \in BOOLEAN
BY EngagementAssumption DEF JobsInv, Jobs!TypeOK, HoldJob, HoldState

LEMMA JobState ==
    ASSUME JobsInv, NEW state \in HoldState
    PROVE  LET job == [holdJob EXCEPT !.state = state] IN
           /\ job \in HoldJob /\ job.state = state
           /\ job.failures = holdJob.failures /\ job.stalls = holdJob.stalls
BY JobTyped DEF HoldJob

LEMMA ThrownKeeps ==
    ASSUME JobsInv, holdJob.state \in {"active", "clearing"}
    PROVE  LET job == Jobs!Thrown(holdJob) IN
           /\ job \in HoldJob /\ job.stalls <= 1 /\ job.errors = holdJob.errors
           /\ job.state \in {"delayed", "failed"}
           /\ job.state # "failed" => job.failures < Attempts
<1> DEFINE n == holdJob.failures + 1
           state == IF n = Attempts THEN "failed" ELSE "delayed"
           job == [holdJob EXCEPT !.failures = n, !.state = state]
<1>1. n \in 0..Attempts /\ n \in Nat /\ holdJob.stalls <= 1
  BY JobTyped DEF JobsInv, HoldAttemptsLeft
<1>2. state \in {"delayed", "failed"} /\ (state # "failed" => n < Attempts)
  BY <1>1, JobTyped
<1>3. Jobs!Thrown(holdJob) = job
  BY DEF Jobs!Thrown
<1> HIDE DEF n, state
<1>4. job \in HoldJob /\ job.state = state /\ job.failures = n /\ job.stalls = holdJob.stalls
      /\ job.errors = holdJob.errors
  BY <1>1, <1>2, JobTyped DEF HoldJob, HoldState
<1> QED BY <1>1, <1>2, <1>3, <1>4

LEMMA JobsNext == JobsInv /\ [Jobs!Next]_(Jobs!holdVars) => JobsInv'
<1> SUFFICES ASSUME JobsInv, [Jobs!Next]_(Jobs!holdVars) PROVE JobsInv'
  OBVIOUS
<1> USE DEF HoldState
<1>0. JobsInv => (holdJob.state \in {"none", "delayed", "active", "clearing"} =>
                      holdJob.failures < Attempts)
                 /\ (holdJob.state # "failed" => holdJob.stalls <= 1)
  BY DEF JobsInv, HoldAttemptsLeft
<1>1. CASE UNCHANGED Jobs!holdVars
  BY <1>1 DEF Jobs!holdVars, JobsInv, Jobs!TypeOK, HoldAttemptsLeft
<1>2. CASE Jobs!ScheduleHoldExpiry
  <2> DEFINE job == [Jobs!NoJob EXCEPT !.state = "delayed"]
  <2>1. job \in HoldJob /\ job.state = "delayed" /\ job.failures < Attempts /\ job.stalls = 0
    BY EngagementAssumption DEF Jobs!NoJob, HoldJob
  <2>2. holdJob' = job /\ held' = held /\ lag' = lag
    BY <1>2 DEF Jobs!ScheduleHoldExpiry
  <2> HIDE DEF job
  <2> QED BY <2>1, <2>2, JobTyped, JobsKeep
<1>3. CASE Jobs!TakeJob
  BY <1>0, <1>3, JobState, JobTyped, JobsKeep DEF Jobs!TakeJob
<1>4. CASE Jobs!HandleHoldExpiry
  <2>1. CASE Jobs!RunEarly
    BY <2>1, ThrownKeeps, JobTyped, JobsKeep DEF Jobs!RunEarly
  <2>2. CASE Jobs!ExpireOrder
    BY <1>0, <2>2, JobState, JobTyped, JobsKeep DEF Jobs!ExpireOrder
  <2>3. CASE Jobs!SkipOrder
    BY <1>0, <2>3, JobState, JobTyped, JobsKeep DEF Jobs!SkipOrder
  <2>4. CASE Jobs!ClearState
    BY <1>0, <2>4, JobState, JobTyped, JobsKeep DEF Jobs!ClearState
  <2> QED BY <1>4, <2>1, <2>2, <2>3, <2>4 DEF Jobs!HandleHoldExpiry
<1>5. CASE Jobs!JobError
  <2> DEFINE thrown == Jobs!Thrown(holdJob)
             e == thrown.errors + 1
             job == [thrown EXCEPT !.errors = e]
  <2>1. /\ thrown \in HoldJob /\ thrown.stalls <= 1 /\ thrown.errors = holdJob.errors
        /\ thrown.state \in {"delayed", "failed"}
        /\ thrown.state # "failed" => thrown.failures < Attempts
    BY <1>5, ThrownKeeps DEF Jobs!JobError, Jobs!Running
  <2>2. holdJob' = job /\ held' = held /\ lag' = lag /\ holdJob.errors < MaxErrors
    BY <1>5 DEF Jobs!JobError
  <2> HIDE DEF thrown
  <2>3. e \in 0..MaxErrors
    BY <2>1, <2>2, JobTyped
  <2> HIDE DEF e
  <2>4. job \in HoldJob /\ job.state = thrown.state /\ job.failures = thrown.failures
        /\ job.stalls = thrown.stalls
    BY <2>1, <2>3 DEF HoldJob
  <2> HIDE DEF job
  <2> QED BY <2>1, <2>2, <2>4, JobTyped, JobsKeep
<1>6. CASE Jobs!WorkerDies
  <2> DEFINE s == holdJob.stalls + 1
             state == IF holdJob.stalls = 0 THEN "delayed" ELSE "failed"
             job == [holdJob EXCEPT !.stalls = s, !.state = state]
  <2>1. holdJob.state \in {"active", "clearing"} /\ holdJob' = job /\ held' = held /\ lag' = lag
    BY <1>6 DEF Jobs!WorkerDies, Jobs!Running
  <2>2. s \in 0..2 /\ state \in {"delayed", "failed"} /\ (state # "failed" => s <= 1)
    BY <1>0, <2>1, JobTyped
  <2> HIDE DEF s, state
  <2>3. job \in HoldJob /\ job.state = state /\ job.stalls = s /\ job.failures = holdJob.failures
    BY <2>2, JobTyped DEF HoldJob
  <2> HIDE DEF job
  <2> QED BY <1>0, <2>1, <2>2, <2>3, JobTyped, JobsKeep
<1>7. CASE Jobs!CloseOrder
  <2>1. held' = FALSE /\ holdJob' = holdJob /\ lag' = lag
    BY <1>7 DEF Jobs!CloseOrder
  <2> QED BY <1>0, <2>1, JobTyped, JobsKeep
<1>8. CASE Jobs!CancelHoldExpiry
  <2>1. Jobs!NoJob \in HoldJob /\ Jobs!NoJob.state = "none" /\ Jobs!NoJob.failures < Attempts
        /\ Jobs!NoJob.stalls = 0
    BY EngagementAssumption DEF Jobs!NoJob, HoldJob
  <2>2. holdJob' = Jobs!NoJob /\ held' = held /\ lag' = lag
    BY <1>8 DEF Jobs!CancelHoldExpiry
  <2> QED BY <2>1, <2>2, JobTyped, JobsKeep
<1> QED BY <1>1, <1>2, <1>3, <1>4, <1>5, <1>6, <1>7, <1>8 DEF Jobs!Next

LEMMA JobsMove == [Next]_vars => [Jobs!Next]_(Jobs!holdVars)
BY DEF Next, vars, holdVars, Jobs!holdVars

----------------------------------------------------------------------------
(* Lists by day. *)

\* Multiples of a day are at least a day apart.
LEMMA DaysApart ==
    ASSUME NEW D \in Nat \ {0}, NEW a \in Int, NEW b \in Int, a < b
    PROVE  a * D + D <= b * D
<1>1. b - a - 1 \in Nat /\ D \in Nat
  OBVIOUS
<1>2. (b - a - 1) * D >= 0
  BY <1>1
<1>3. b * D = (b - a - 1) * D + a * D + D
  BY <1>1
<1> QED BY <1>1, <1>2, <1>3

\* An instant lies in exactly one day: the one its quotient names.
LEMMA DayOf ==
    ASSUME NEW D \in Nat \ {0}, NEW t \in Nat
    PROVE  /\ t \div D \in Nat /\ t % D \in 0..D-1
           /\ (t \div D) * D + (t % D) = t
           /\ (t \div D) * D <= t /\ t < (t \div D) * D + D
OBVIOUS

LEMMA OneDay ==
    ASSUME NEW D \in Nat \ {0}, NEW t \in Nat, NEW d \in Int
    PROVE  (d * D <= t /\ t < d * D + D) <=> d = t \div D
<1> DEFINE q == t \div D
<1>1. q \in Nat /\ q * D <= t /\ t < q * D + D
  BY DayOf
<1> HIDE DEF q
<1>2. q * D \in Int /\ d * D \in Int
  BY <1>1
<1>3. d < q => d * D + D <= q * D
  BY <1>1, DaysApart
<1>4. q < d => q * D + D <= d * D
  BY <1>1, DaysApart
<1>5. d < q \/ d = q \/ q < d
  BY <1>1
<1> QED BY <1>1, <1>2, <1>3, <1>4, <1>5 DEF q

LEMMA DayAfter ==
    ASSUME NEW D \in Nat \ {0}, NEW t \in Nat, NEW d \in Int
    PROVE  d * D <= t <=> d <= t \div D
<1> DEFINE q == t \div D
<1>1. q \in Int /\ q * D <= t /\ t < q * D + D /\ q * D \in Int /\ d * D \in Int
  BY DayOf
<1> HIDE DEF q
<1>2. d < q => d * D + D <= q * D
  BY <1>1, DaysApart
<1>3. q < d => q * D + D <= d * D
  BY <1>1, DaysApart
<1>4. d < q \/ d = q \/ q < d
  BY <1>1
<1> QED BY <1>1, <1>2, <1>3, <1>4 DEF q

\* What happened since the start of a day happened since the start of its month.
LEMMA DayInMonth ==
    ASSUME NEW D \in Nat \ {0}, NEW M \in Nat \ {0}, NEW t \in Nat
    PROVE  t % D <= t % (D * M)
<1> DEFINE E == D * M
           q == t \div D
           m == t \div E
<1>1. E \in Nat \ {0} /\ E \in Nat
  OBVIOUS
<1>2. q \in Nat /\ q * D + (t % D) = t /\ t % D \in 0..D-1
  BY DayOf
<1>3. m \in Nat /\ m * E + (t % E) = t /\ t % E \in 0..E-1 /\ m * E <= t
  BY <1>1, DayOf
<1>4. m * E = (M * m) * D
  BY <1>3
<1> HIDE DEF E
<1>5. M * m \in Int
  BY <1>3
<1> HIDE DEF m
<1>6. M * m <= q
  <2>1. (M * m) * D <= t
    BY <1>3, <1>4
  <2> QED BY <1>5, <2>1, DayAfter
<1> HIDE DEF q
<1>7. (M * m) * D <= q * D
  <2>1. CASE M * m = q
    BY <1>2, <2>1
  <2>2. CASE M * m < q
    <3>1. (M * m) * D + D <= q * D
      BY <1>2, <1>5, <2>2, DaysApart
    <3>2. (M * m) * D \in Int /\ q * D \in Int
      BY <1>2, <1>5
    <3> QED BY <3>1, <3>2
  <2> QED BY <1>2, <1>5, <1>6, <2>1, <2>2
<1>8. (M * m) * D \in Int /\ q * D \in Int
  BY <1>2, <1>5
<1>9. t % D \in Int /\ t % E \in Int
  BY <1>2, <1>3
<1>10. t % D <= t % E
  BY <1>2, <1>3, <1>4, <1>7, <1>8, <1>9
<1> QED BY <1>10 DEF E

\* Times that the model can have.
RangesInv ==
    /\ Ranges!TypeOK
    /\ closedAs # "none" => placedAt \in 0..clock
    /\ closedAs \in {"COLLECTED", "CANCELLED_BY_ADMIN"} => closedAt \in 0..clock

LEMMA RangesInit == Ranges!Init => RangesInv
<1>1. LastDay * Day \in Nat
  BY EngagementAssumption
<1> QED BY <1>1 DEF Ranges!Init, RangesInv, Ranges!TypeOK, Ranges!Never

LEMMA RangesNext == RangesInv /\ [Ranges!Next]_(Ranges!dayVars) => RangesInv'
<1> SUFFICES ASSUME RangesInv, [Ranges!Next]_(Ranges!dayVars) PROVE RangesInv'
  OBVIOUS
<1> DEFINE last == LastDay * Day
<1>0. last \in Nat
  BY EngagementAssumption
<1>1. clock \in 0..last /\ clock \in Nat
  BY <1>0 DEF RangesInv, Ranges!TypeOK
<1>2. CASE UNCHANGED Ranges!dayVars
  BY <1>2 DEF Ranges!dayVars, RangesInv, Ranges!TypeOK
<1>3. CASE Ranges!PassTime
  <2>1. clock < last /\ clock' = clock + 1 /\ UNCHANGED <<placedAt, closedAt, closedAs>>
    BY <1>3 DEF Ranges!PassTime
  <2> HIDE DEF last
  <2>2. clock' \in 0..last /\ 0..clock \subseteq 0..clock'
    BY <1>0, <1>1, <2>1
  <2> QED BY <2>1, <2>2 DEF RangesInv, Ranges!TypeOK, last
<1>4. CASE Ranges!PlaceOrder
  BY <1>1, <1>4 DEF Ranges!PlaceOrder, RangesInv, Ranges!TypeOK
<1>5. ASSUME NEW as \in {"COLLECTED", "CANCELLED_BY_ADMIN"}, Ranges!CloseOrder(as)
      PROVE  RangesInv'
  <2>1. /\ closedAs = "open" /\ closedAt' = clock /\ closedAs' = as
        /\ UNCHANGED <<clock, placedAt>>
    BY <1>5 DEF Ranges!CloseOrder
  <2>2. placedAt \in 0..clock /\ clock \in 0..clock
    BY <1>1, <2>1 DEF RangesInv
  <2> QED BY <2>1, <2>2 DEF RangesInv, Ranges!TypeOK
<1> QED BY <1>2, <1>3, <1>4, <1>5 DEF Ranges!Next

\* A range of days holds an instant whose date in the zone is one of them.
LEMMA WithinDays ==
    ASSUME NEW t \in Nat, NEW first \in Int, NEW last \in Int
    PROVE  /\ Ranges!Within(t, Ranges!DateRange(first, last)) <=>
                  first <= Ranges!ZonedDate(t) /\ Ranges!ZonedDate(t) <= last
           /\ Ranges!ZonedDate(t) \in Nat
<1>1. Day \in Nat \ {0} /\ t + 1 \in Nat /\ last + 1 \in Int
  BY EngagementAssumption
<1> DEFINE q == (t + 1) \div Day
<1>2. q \in Nat
  BY <1>1, DayOf
<1>3. first * Day <= t + 1 <=> first <= q
  BY <1>1, DayAfter
<1>4. (last + 1) * Day <= t + 1 <=> last + 1 <= q
  BY <1>1, DayAfter
<1>5. Ranges!ZonedDate(t) = q
  BY DEF Ranges!ZonedDate, Ranges!Offset
<1>6. Ranges!Within(t, Ranges!DateRange(first, last)) <=>
          first * Day - 1 <= t /\ t < (last + 1) * Day - 1
  BY DEF Ranges!Within, Ranges!DateRange, Ranges!ZonedTimeToUtc, Ranges!Offset
<1>7. first * Day \in Int /\ (last + 1) * Day \in Int
  BY <1>1
<1> HIDE DEF q
<1> QED BY <1>1, <1>2, <1>3, <1>4, <1>5, <1>6, <1>7

\* One list over a range and over its days.
LEMMA RangeOfDays ==
    ASSUME NEW t \in Nat
    PROVE  /\ \A d \in Ranges!Days :
                  Ranges!Within(t, Ranges!DateRange(d, d)) <=> d = Ranges!ZonedDate(t)
           /\ \A first, last \in Ranges!Days :
                  Ranges!Within(t, Ranges!DateRange(first, last)) <=>
                      \E d \in first..last : Ranges!Within(t, Ranges!DateRange(d, d))
<1>0. Ranges!Days \subseteq Int /\ Ranges!ZonedDate(t) \in Nat
  BY EngagementAssumption, WithinDays DEF Ranges!Days
<1>1. ASSUME NEW d \in Int
      PROVE  Ranges!Within(t, Ranges!DateRange(d, d)) <=> d = Ranges!ZonedDate(t)
  BY <1>0, WithinDays
<1>2. ASSUME NEW first \in Ranges!Days, NEW last \in Ranges!Days
      PROVE  Ranges!Within(t, Ranges!DateRange(first, last)) <=>
                 \E d \in first..last : Ranges!Within(t, Ranges!DateRange(d, d))
  <2>1. first \in Int /\ last \in Int
    BY <1>0
  <2>2. Ranges!Within(t, Ranges!DateRange(first, last)) <=> Ranges!ZonedDate(t) \in first..last
    BY <1>0, <2>1, WithinDays
  <2>3. \A d \in first..last : d \in Int
    BY <2>1
  <2> QED BY <1>0, <1>1, <2>2, <2>3
<1> QED BY <1>0, <1>1, <1>2

LEMMA TodayIsADay ==
    Ranges!TodayRange = Ranges!DateRange(Ranges!ZonedDate(clock), Ranges!ZonedDate(clock))
BY DEF Ranges!TodayRange, Ranges!DateRange

\* The day of the finance figures: UTC's.
LEMMA UtcDay ==
    ASSUME NEW t \in Nat, clock \in Nat, t <= clock
    PROVE  t >= Ranges!UtcDayStart <=> t \div Day = clock \div Day
<1>1. Day \in Nat \ {0}
  BY EngagementAssumption
<1> DEFINE q == clock \div Day
           p == t \div Day
<1>2. q \in Nat /\ q * Day + (clock % Day) = clock /\ q * Day <= clock /\ clock < q * Day + Day
      /\ clock % Day \in Int
  BY <1>1, DayOf
<1>3. Ranges!UtcDayStart = q * Day
  BY <1>1, <1>2 DEF Ranges!UtcDayStart
<1>4. q * Day <= t <=> q <= p
  BY <1>1, <1>2, DayAfter
<1>5. p \in Nat /\ p * Day <= t
  BY <1>1, DayOf
<1>6. p <= q
  <2>1. p * Day <= clock
    BY <1>1, <1>5
  <2> QED BY <1>1, <1>5, <2>1, DayAfter
<1> HIDE DEF p, q
<1> QED BY <1>1, <1>2, <1>3, <1>4, <1>5, <1>6 DEF p, q

\* Outside the hours in which the dates differ, they are the same.
LEMMA SameDate ==
    ASSUME NEW t \in Nat, ~Ranges!Tomorrow(t)
    PROVE  Ranges!ZonedDate(t) = t \div Day
<1>1. Day \in Nat \ {0}
  BY EngagementAssumption
<1> DEFINE q == t \div Day
           r == t % Day
           u == t + 1
<1>2. q \in Nat /\ q * Day + r = t /\ r \in 0..Day-1
  BY <1>1, DayOf
<1>3. r < Day - 1
  BY <1>1, <1>2 DEF Ranges!Tomorrow, Ranges!Offset
<1> HIDE DEF q, r
<1>4. u \in Nat /\ q * Day \in Int /\ r \in Int /\ q \in Int
  BY <1>1, <1>2
<1>5. q * Day <= u /\ u < q * Day + Day
  BY <1>1, <1>2, <1>3, <1>4
<1> HIDE DEF u
<1>6. q = u \div Day
  BY <1>1, <1>4, <1>5, OneDay
<1> QED BY <1>6 DEF q, u, Ranges!ZonedDate, Ranges!Offset

LEMMA RangesPartition == RangesInv => Ranges!DaysPartition
<1> SUFFICES ASSUME RangesInv, closedAs # "none" PROVE Ranges!DaysPartition
  BY DEF Ranges!DaysPartition
<1>0. /\ clock \in Nat /\ placedAt \in Nat /\ placedAt <= clock
      /\ closedAs \in {"open", "COLLECTED", "CANCELLED_BY_ADMIN"}
      /\ closedAs \in {"COLLECTED", "CANCELLED_BY_ADMIN"} => closedAt \in Nat
  <2>1. LastDay * Day \in Nat
    BY EngagementAssumption
  <2> QED BY <2>1 DEF RangesInv, Ranges!TypeOK
<1>1. closedAs = "COLLECTED" =>
          \A d \in Ranges!Days : Ranges!CompletedIn(Ranges!DateRange(d, d)) = (d = Ranges!ZonedDate(placedAt))
  BY <1>0, RangeOfDays DEF Ranges!CompletedIn
<1>2. closedAs = "CANCELLED_BY_ADMIN" =>
          \A d \in Ranges!Days : Ranges!CancelledIn(Ranges!DateRange(d, d)) = (d = Ranges!ZonedDate(closedAt))
  BY <1>0, RangeOfDays DEF Ranges!CancelledIn
<1>3. \A first, last \in Ranges!Days :
          /\ Ranges!CompletedIn(Ranges!DateRange(first, last)) =
                 \E d \in first..last : Ranges!CompletedIn(Ranges!DateRange(d, d))
          /\ Ranges!CancelledIn(Ranges!DateRange(first, last)) =
                 \E d \in first..last : Ranges!CancelledIn(Ranges!DateRange(d, d))
  <2> SUFFICES ASSUME NEW first \in Ranges!Days, NEW last \in Ranges!Days
               PROVE  /\ Ranges!CompletedIn(Ranges!DateRange(first, last)) <=>
                             \E d \in first..last : Ranges!CompletedIn(Ranges!DateRange(d, d))
                      /\ Ranges!CancelledIn(Ranges!DateRange(first, last)) <=>
                             \E d \in first..last : Ranges!CancelledIn(Ranges!DateRange(d, d))
    BY Zenon DEF Ranges!CompletedIn, Ranges!CancelledIn
  <2>1. Ranges!CompletedIn(Ranges!DateRange(first, last)) <=>
            \E d \in first..last : Ranges!CompletedIn(Ranges!DateRange(d, d))
    BY <1>0, RangeOfDays DEF Ranges!CompletedIn
  <2>2. CASE closedAs = "CANCELLED_BY_ADMIN"
    BY <1>0, <2>1, <2>2, RangeOfDays DEF Ranges!CancelledIn
  <2>3. CASE closedAs # "CANCELLED_BY_ADMIN"
    BY <2>1, <2>3 DEF Ranges!CancelledIn
  <2> QED BY <2>2, <2>3
<1>4. closedAs = "open" => Ranges!PendingToday = (Ranges!ZonedDate(placedAt) = Ranges!ZonedDate(clock))
  <2>1. Ranges!ZonedDate(clock) \in Int
    BY <1>0, WithinDays
  <2>2. Ranges!Within(placedAt, Ranges!TodayRange) <=>
            Ranges!ZonedDate(clock) <= Ranges!ZonedDate(placedAt)
            /\ Ranges!ZonedDate(placedAt) <= Ranges!ZonedDate(clock)
    BY <1>0, <2>1, WithinDays, TodayIsADay
  <2>3. Ranges!ZonedDate(placedAt) \in Int
    BY <1>0, WithinDays
  <2> QED BY <2>1, <2>2, <2>3 DEF Ranges!PendingToday
<1>5. Ranges!FinanceToday => Ranges!FinanceMonth
  <2>1. Day \in Nat \ {0} /\ MonthDays \in Nat \ {0} /\ Day * MonthDays \in Nat \ {0}
    BY EngagementAssumption
  <2>2. clock % Day <= clock % (Day * MonthDays)
    BY <1>0, <2>1, DayInMonth
  <2>3. clock % Day \in Int
    BY <1>0, <2>1, DayOf
  <2>4. clock % (Day * MonthDays) \in Int
    <3> DEFINE E == Day * MonthDays
    <3>1. E \in Nat \ {0}
      BY <2>1
    <3> HIDE DEF E
    <3>2. clock % E \in 0..E-1 /\ E \in Nat
      BY <1>0, <3>1, DayOf
    <3>3. clock % E \in Int
      BY <3>2
    <3> QED BY <3>3 DEF E
  <2> QED BY <1>0, <2>2, <2>3, <2>4 DEF Ranges!FinanceToday, Ranges!FinanceMonth, Ranges!UtcDayStart,
                            Ranges!UtcMonthStart
<1>6. Ranges!FinanceToday # Ranges!Within(placedAt, Ranges!TodayRange) =>
          Ranges!Tomorrow(clock) \/ Ranges!Tomorrow(placedAt)
  <2> SUFFICES ASSUME ~Ranges!Tomorrow(clock), ~Ranges!Tomorrow(placedAt)
               PROVE  Ranges!FinanceToday = Ranges!Within(placedAt, Ranges!TodayRange)
    OBVIOUS
  <2>1. Ranges!ZonedDate(clock) = clock \div Day /\ Ranges!ZonedDate(placedAt) = placedAt \div Day
    BY <1>0, SameDate
  <2>2. Ranges!ZonedDate(clock) \in Int /\ Ranges!ZonedDate(placedAt) \in Int
    BY <1>0, WithinDays
  <2>3. Ranges!Within(placedAt, Ranges!TodayRange) <=>
            Ranges!ZonedDate(clock) <= Ranges!ZonedDate(placedAt)
            /\ Ranges!ZonedDate(placedAt) <= Ranges!ZonedDate(clock)
    BY <1>0, <2>2, WithinDays, TodayIsADay
  <2>4. Ranges!FinanceToday <=> placedAt \div Day = clock \div Day
    BY <1>0, UtcDay DEF Ranges!FinanceToday
  <2>5. Ranges!FinanceToday <=> Ranges!Within(placedAt, Ranges!TodayRange)
    BY <2>1, <2>2, <2>3, <2>4
  <2>6. Ranges!FinanceToday \in BOOLEAN /\ Ranges!Within(placedAt, Ranges!TodayRange) \in BOOLEAN
    BY DEF Ranges!FinanceToday, Ranges!Within
  <2> QED BY <2>5, <2>6
<1> QED BY <1>1, <1>2, <1>3, <1>4, <1>5, <1>6 DEF Ranges!DaysPartition

LEMMA RangesMove == [Next]_vars => [Ranges!Next]_(Ranges!dayVars)
BY DEF Next, vars, dayVars, Ranges!dayVars

\* Every order is listed under one day, for any length of a day in units of the
\* zone's offset, any length of a month and any number of days.
THEOREM DaysDoPartition ==
    (Ranges!Spec => []Ranges!DaysPartition) /\ (Spec => []DaysPartition)
<1>1. Init => Ranges!Init
  BY DEF Init
<1>2. Ranges!DaysPartition => DaysPartition
  BY DEF DaysPartition
<1>3. Ranges!Spec => []Ranges!DaysPartition
  BY RangesPartition, RangesInit, RangesNext, PTL DEF Ranges!Spec
<1>4. Spec => []DaysPartition
  BY <1>1, <1>2, RangesPartition, RangesInit, RangesNext, RangesMove, PTL DEF Spec
<1> QED BY <1>3, <1>4

----------------------------------------------------------------------------
(* Notifications. *)

LEMMA LeastOf ==
    ASSUME NEW S, NEW T, T \subseteq S, T # {}, NEW R, IsWellFoundedOn(R, S)
    PROVE  \E x \in T : \A y \in T : ~ (<<y, x>> \in R)
BY WFMin, Zenon

LEMMA LeastNat ==
    ASSUME NEW T, T \subseteq Nat, T # {}
    PROVE  \E x \in T : \A y \in T : x <= y
<1> DEFINE R == OpToRel(<, Nat)
<1>1. \A x, y \in Nat : x < y => <<x, y>> \in R
  BY DEF OpToRel
<1>2. IsWellFoundedOn(R, Nat)
  BY NatLessThanWellFounded
<1> HIDE DEF R
<1>3. \E x \in T : \A y \in T : ~ (<<y, x>> \in R)
  BY <1>2, LeastOf, Zenon
<1>4. \E x \in T : \A y \in T : x \in Nat /\ y \in Nat /\ ~ (y < x)
  BY <1>1, <1>3, Zenon
<1> QED BY <1>4

LEMMA PushCardinality == ASSUME NEW S PROVE Push!Cardinality(S) = Cardinality(S)
BY Zenon DEF Push!Cardinality, Cardinality

LEMMA IntervalCount ==
    ASSUME NEW n \in Nat
    PROVE  IsFiniteSet(1..n) /\ Cardinality(1..n) = n
BY FS_Interval

LEMMA FunctionIsList ==
    ASSUME NEW S, NEW n \in Nat, NEW f \in [1..n -> S]
    PROVE  f \in Seq(S) /\ Len(f) = n
OBVIOUS

GivenTyped == given \in Push!BoundedSeq(Devices \cup {Blank}, MaxTokens)

LEMMA GivenList ==
    ASSUME GivenTyped
    PROVE  /\ Len(given) \in 0..MaxTokens /\ DOMAIN given = 1..Len(given)
           /\ Len(given) \in Nat
           /\ \A i \in 1..Len(given) : given[i] \in Devices \cup {Blank}
<1>1. PICK m \in 0..MaxTokens : given \in [1..m -> Devices \cup {Blank}]
  BY DEF GivenTyped, Push!BoundedSeq, Push!SeqOf
<1>2. m \in Nat /\ given \in Seq(Devices \cup {Blank})
  BY <1>1, EngagementAssumption
<1>3. Len(given) = m
  BY <1>1, <1>2
<1> QED BY <1>1, <1>2, <1>3

LEMMA FirstPlacesFinite ==
    ASSUME GivenTyped
    PROVE  /\ Push!FirstPlaces \subseteq 1..Len(given) /\ IsFiniteSet(Push!FirstPlaces)
           /\ Cardinality(Push!FirstPlaces) \in Nat /\ Cardinality(Push!FirstPlaces) <= MaxTokens
<1>1. Push!FirstPlaces \subseteq 1..Len(given) /\ Len(given) \in Nat
  BY GivenList DEF Push!FirstPlaces
<1>2. IsFiniteSet(1..Len(given)) /\ Cardinality(1..Len(given)) = Len(given)
  BY <1>1, FS_Interval
<1>3. IsFiniteSet(Push!FirstPlaces) /\ Cardinality(Push!FirstPlaces) <= Len(given)
  BY <1>1, <1>2, FS_Subset
<1>4. Cardinality(Push!FirstPlaces) \in Nat
  BY <1>3, FS_CardinalityType
<1>5. Len(given) <= MaxTokens /\ MaxTokens \in Nat
  BY GivenList, EngagementAssumption
<1> QED BY <1>1, <1>3, <1>4, <1>5

\* A place's rank is its number among the first places.
LEMMA RankUpTo ==
    ASSUME GivenTyped, NEW i \in Push!FirstPlaces
    PROVE  /\ Push!Rank(i) \in 1..Cardinality(Push!FirstPlaces)
           /\ \A j \in Push!FirstPlaces : i < j => Push!Rank(i) < Push!Rank(j)
<1> DEFINE F == Push!FirstPlaces
           upTo(j) == {k \in F : k <= j}
<1>1. IsFiniteSet(F) /\ F \subseteq Nat /\ Cardinality(F) \in Nat
  BY FirstPlacesFinite
<1>2. \A j \in F : Push!Rank(j) = Cardinality(upTo(j))
  BY PushCardinality DEF Push!Rank
<1> HIDE DEF F
<1>3. ASSUME NEW j \in F
      PROVE  IsFiniteSet(upTo(j)) /\ Cardinality(upTo(j)) \in Nat
             /\ Cardinality(upTo(j)) <= Cardinality(F) /\ Cardinality(upTo(j)) # 0
  <2>1. upTo(j) \in SUBSET F /\ j \in upTo(j)
    BY <1>1
  <2>2. IsFiniteSet(upTo(j)) /\ Cardinality(upTo(j)) <= Cardinality(F)
    BY <1>1, <2>1, FS_Subset
  <2>3. Cardinality(upTo(j)) \in Nat
    BY <2>2, FS_CardinalityType
  <2>4. upTo(j) # {}
    BY <2>1
  <2>5. Cardinality(upTo(j)) # 0
    BY <2>2, <2>4, FS_EmptySet
  <2> QED BY <2>2, <2>3, <2>5
<1>4. i \in F
  BY DEF F
<1>5. Push!Rank(i) \in 1..Cardinality(F)
  <2>1. Push!Rank(i) = Cardinality(upTo(i)) /\ Cardinality(upTo(i)) \in Nat
        /\ Cardinality(upTo(i)) <= Cardinality(F) /\ Cardinality(upTo(i)) # 0
    BY <1>2, <1>3, <1>4
  <2> QED BY <1>1, <2>1
<1>6. ASSUME NEW j \in F, i < j PROVE Push!Rank(i) < Push!Rank(j)
  <2>0. \A k \in F : k <= i => k <= j
    BY <1>1, <1>4, <1>6
  <2>1. upTo(i) \in SUBSET upTo(j) /\ j \in upTo(j) /\ j \notin upTo(i)
    <3>1. j \in Int /\ i \in Int /\ ~(j <= i) /\ j <= j
      BY <1>1, <1>4, <1>6
    <3> QED BY <1>6, <2>0, <3>1
  <2>2. upTo(i) # upTo(j)
    BY <2>1
  <2>3. Cardinality(upTo(i)) <= Cardinality(upTo(j)) /\ Cardinality(upTo(j)) # Cardinality(upTo(i))
    BY <1>3, <2>1, <2>2, FS_Subset
  <2> QED BY <1>2, <1>3, <1>4, <2>3
<1> QED BY <1>5, <1>6 DEF F

\* Every token that is not blank has a first place.
LEMMA FirstPlaceOf ==
    ASSUME GivenTyped, NEW i \in 1..Len(given), given[i] # Blank
    PROVE  \E f \in Push!FirstPlaces : given[f] = given[i]
<1> DEFINE T == {j \in 1..Len(given) : given[j] = given[i]}
<1>1. Len(given) \in Nat /\ DOMAIN given = 1..Len(given) /\ T \subseteq Nat /\ i \in T
  BY GivenList
<1>2. PICK f \in T : \A j \in T : f <= j
  BY <1>1, LeastNat
<1>3. f \in 1..Len(given) /\ given[f] = given[i]
  OBVIOUS
<1>4. ASSUME NEW j \in 1..(f - 1) PROVE given[j] # given[f]
  <2>1. j \in 1..Len(given) /\ ~ (f <= j)
    BY <1>1, <1>3
  <2>2. j \notin T
    BY <1>2, <2>1
  <2> QED BY <1>3, <2>1, <2>2
<1>5. f \in Push!FirstPlaces
  BY <1>1, <1>3, <1>4 DEF Push!FirstPlaces
<1> QED BY <1>3, <1>5

\* The ranks number the first places.
LEMMA RanksOnto ==
    ASSUME GivenTyped, NEW k \in 1..Cardinality(Push!FirstPlaces)
    PROVE  \E i \in Push!FirstPlaces : Push!Rank(i) = k
<1> DEFINE F == Push!FirstPlaces
           n == Cardinality(F)
           rank == [i \in F |-> Push!Rank(i)]
<1>1. IsFiniteSet(F) /\ F \subseteq Nat /\ n \in Nat
  BY FirstPlacesFinite
<1>2. \A i \in F : Push!Rank(i) \in 1..n /\ \A j \in F : i < j => Push!Rank(i) < Push!Rank(j)
  BY RankUpTo
<1>3. IsFiniteSet(1..n) /\ Cardinality(1..n) = n
  BY <1>1, FS_Interval
<1> HIDE DEF F, n
<1>4. \A i, j \in F : i # j => Push!Rank(i) # Push!Rank(j)
  <2>1. ASSUME NEW i \in F, NEW j \in F, i # j PROVE Push!Rank(i) # Push!Rank(j)
    <3>1. i < j \/ j < i
      BY <1>1, <2>1
    <3>2. Push!Rank(i) \in Int /\ Push!Rank(j) \in Int
      BY <1>2, <1>1
    <3> QED BY <1>2, <3>1, <3>2
  <2> QED BY <2>1
<1>5. rank \in Injection(F, 1..n)
  BY <1>2, <1>4 DEF Injection, IsInjective
<1>6. rank \in Surjection(F, 1..n)
  BY <1>3, <1>5, FS_Injection DEF n
<1>7. \E i \in F : rank[i] = k
  BY <1>6 DEF Surjection, n, F
<1> QED BY <1>7 DEF F

\* What is sent: every device given, once.
Listed(V) ==
    /\ V \in Seq(Devices) /\ Len(V) \in 0..MaxTokens
    /\ \A i, j \in 1..Len(V) : i # j => V[i] # V[j]
    /\ {V[i] : i \in 1..Len(V)} = Push!ToSet(given) \ {Blank}
    /\ Cardinality(Push!ToSet(given) \ {Blank}) = Len(V)

LEMMA TokensListed == ASSUME GivenTyped PROVE Listed(Push!ValidTokens)
<1> DEFINE F == Push!FirstPlaces
           n == Cardinality(F)
           place(k) == CHOOSE i \in F : Push!Rank(i) = k
           V == Push!ValidTokens
<1>1. n \in 0..MaxTokens /\ n \in Nat
  BY FirstPlacesFinite, EngagementAssumption
<1>2. ASSUME NEW k \in 1..n PROVE place(k) \in F /\ Push!Rank(place(k)) = k
  BY RanksOnto
<1>3. V = [k \in 1..n |-> given[place(k)]]
  BY PushCardinality DEF Push!ValidTokens
<1>4. \A i \in F : i \in 1..Len(given) /\ given[i] # Blank /\ given[i] \in Devices
  BY GivenList DEF Push!FirstPlaces
<1>5. \A i, j \in F : i # j => given[i] # given[j]
  <2>1. ASSUME NEW i \in F, NEW j \in F, i < j PROVE given[i] # given[j]
    <3>1. i \in 1..(j - 1)
      BY <1>4, <2>1
    <3>2. given[i] # given[j]
      BY <3>1 DEF Push!FirstPlaces
    <3> QED BY <3>2
  <2>2. \A i, j \in F : i < j \/ j < i \/ i = j
    BY <1>4
  <2> QED BY <2>1, <2>2
<1>6. \A i \in F : Push!Rank(i) \in 1..n
  BY RankUpTo
<1>7. \A i, j \in F : Push!Rank(i) = Push!Rank(j) => i = j
  <2>1. \A i, j \in F : i < j \/ j < i \/ i = j
    BY <1>4
  <2>2. \A i, j \in F : i < j => Push!Rank(i) < Push!Rank(j)
    BY RankUpTo
  <2>3. \A i \in F : Push!Rank(i) \in Int
    BY <1>6
  <2> QED BY <2>1, <2>2, <2>3
<1>8. \A i \in 1..Len(given) : given[i] # Blank => \E f \in F : given[f] = given[i]
  BY FirstPlaceOf
<1>9. DOMAIN given = 1..Len(given)
  BY GivenList
<1> HIDE DEF F, n, V, place
<1>10. V \in Seq(Devices) /\ Len(V) = n /\ \A k \in 1..n : V[k] = given[place(k)]
  <2>1. V \in [1..n -> Devices]
    BY <1>2, <1>3, <1>4
  <2> QED BY <1>1, <1>3, <2>1
<1>11. \A i, j \in 1..n : i # j => V[i] # V[j]
  <2>1. ASSUME NEW i \in 1..n, NEW j \in 1..n, i # j PROVE V[i] # V[j]
    <3>1. place(i) \in F /\ place(j) \in F /\ place(i) # place(j)
      BY <1>2, <2>1
    <3> QED BY <1>5, <1>10, <3>1
  <2> QED BY <2>1
<1>12. {V[i] : i \in 1..n} = Push!ToSet(given) \ {Blank}
  <2>1. ASSUME NEW k \in 1..n PROVE V[k] \in Push!ToSet(given) \ {Blank}
    <3>1. place(k) \in 1..Len(given) /\ given[place(k)] # Blank
      BY <1>2, <1>4
    <3> QED BY <1>9, <1>10, <3>1 DEF Push!ToSet
  <2>2. ASSUME NEW t \in Push!ToSet(given) \ {Blank} PROVE \E k \in 1..n : V[k] = t
    <3>1. PICK i \in 1..Len(given) : given[i] = t
      BY <1>9 DEF Push!ToSet
    <3>2. PICK f \in F : given[f] = t
      BY <1>8, <3>1
    <3>3. place(Push!Rank(f)) = f
      BY <1>2, <1>6, <1>7, <3>2
    <3> QED BY <1>6, <1>10, <3>2, <3>3
  <2> QED BY <2>1, <2>2
<1>13. Cardinality(Push!ToSet(given) \ {Blank}) = n
  <2> DEFINE D == Push!ToSet(given) \ {Blank}
             f == [k \in 1..n |-> V[k]]
  <2>1. IsFiniteSet(1..n) /\ Cardinality(1..n) = n
    BY <1>1, FS_Interval
  <2> HIDE DEF D
  <2>2. D = {V[i] : i \in 1..n}
    BY <1>12 DEF D
  <2>3. f \in Bijection(1..n, D)
    BY <1>11, <2>2 DEF Bijection, Injection, Surjection, IsInjective
  <2>4. ExistsBijection(1..n, D)
    BY <2>3 DEF ExistsBijection
  <2> QED BY <2>1, <2>4, FS_Bijection DEF D
<1> QED BY <1>1, <1>10, <1>11, <1>12, <1>13 DEF Listed, V

Responses == [token: Devices, success: BOOLEAN]

\* Up to position p of the list V every token had its message and its response.
SentUpTo(V, p, rs, ms) ==
    /\ p \in 0..Len(V)
    /\ p < Len(V) => p % BatchSize = 0
    /\ Len(rs) = p /\ \A i \in 1..p : rs[i].token = V[i]
    /\ \A d \in Devices : ms[d] = IF \E i \in 1..p : V[i] = d THEN 1 ELSE 0

PushInv ==
    /\ Push!TypeOK
    /\ SentUpTo(Push!ValidTokens, position, responses, messages)
    /\ result = "summary" => position = Len(Push!ValidTokens)
    /\ result = "error" => position < Len(Push!ValidTokens)

LEMMA PushTyped ==
    ASSUME Push!TypeOK
    PROVE  /\ GivenTyped /\ position \in 0..MaxTokens /\ position \in Nat
           /\ messages \in [Devices -> Nat] /\ responses \in Seq(Responses)
BY EngagementAssumption DEF Push!TypeOK, GivenTyped, Responses

LEMMA PushInit == Push!Init => PushInv
<1> SUFFICES ASSUME Push!Init PROVE PushInv
  OBVIOUS
<1>1. GivenTyped /\ position = 0 /\ responses = <<>> /\ messages = [d \in Devices |-> 0]
      /\ result = "none"
  BY DEF Push!Init, GivenTyped
<1>2. Push!TypeOK
  BY <1>1, EngagementAssumption DEF Push!TypeOK, GivenTyped
<1>3. SentUpTo(Push!ValidTokens, position, responses, messages)
  <2> DEFINE V == Push!ValidTokens
  <2>1. Len(V) \in Nat
    BY <1>1, TokensListed, EngagementAssumption DEF Listed
  <2> HIDE DEF V
  <2>2. 0 % BatchSize = 0
    BY EngagementAssumption
  <2>3. SentUpTo(V, 0, responses, messages)
    BY <1>1, <2>1, <2>2 DEF SentUpTo
  <2> QED BY <1>1, <2>3 DEF V
<1> QED BY <1>1, <1>2, <1>3 DEF PushInv

LEMMA NextMultiple ==
    ASSUME NEW B \in Nat \ {0}, NEW p \in Nat, p % B = 0
    PROVE  (p + B) % B = 0
<1> DEFINE q == p \div B
           r == (p + B) % B
           k == (p + B) \div B
<1>1. q \in Nat /\ q * B = p /\ q * B \in Int
  BY DayOf
<1>2. \A t \in Nat : /\ t \div B \in Nat /\ t % B \in 0..B-1
                     /\ (t \div B) * B + (t % B) = t
  BY DayOf
<1>3. k \in Nat /\ r \in 0..B-1 /\ k * B + r = p + B /\ k * B \in Int
  <2>1. p + B \in Nat
    OBVIOUS
  <2>2. k \in Nat /\ r \in 0..B-1 /\ k * B + r = p + B
    BY <1>2, <2>1
  <2> QED BY <2>2
<1> HIDE DEF q, r, k
<1>4. (q + 1) * B = p + B
  BY <1>1
<1>5. ~(k < q + 1)
  <2> SUFFICES ASSUME k < q + 1 PROVE FALSE
    OBVIOUS
  <2>1. k * B + B <= (q + 1) * B
    BY <1>1, <1>3, DaysApart
  <2> QED BY <1>3, <1>4, <2>1
<1>6. ~(q + 1 < k)
  <2> SUFFICES ASSUME q + 1 < k PROVE FALSE
    OBVIOUS
  <2>1. (q + 1) * B + B <= k * B
    BY <1>1, <1>3, DaysApart
  <2> QED BY <1>3, <1>4, <2>1
<1>7. k = q + 1
  BY <1>1, <1>3, <1>5, <1>6
<1>8. r = 0
  BY <1>3, <1>4, <1>7
<1> QED BY <1>8 DEF r

LEMMA ListedLength ==
    ASSUME NEW V, Listed(V)
    PROVE  V \in Seq(Devices) /\ Len(V) \in 0..MaxTokens /\ Len(V) \in Nat
<1>1. V \in Seq(Devices) /\ Len(V) \in 0..MaxTokens
  BY DEF Listed
<1> QED BY <1>1

\* The places of d among the n tokens of V after place p.
PlacesOf(S, V, p, n, d) ==
    /\ Listed(V) /\ p \in Nat /\ n \in Nat /\ p + n <= Len(V)
    /\ S \subseteq 1..n /\ \A i \in 1..n : i \in S <=> V[p + i] = d

\* A token is in a batch once or not at all.
LEMMA OnceInBatch ==
    ASSUME NEW V, NEW p, NEW n, NEW d, NEW S, PlacesOf(S, V, p, n, d)
    PROVE  /\ (\E i \in 1..n : V[p + i] = d) => Cardinality(S) = 1
           /\ (~ \E i \in 1..n : V[p + i] = d) => Cardinality(S) = 0
<1> USE DEF PlacesOf
<1>1. Len(V) \in Nat /\ \A i \in 1..n : p + i \in 1..Len(V)
  BY ListedLength
<1>2. \A i, j \in 1..Len(V) : V[i] = d /\ V[j] = d => i = j
  BY DEF Listed
<1>3. CASE \E i \in 1..n : V[p + i] = d
  <2>1. PICK i \in 1..n : V[p + i] = d
    BY <1>3
  <2>2. ASSUME NEW j \in S PROVE j = i
    <3>1. j \in 1..n /\ V[p + j] = d
      OBVIOUS
    <3>2. p + j = p + i
      BY <1>1, <1>2, <2>1, <3>1
    <3> QED BY <3>1, <3>2
  <2>3. S = {i}
    BY <2>1, <2>2
  <2> QED BY <1>3, <2>3, FS_Singleton
<1>4. CASE ~ \E i \in 1..n : V[p + i] = d
  <2>1. S = {}
    BY <1>4
  <2> QED BY <1>4, <2>1, FS_EmptySet
<1> QED BY <1>3, <1>4

\* One batch takes the list from p on, the n tokens of it once each.
LEMMA BatchSent ==
    ASSUME NEW V, Listed(V), responses \in Seq(Responses), messages \in [Devices -> Nat],
           SentUpTo(V, position, responses, messages), position < Len(V), NEW e \in Nat,
           e = IF position + BatchSize < Len(V) THEN position + BatchSize ELSE Len(V),
           NEW n \in Nat, e = position + n,
           NEW more \in Seq(Responses), Len(more) = n,
           \A i \in 1..n : more[i].token = V[position + i],
           responses' = responses \o more,
           \A d \in Devices :
               /\ (\E i \in 1..n : V[position + i] = d) => messages'[d] = messages[d] + 1
               /\ (~ \E i \in 1..n : V[position + i] = d) => messages'[d] = messages[d]
    PROVE  SentUpTo(V, e, responses', messages') /\ responses' \in Seq(Responses)
<1> DEFINE p == position
<1>0. /\ BatchSize \in Nat \ {0} /\ Len(V) \in 0..MaxTokens /\ MaxTokens \in Nat
      /\ V \in Seq(Devices) /\ p \in 0..Len(V)
  BY EngagementAssumption DEF Listed, SentUpTo
<1>1. Len(V) \in Nat /\ p \in Nat /\ p < e /\ e <= Len(V)
      /\ \A i \in 1..Len(V) : V[i] \in Devices
  BY <1>0
<1>2. Len(responses) = p
  BY DEF SentUpTo
<1>3. \A i \in 1..n : p + i \in 1..Len(V)
  BY <1>1
<1>4. /\ responses' \in Seq(Responses) /\ Len(responses') = e
      /\ \A i \in 1..e : responses'[i] = IF i <= p THEN responses[i] ELSE more[i - p]
  <2>1. /\ responses \o more \in Seq(Responses) /\ Len(responses \o more) = p + n
        /\ \A i \in 1..(p + n) : (responses \o more)[i] = IF i <= p THEN responses[i] ELSE more[i - p]
    BY <1>2, ConcatProperties
  <2> QED BY <1>1, <2>1
<1>5. \A i \in 1..e : responses'[i].token = V[i]
  <2>1. ASSUME NEW i \in 1..e PROVE responses'[i].token = V[i]
    <3>1. CASE i <= p
      BY <1>1, <1>4, <2>1, <3>1 DEF SentUpTo
    <3>2. CASE ~(i <= p)
      <4>1. i - p \in 1..n /\ p + (i - p) = i
        BY <1>1, <2>1, <3>2
      <4> QED BY <1>4, <2>1, <3>2, <4>1
    <3> QED BY <3>1, <3>2
  <2> QED BY <2>1
<1>6. ASSUME NEW d \in Devices
      PROVE  messages'[d] = IF \E i \in 1..e : V[i] = d THEN 1 ELSE 0
  <2>1. messages[d] = IF \E i \in 1..p : V[i] = d THEN 1 ELSE 0
    BY DEF SentUpTo
  <2>2. CASE \E i \in 1..n : V[p + i] = d
    <3>1. PICK i \in 1..n : V[p + i] = d
      BY <2>2
    <3>2. \A j \in 1..p : j \in 1..Len(V) /\ j # p + i
      BY <1>1
    <3>3. ~ \E j \in 1..p : V[j] = d
      BY <1>3, <3>1, <3>2 DEF Listed
    <3>4. p + i \in 1..e
      BY <1>1
    <3>5. messages[d] = 0
      BY <2>1, <3>3
    <3>6. messages'[d] = messages[d] + 1
      BY <1>6, <2>2, Zenon
    <3>7. messages'[d] = 1
      BY <3>5, <3>6
    <3> QED BY <3>1, <3>4, <3>7
  <2>3. CASE ~ \E i \in 1..n : V[p + i] = d
    <3>1. (\E i \in 1..e : V[i] = d) <=> \E i \in 1..p : V[i] = d
      <4>1. ASSUME NEW i \in 1..e, V[i] = d PROVE \E j \in 1..p : V[j] = d
        <5>1. CASE i <= p
          BY <1>1, <4>1, <5>1
        <5>2. CASE ~(i <= p)
          <6>1. i - p \in 1..n /\ p + (i - p) = i
            BY <1>1, <5>2
          <6> QED BY <2>3, <4>1, <6>1
        <5> QED BY <5>1, <5>2
      <4>2. \A i \in 1..p : i \in 1..e
        BY <1>1
      <4> QED BY <4>1, <4>2
    <3> QED BY <2>1, <2>3, <3>1
  <2> QED BY <2>2, <2>3
<1>7. e < Len(V) => e % BatchSize = 0
  <2>1. e < Len(V) => e = p + BatchSize
    BY <1>0, <1>1
  <2>2. p % BatchSize = 0
    BY DEF SentUpTo
  <2>3. (p + BatchSize) % BatchSize = 0
    BY <1>0, <1>1, <2>2, NextMultiple
  <2> QED BY <2>1, <2>3
<1>8. e \in 0..Len(V)
  BY <1>1
<1> QED BY <1>4, <1>5, <1>6, <1>7, <1>8 DEF SentUpTo

LEMMA SendKeeps == ASSUME PushInv, Push!SendBatch PROVE PushInv'
<1> DEFINE V == Push!ValidTokens
           e == IF position + BatchSize < Len(V) THEN position + BatchSize ELSE Len(V)
           batch == Push!NextBatch
<1>1. /\ Push!TypeOK /\ SentUpTo(V, position, responses, messages) /\ GivenTyped
      /\ position \in Nat /\ messages \in [Devices -> Nat] /\ responses \in Seq(Responses)
  BY PushTyped DEF PushInv
<1>2. Listed(V) /\ V \in Seq(Devices) /\ Len(V) \in 0..MaxTokens /\ Len(V) \in Nat
  <2>1. Listed(V)
    BY <1>1, TokensListed
  <2> HIDE DEF V
  <2> QED BY <2>1, ListedLength
<1>3. position < Len(V) /\ given' = given /\ result' = result /\ result = "none"
      /\ position' = position + Len(batch)
  BY DEF Push!SendBatch
<1>4. V' = V
  BY <1>3 DEF Push!ValidTokens, Push!FirstPlaces, Push!Rank
<1>5. batch = SubSeq(V, position + 1, e)
  BY DEF Push!NextBatch
<1>6. /\ messages' = [d \in Devices |->
              messages[d] + Cardinality({i \in 1..Len(batch) : batch[i] = d})]
      /\ \E delivered \in [1..Len(batch) -> BOOLEAN] :
             responses' = responses \o [i \in 1..Len(batch) |->
                                          [token |-> batch[i], success |-> delivered[i]]]
  BY PushCardinality DEF Push!SendBatch
<1> HIDE DEF V, batch
<1>7. e \in Nat /\ position < e /\ e <= Len(V) /\ e - position \in Nat
  BY <1>1, <1>2, <1>3, EngagementAssumption
<1>e. e = IF position + BatchSize < Len(V) THEN position + BatchSize ELSE Len(V)
  OBVIOUS
<1> HIDE DEF e
<1>8. Len(batch) = e - position /\ \A i \in 1..(e - position) : batch[i] = V[position + i]
  <2>1. \A i \in (position + 1)..e : V[i] \in Devices
    BY <1>1, <1>2, <1>7
  <2>2. position + 1 \in Int /\ e \in Int /\ position + 1 <= e
        /\ e - (position + 1) + 1 = e - position
        /\ \A i \in 1..(e - position) : (position + 1) + i - 1 = position + i
    BY <1>1, <1>7
  <2> QED BY <1>5, <2>1, <2>2, SubSeqProperties
<1> DEFINE n == Len(batch)
<1>9. n \in Nat /\ e = position + n /\ position' = e /\ \A i \in 1..n : batch[i] = V[position + i]
  BY <1>1, <1>3, <1>7, <1>8
<1>10. PICK delivered \in [1..n -> BOOLEAN] :
          responses' = responses \o [i \in 1..n |->
                                       [token |-> batch[i], success |-> delivered[i]]]
  BY <1>6
<1>11. /\ messages' \in [Devices -> Nat]
       /\ \A d \in Devices :
               /\ (\E i \in 1..n : V[position + i] = d) => messages'[d] = messages[d] + 1
               /\ (~ \E i \in 1..n : V[position + i] = d) => messages'[d] = messages[d]
  <2> DEFINE S(d) == {i \in 1..n : batch[i] = d}
             more(d) == Cardinality(S(d))
  <2>1. messages' = [d \in Devices |-> messages[d] + more(d)]
    BY <1>6
  <2>2. ASSUME NEW d \in Devices
        PROVE  /\ (\E i \in 1..n : V[position + i] = d) => more(d) = 1
               /\ (~ \E i \in 1..n : V[position + i] = d) => more(d) = 0
    <3>1. S(d) \subseteq 1..n /\ \A i \in 1..n : i \in S(d) <=> V[position + i] = d
      BY <1>9
    <3> HIDE DEF S
    <3>2. position + n <= Len(V)
      BY <1>7, <1>9
    <3>3. position \in Nat /\ n \in Nat /\ Listed(V)
      BY <1>1, <1>2, <1>9
    <3> HIDE DEF n
    <3>4. PlacesOf(S(d), V, position, n, d)
      BY <3>1, <3>2, <3>3 DEF PlacesOf
    <3> QED BY <3>4, OnceInBatch
  <2> HIDE DEF more
  <2>3. \A d \in Devices : messages[d] + more(d) \in Nat
    BY <1>1, <2>2
  <2>4. messages' \in [Devices -> Nat]
    BY <2>1, <2>3
  <2>5. \A d \in Devices : messages'[d] = messages[d] + more(d) /\ messages[d] \in Nat
    BY <1>1, <2>1
  <2>6. ASSUME NEW d \in Devices
        PROVE  /\ (\E i \in 1..n : V[position + i] = d) => messages'[d] = messages[d] + 1
               /\ (~ \E i \in 1..n : V[position + i] = d) => messages'[d] = messages[d]
    <3>1. messages'[d] = messages[d] + more(d) /\ messages[d] \in Nat
      BY <2>5
    <3>2. CASE \E i \in 1..n : V[position + i] = d
      BY <2>2, <3>1, <3>2
    <3>3. CASE ~ \E i \in 1..n : V[position + i] = d
      <4>1. more(d) = 0
        BY <2>2, <3>3, Zenon
      <4> QED BY <3>1, <3>3, <4>1
    <3> QED BY <3>2, <3>3
  <2> QED BY <2>4, <2>6
<1> DEFINE more == [i \in 1..n |-> [token |-> batch[i], success |-> delivered[i]]]
<1>12. /\ more \in Seq(Responses) /\ Len(more) = n
       /\ \A i \in 1..n : more[i].token = V[position + i]
  <2>1. ASSUME NEW i \in 1..n PROVE position + i \in 1..Len(V) /\ batch[i] \in Devices
    <3>1. position + i \in 1..Len(V)
      BY <1>1, <1>2, <1>7, <1>9
    <3>2. batch[i] = V[position + i]
      BY <1>9
    <3> QED BY <1>2, <3>1, <3>2
  <2>2. more \in [1..n -> Responses] /\ \A i \in 1..n : more[i].token = V[position + i]
    BY <1>9, <2>1 DEF Responses
  <2> HIDE DEF more
  <2> QED BY <1>9, <2>2, FunctionIsList
<1> HIDE DEF n
<1>13. SentUpTo(V, e, responses', messages') /\ responses' \in Seq(Responses)
  <2>1. responses' = responses \o more
    BY <1>10
  <2> HIDE DEF more
  <2>2. Listed(V) /\ responses \in Seq(Responses) /\ messages \in [Devices -> Nat]
        /\ SentUpTo(V, position, responses, messages) /\ position < Len(V)
    BY <1>1, <1>2, <1>3
  <2>3. e \in Nat /\ n \in Nat /\ e = position + n
    BY <1>7, <1>9
  <2> QED BY <1>e, <1>11, <1>12, <2>1, <2>2, <2>3, BatchSent
<1>14. SentUpTo(Push!ValidTokens, position, responses, messages)'
  <2>1. SentUpTo(V', position', responses', messages')
    BY <1>4, <1>9, <1>13
  <2> QED BY <2>1 DEF V, SentUpTo
<1>15. Push!TypeOK'
  <2>1. position' \in 0..MaxTokens
    BY <1>2, <1>7, <1>9, EngagementAssumption
  <2> QED BY <1>1, <1>3, <1>11, <1>13, <2>1 DEF Push!TypeOK, Responses, GivenTyped
<1> QED BY <1>3, <1>14, <1>15 DEF PushInv

\* Every token given is sent, in the end: the summary counts all of them.
LEMMA PushFollows == PushInv => Push!PushesReported
<1> SUFFICES ASSUME PushInv PROVE Push!PushesReported
  OBVIOUS
<1> DEFINE V == Push!ValidTokens
           D == Push!ToSet(given) \ {Blank}
<1>1. /\ Push!TypeOK /\ SentUpTo(V, position, responses, messages) /\ GivenTyped
      /\ position \in Nat /\ messages \in [Devices -> Nat] /\ responses \in Seq(Responses)
  BY PushTyped DEF PushInv
<1>2. Listed(V)
  BY <1>1, TokensListed
<1>3. /\ result = "summary" => position = Len(V)
      /\ result = "error" => position < Len(V)
  BY DEF PushInv
<1> HIDE DEF V
<1>4. /\ V \in Seq(Devices) /\ Len(V) \in Nat /\ {V[i] : i \in 1..Len(V)} = D
      /\ Cardinality(D) = Len(V) /\ \A i, j \in 1..Len(V) : i # j => V[i] # V[j]
  BY <1>2, ListedLength DEF Listed
<1> HIDE DEF D
<1>5. \A d \in Devices : messages[d] <= 1
  BY <1>1 DEF SentUpTo
<1>6. DOMAIN responses = 1..position
  BY <1>1 DEF SentUpTo
<1>7. ASSUME result = "summary"
      PROVE  /\ {responses[i].token : i \in DOMAIN responses} = D
             /\ Len(responses) = Cardinality(D)
             /\ Push!NumberOf(TRUE) + Push!NumberOf(FALSE) = Cardinality(D)
  <2>1. position = Len(V)
    BY <1>3, <1>7
  <2>2. \A i \in 1..Len(V) : responses[i].token = V[i]
    BY <1>1, <2>1 DEF SentUpTo
  <2>3. {responses[i].token : i \in DOMAIN responses} = {V[i] : i \in 1..Len(V)}
    BY <1>6, <2>1, <2>2
  <2>4. Push!NumberOf(TRUE) + Push!NumberOf(FALSE) = Len(V)
    <3> DEFINE Yes == {i \in DOMAIN responses : responses[i].success = TRUE}
               No == {i \in DOMAIN responses : responses[i].success = FALSE}
    <3>1. Push!NumberOf(TRUE) = Cardinality(Yes) /\ Push!NumberOf(FALSE) = Cardinality(No)
      BY PushCardinality DEF Push!NumberOf
    <3>2. IsFiniteSet(1..Len(V)) /\ Cardinality(1..Len(V)) = Len(V)
      BY <1>4, IntervalCount
    <3>3. ASSUME NEW i \in 1..Len(V) PROVE responses[i].success \in BOOLEAN
      <4>1. Len(responses) = Len(V)
        BY <1>1, <2>1 DEF SentUpTo
      <4>2. responses[i] \in Responses
        BY <1>1, <4>1
      <4> QED BY <4>2 DEF Responses
    <3>4. Yes \cup No = 1..Len(V) /\ Yes \cap No = {} /\ Yes \in SUBSET (1..Len(V))
          /\ No \in SUBSET (1..Len(V))
      BY <1>6, <2>1, <3>3
    <3> HIDE DEF Yes, No
    <3>5. IsFiniteSet(Yes) /\ IsFiniteSet(No)
      BY <3>2, <3>4, FS_Subset
    <3>6. Cardinality(Yes) \in Nat /\ Cardinality(No) \in Nat
      BY <3>5, FS_CardinalityType
    <3>7. Cardinality(Yes \cup No) = Cardinality(Yes) + Cardinality(No) - Cardinality(Yes \cap No)
      BY <3>5, FS_Union
    <3>8. Cardinality(Yes \cup No) = Len(V) /\ Cardinality(Yes \cap No) = 0
      BY <3>2, <3>4, FS_EmptySet
    <3>9. Cardinality(Yes) + Cardinality(No) = Len(V)
      BY <3>6, <3>7, <3>8
    <3> QED BY <3>1, <3>9, Zenon
  <2> QED BY <1>1, <1>4, <2>1, <2>3, <2>4 DEF SentUpTo
<1>8. ASSUME result = "error"
      PROVE  position % BatchSize = 0 /\ \E d \in D : messages[d] = 0
  <2>1. position < Len(V)
    BY <1>3, <1>8
  <2>2. position + 1 \in 1..Len(V)
    BY <1>1, <1>4, <2>1
  <2>3. V[position + 1] \in D /\ V[position + 1] \in Devices
    BY <1>4, <2>2
  <2>4. \A i \in 1..position : i \in 1..Len(V) /\ i # position + 1
    BY <1>1, <1>4, <2>1
  <2>5. messages[V[position + 1]] = 0
    BY <1>1, <1>4, <2>2, <2>3, <2>4 DEF SentUpTo
  <2> QED BY <1>1, <2>1, <2>3, <2>5 DEF SentUpTo
<1> QED BY <1>5, <1>7, <1>8, PushCardinality DEF Push!PushesReported, D

\* A call that ends changes nothing that was sent.
LEMMA PushStays ==
    ASSUME PushInv, UNCHANGED <<given, position, messages, responses>>,
           result' \in {"none", "refused", "error", "summary"},
           result' = "summary" => position = Len(Push!ValidTokens),
           result' = "error" => position < Len(Push!ValidTokens)
    PROVE  PushInv'
<1> DEFINE V == Push!ValidTokens
<1>1. V' = V
  BY DEF Push!ValidTokens, Push!FirstPlaces, Push!Rank
<1>2. SentUpTo(V, position, responses, messages)'
  <2>1. SentUpTo(V', position', responses', messages')
    BY <1>1 DEF PushInv
  <2> QED BY <2>1 DEF SentUpTo
<1>3. Push!TypeOK'
  BY DEF PushInv, Push!TypeOK
<1> QED BY <1>1, <1>2, <1>3 DEF PushInv

LEMMA PushNext == PushInv /\ [Push!Next]_(Push!notificationVars) => PushInv'
<1> SUFFICES ASSUME PushInv, [Push!Next]_(Push!notificationVars) PROVE PushInv'
  OBVIOUS
<1>1. CASE UNCHANGED Push!notificationVars
  <2>1. result' = result /\ result \in {"none", "refused", "error", "summary"}
    BY <1>1 DEF Push!notificationVars, PushInv, Push!TypeOK
  <2>2. UNCHANGED <<given, position, messages, responses>>
    BY <1>1 DEF Push!notificationVars
  <2>3. /\ result = "summary" => position = Len(Push!ValidTokens)
        /\ result = "error" => position < Len(Push!ValidTokens)
    BY DEF PushInv
  <2> QED BY <2>1, <2>2, <2>3, PushStays
<1>2. CASE Push!RefuseCall
  BY <1>2, PushStays DEF Push!RefuseCall
<1>3. CASE Push!SendBatch
  BY <1>3, SendKeeps
<1>4. CASE Push!BatchThrows
  BY <1>4, PushStays DEF Push!BatchThrows
<1>5. CASE Push!AnswerSummary
  BY <1>5, PushStays DEF Push!AnswerSummary
<1> QED BY <1>1, <1>2, <1>3, <1>4, <1>5 DEF Push!Next

LEMMA PushMoves == [Next]_vars => [Push!Next]_(Push!notificationVars)
BY DEF Next, vars, notificationVars, Push!notificationVars

\* For lists of any length and batches of any size: a device gets at most one
\* message, the summary has one response for each device given, and an error
\* hides whole batches only, never all of them.
THEOREM PushesAreReported ==
    (Push!Spec => []Push!PushesReported) /\ (Spec => []PushesReported)
<1>1. PushInv => Push!PushesReported /\ PushesReported
  BY PushFollows DEF PushesReported
<1>2. Init => Push!Init
  BY DEF Init
<1>3. Push!Spec => []Push!PushesReported
  BY <1>1, PushInit, PushNext, PTL DEF Push!Spec
<1>4. Spec => []PushesReported
  BY <1>1, <1>2, PushInit, PushNext, PushMoves, PTL DEF Spec
<1> QED BY <1>3, <1>4

----------------------------------------------------------------------------
(* The types of all components. *)

AllInv ==
    /\ JobsInv /\ RevInv /\ FavInv /\ AccountsInv /\ TotalsInv /\ PushInv /\ MapperInv
    /\ RangesInv

\* Every variable of the eight components keeps its type: stages, counters within
\* their bounds, the list of responses one of responses.
THEOREM EngagementTyped == Spec => []TypeOK
<1>1. Init => AllInv
  BY JobsInit, RevInit, FavInit, AccountsInit, StatsInit, PushInit, MapperInit, RangesInit
     DEF Init, AllInv
<1>2. AllInv /\ [Next]_vars => AllInv'
  <2> SUFFICES ASSUME AllInv, [Next]_vars PROVE AllInv'
    OBVIOUS
  <2>1. JobsInv' /\ RevInv' /\ FavInv'
    BY JobsMove, RevMoves, FavMoves, JobsNext, RevNext, FavNext DEF AllInv
  <2>2. AccountsInv' /\ TotalsInv' /\ PushInv'
    BY AccountsMove, StatsMoves, PushMoves, AccountsNext, StatsNext, PushNext DEF AllInv
  <2>3. MapperInv' /\ RangesInv'
    BY MapperMoves, RangesMove, MapperNext, RangesNext DEF AllInv
  <2> QED BY <2>1, <2>2, <2>3 DEF AllInv
<1>3. AllInv => TypeOK
  <2> SUFFICES ASSUME AllInv PROVE TypeOK
    OBVIOUS
  <2>1. Stats!TypeOK
    BY TotalsTyped DEF AllInv
  <2>2. Jobs!TypeOK /\ Rev!TypeOK /\ Fav!TypeOK /\ Users!TypeOK
    BY DEF AllInv, JobsInv, RevInv, FavInv, AccountsInv
  <2>3. Push!TypeOK /\ Mapper!TypeOK /\ Ranges!TypeOK
    BY DEF AllInv, PushInv, MapperInv, RangesInv
  <2> QED BY <2>1, <2>2, <2>3 DEF TypeOK
<1> QED BY <1>1, <1>2, <1>3, PTL DEF Spec
=============================================================================
