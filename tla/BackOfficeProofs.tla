---------------------------- MODULE BackOfficeProofs ----------------------------
(***************************************************************************)
(* What MCBackOffice checks on a small instance, for every value of the    *)
(* constants: one section for each component, with the inductive invariant *)
(* its property needs.  A theorem about a component P is stated of the     *)
(* component alone (P!Spec) and of the composition, whose steps are steps  *)
(* of the component or leave it alone (the lemmas ...Moves).               *)
(***************************************************************************)
EXTENDS MCBackOffice, FiniteSetTheorems, SequenceTheorems, TLAPS

----------------------------------------------------------------------------
(* Businesses: reviews, removals and the primary staff. *)

BizCall == [op: Biz!Operation \cup {"none"}, id: Business \cup {None}, seen: Biz!Row]

\* A handler in flight has read an existing business, and a business that does
\* not exist yet is blank.
BizCallsMeant ==
    /\ \A c \in Calls : bizCall[c].op # "none" =>
           bizCall[c].id \in Business /\ bizCall[c].seen.exists
    /\ \A b \in Business : ~biz[b].exists =>
           ~biz[b].archived /\ biz[b].primary = None /\ biz[b].verification = "PENDING"

BizInv == Biz!TypeOK /\ BizCallsMeant /\ Biz!PrimaryBelongs /\ Biz!AnswersKept

HomeCall == [saves: BOOLEAN, seen: Business \cup {None}]

LEMMA BizTyped ==
    ASSUME Biz!TypeOK
    PROVE  /\ biz \in [Business -> Biz!Row] /\ bizCall \in [Calls -> BizCall]
           /\ home \in [Staff -> Business \cup {None}]
           /\ homeCall \in [Staff -> HomeCall] /\ misplaced \in BOOLEAN
BY DEF Biz!TypeOK, BizCall, HomeCall

LEMMA BizIdle == Biz!Idle \in BizCall /\ Biz!Idle.op = "none"
BY DEF Biz!Idle, BizCall, Biz!NoRow, Biz!Row

LEMMA BizRowFields ==
    ASSUME NEW row \in Biz!Row
    PROVE  /\ row.exists \in BOOLEAN /\ row.archived \in BOOLEAN
           /\ row.primary \in Staff \cup {None}
           /\ row.verification \in {"PENDING", "VERIFIED", "REJECTED"}
BY DEF Biz!Row

LEMMA BizInit == Biz!Init => BizInv
<1> SUFFICES ASSUME Biz!Init PROVE BizInv
  OBVIOUS
<1>1. Biz!NoRow \in Biz!Row /\ ~Biz!NoRow.exists /\ ~Biz!NoRow.archived
      /\ Biz!NoRow.primary = None /\ Biz!NoRow.verification = "PENDING"
  BY DEF Biz!NoRow, Biz!Row
<1>2. /\ biz = [b \in Business |-> Biz!NoRow] /\ home = [s \in Staff |-> None]
      /\ bizCall = [c \in Calls |-> Biz!Idle] /\ review = [b \in Business |-> "PENDING"]
      /\ removed = {} /\ shared = FALSE /\ stale = FALSE
      /\ homeCall = [s \in Staff |-> Biz!NoSave] /\ misplaced = FALSE
  BY DEF Biz!Init
<1>3. Biz!TypeOK
  BY <1>1, <1>2, BizIdle DEF Biz!TypeOK, BizCall, Biz!NoSave
<1>4. BizCallsMeant /\ Biz!AnswersKept
  BY <1>1, <1>2, BizIdle DEF BizCallsMeant, Biz!AnswersKept
<1>5. Biz!PrimaryBelongs
  BY <1>1, <1>2, BackOfficeAssumption DEF Biz!PrimaryBelongs
<1> QED BY <1>3, <1>4, <1>5 DEF BizInv

\* Only call c moves, to new.
LEMMA BizCallStep ==
    ASSUME Biz!TypeOK, BizCallsMeant, NEW c \in Calls, NEW new \in BizCall,
           bizCall' = [bizCall EXCEPT ![c] = new],
           new.op # "none" => new.id \in Business /\ new.seen.exists
    PROVE  /\ bizCall' \in [Calls -> BizCall]
           /\ \A d \in Calls : bizCall'[d].op # "none" =>
                  bizCall'[d].id \in Business /\ bizCall'[d].seen.exists
<1>1. bizCall'[c] = new /\ \A d \in Calls \ {c} : bizCall'[d] = bizCall[d]
  BY BizTyped
<1>2. ASSUME NEW d \in Calls, bizCall'[d].op # "none"
      PROVE  bizCall'[d].id \in Business /\ bizCall'[d].seen.exists
  <2>1. CASE d = c
    BY <1>1, <1>2, <2>1
  <2>2. CASE d # c
    BY <1>1, <1>2, <2>2 DEF BizCallsMeant
  <2> QED BY <2>1, <2>2
<1> QED BY <1>2, BizTyped

\* A handler that writes nothing.
LEMMA BizStays ==
    ASSUME BizInv, NEW c \in Calls, NEW new \in BizCall,
           bizCall' = [bizCall EXCEPT ![c] = new],
           new.op # "none" => new.id \in Business /\ new.seen.exists,
           UNCHANGED <<biz, home, review, removed, shared, stale, Biz!staffSaveVars>>
    PROVE  BizInv'
<1>1. Biz!TypeOK /\ BizCallsMeant /\ UNCHANGED <<homeCall, misplaced>>
  BY DEF BizInv, Biz!staffSaveVars
<1>2. BizCallsMeant'
  BY <1>1, BizCallStep DEF BizCallsMeant
<1>3. Biz!TypeOK'
  BY <1>1, BizCallStep DEF Biz!TypeOK, BizCall
<1> QED BY <1>1, <1>2, <1>3 DEF BizInv, Biz!PrimaryBelongs, Biz!AnswersKept

LEMMA BizCreateKeeps ==
    ASSUME BizInv, NEW b \in Business, NEW s \in Staff, Biz!Create(b, s)
    PROVE  BizInv'
<1> DEFINE new == [exists |-> TRUE, archived |-> FALSE, primary |-> s,
                   verification |-> "PENDING"]
<1>1. Biz!TypeOK /\ BizCallsMeant
  BY DEF BizInv
<1>2. new \in Biz!Row /\ new.exists /\ ~new.archived /\ new.primary = s
      /\ new.verification = "PENDING"
  BY DEF Biz!Row
<1>3. /\ ~biz[b].exists /\ biz' = [biz EXCEPT ![b] = new] /\ home' = [home EXCEPT ![s] = b]
      /\ shared' = (shared \/ Biz!Shares(b, s))
      /\ UNCHANGED <<bizCall, review, removed, stale, homeCall, misplaced>>
  BY DEF Biz!Create, Biz!staffSaveVars
<1> HIDE DEF new
<1>4. biz'[b] = new /\ \A x \in Business \ {b} : biz'[x] = biz[x]
  BY <1>1, <1>3, BizTyped
<1>5. home'[s] = b /\ \A t \in Staff \ {s} : home'[t] = home[t]
  BY <1>1, <1>3, BizTyped
<1>6. Biz!TypeOK'
  <2>1. shared' \in BOOLEAN
    BY <1>1, <1>3 DEF Biz!TypeOK, Biz!Shares
  <2> QED BY <1>1, <1>2, <1>3, <2>1 DEF Biz!TypeOK
<1>7. BizCallsMeant'
  BY <1>1, <1>2, <1>3, <1>4 DEF BizCallsMeant
<1>8. ~biz[b].archived /\ biz[b].primary = None /\ biz[b].verification = "PENDING"
  BY <1>1, <1>3 DEF BizCallsMeant
<1>9. Biz!AnswersKept'
  BY <1>2, <1>3, <1>4, <1>8 DEF BizInv, Biz!AnswersKept
<1>10. Biz!PrimaryBelongs'
  <2> SUFFICES ASSUME ~stale', ~misplaced', ~shared', NEW x \in Business, NEW t \in Staff
               PROVE  biz'[x].primary = t <=> home'[t] = x
    BY DEF Biz!PrimaryBelongs
  <2>1. \A y \in Business, u \in Staff : biz[y].primary = u <=> home[u] = y
    BY <1>3 DEF BizInv, Biz!PrimaryBelongs
  <2>2. \A y \in Business \ {b} : biz[y].primary # s
    BY <1>3 DEF Biz!Shares
  <2>3. CASE x = b
    BY <1>2, <1>4, <1>5, <1>8, <2>1, <2>3, BackOfficeAssumption
  <2>4. CASE x # b
    BY <1>4, <1>5, <2>1, <2>2, <2>4
  <2> QED BY <2>3, <2>4
<1> QED BY <1>6, <1>7, <1>9, <1>10 DEF BizInv

\* A save of entity by call c: what is true of any of the four.
LEMMA BizSave ==
    ASSUME BizInv, NEW c \in Calls, bizCall[c].op # "none",
           NEW entity \in Biz!Row, entity.exists, Biz!SaveBusiness(c, entity)
    PROVE  /\ biz' \in [Business -> Biz!Row] /\ stale' \in BOOLEAN
           /\ bizCall' \in [Calls -> BizCall] /\ BizCallsMeant'
           /\ bizCall[c].id \in Business /\ biz'[bizCall[c].id] = entity
           /\ \A x \in Business \ {bizCall[c].id} : biz'[x] = biz[x]
           /\ ~stale' => ~stale /\ biz[bizCall[c].id] = bizCall[c].seen
<1> DEFINE b == bizCall[c].id
<1>1. Biz!TypeOK /\ BizCallsMeant /\ b \in Business /\ stale \in BOOLEAN
  BY DEF BizInv, BizCallsMeant, Biz!TypeOK
<1>2. /\ biz' = [biz EXCEPT ![b] = entity] /\ stale' = (stale \/ biz[b] # bizCall[c].seen)
      /\ bizCall' = [bizCall EXCEPT ![c] = Biz!Idle]
  BY DEF Biz!SaveBusiness, Biz!Return
<1> HIDE DEF b
<1>3. biz' \in [Business -> Biz!Row] /\ biz'[b] = entity
      /\ \A x \in Business \ {b} : biz'[x] = biz[x]
  BY <1>1, <1>2, BizTyped
<1>4. bizCall' \in [Calls -> BizCall] /\ \A d \in Calls : bizCall'[d].op # "none" =>
          bizCall'[d].id \in Business /\ bizCall'[d].seen.exists
  BY <1>1, <1>2, BizIdle, BizCallStep
<1>5. BizCallsMeant'
  BY <1>1, <1>3, <1>4 DEF BizCallsMeant
<1>6. stale' \in BOOLEAN /\ (~stale' => ~stale /\ biz[b] = bizCall[c].seen)
  BY <1>1, <1>2
<1> QED BY <1>1, <1>3, <1>4, <1>5, <1>6 DEF b

\* A save that leaves the primary staff as it was read.
LEMMA BizSaveKeeps ==
    ASSUME BizInv, NEW c \in Calls, bizCall[c].op # "none",
           NEW entity \in Biz!Row, entity.exists, Biz!SaveBusiness(c, entity),
           entity.primary = bizCall[c].seen.primary,
           UNCHANGED <<home, shared, Biz!staffSaveVars>>,
           review' \in [Business -> {"PENDING", "VERIFIED", "REJECTED"}],
           removed' \in SUBSET Business,
           \/ review'[bizCall[c].id] = entity.verification
           \/ /\ entity.verification = bizCall[c].seen.verification
              /\ review'[bizCall[c].id] = review[bizCall[c].id],
           \A x \in Business \ {bizCall[c].id} : review'[x] = review[x],
           removed' \subseteq removed \cup {bizCall[c].id},
           bizCall[c].id \in removed' \ removed => entity.archived,
           bizCall[c].seen.archived => entity.archived
    PROVE  BizInv'
<1> DEFINE b == bizCall[c].id
<1>1. /\ biz' \in [Business -> Biz!Row] /\ stale' \in BOOLEAN
      /\ bizCall' \in [Calls -> BizCall] /\ BizCallsMeant'
      /\ b \in Business /\ biz'[b] = entity
      /\ \A x \in Business \ {b} : biz'[x] = biz[x]
      /\ ~stale' => ~stale /\ biz[b] = bizCall[c].seen
  BY BizSave
<1> HIDE DEF b
<1>2. Biz!TypeOK'
  BY <1>1 DEF BizInv, Biz!TypeOK, BizCall, Biz!staffSaveVars
<1>3. Biz!AnswersKept'
  <2> SUFFICES ASSUME ~stale'
               PROVE  /\ \A x \in Business : biz'[x].verification = review'[x]
                      /\ \A x \in removed' : biz'[x].archived
    BY DEF Biz!AnswersKept
  <2>1. /\ \A x \in Business : biz[x].verification = review[x]
        /\ \A x \in removed : biz[x].archived
    BY <1>1 DEF BizInv, Biz!AnswersKept
  <2>2. biz'[b].verification = review'[b]
    BY <1>1, <2>1 DEF b
  <2>3. ASSUME NEW x \in removed' PROVE biz'[x].archived
    <3>1. CASE x = b
      BY <1>1, <2>1, <2>3, <3>1 DEF b
    <3>2. CASE x # b
      BY <1>1, <2>1, <2>3, <3>2 DEF b
    <3> QED BY <3>1, <3>2
  <2>4. ASSUME NEW x \in Business PROVE biz'[x].verification = review'[x]
    <3>1. CASE x = b
      BY <2>2, <3>1
    <3>2. CASE x # b
      BY <1>1, <2>1, <3>2 DEF b
    <3> QED BY <3>1, <3>2
  <2> QED BY <2>3, <2>4
<1>4. Biz!PrimaryBelongs'
  BY <1>1 DEF BizInv, Biz!PrimaryBelongs, Biz!staffSaveVars, b
<1> QED BY <1>1, <1>2, <1>3, <1>4 DEF BizInv

LEMMA BizUpdateKeeps ==
    ASSUME BizInv, NEW c \in Calls, NEW s \in Staff \cup {None}, Biz!UpdateBusiness(c, s)
    PROVE  BizInv'
<1> DEFINE b == bizCall[c].id
           seen == bizCall[c].seen
           primary == IF s = None THEN seen.primary ELSE s
           entity == [seen EXCEPT !.primary = primary]
<1>1. Biz!TypeOK /\ bizCall[c].op # "none" /\ seen \in Biz!Row /\ seen.exists
  <2>1. bizCall[c].op = "update" /\ bizCall[c] \in BizCall
    BY BizTyped DEF BizInv, Biz!UpdateBusiness
  <2> QED BY <2>1 DEF BizInv, BizCallsMeant, BizCall
<1>2. primary \in Staff \cup {None}
  BY <1>1, BizRowFields
<1>3. /\ Biz!SaveBusiness(c, entity) /\ UNCHANGED <<review, removed, Biz!staffSaveVars>>
      /\ s \notin {None, seen.primary} =>
             /\ home' = Biz!MovePrimary(seen.primary, s, b)
             /\ shared' = (shared \/ Biz!Shares(b, s))
      /\ s \in {None, seen.primary} => UNCHANGED <<home, shared>>
  BY DEF Biz!UpdateBusiness
<1>p. primary = IF s = None THEN seen.primary ELSE s
  OBVIOUS
<1> HIDE DEF primary
<1>4. /\ entity \in Biz!Row /\ entity.exists /\ entity.primary = primary
      /\ entity.verification = seen.verification /\ entity.archived = seen.archived
  BY <1>1, <1>2 DEF Biz!Row
<1> HIDE DEF entity
<1>5. CASE s \in {None, seen.primary}
  <2>1. primary = seen.primary
    BY <1>p, <1>5
  <2>2. review' \in [Business -> {"PENDING", "VERIFIED", "REJECTED"}] /\ removed' \in SUBSET Business
    BY <1>1, <1>3 DEF Biz!TypeOK
  <2> QED BY <1>1, <1>3, <1>4, <1>5, <2>1, <2>2, BizSaveKeeps
<1>6. CASE s \notin {None, seen.primary}
  <2>0. s \in Staff /\ primary = s
    BY <1>p, <1>6
  <2>1. /\ biz' \in [Business -> Biz!Row] /\ stale' \in BOOLEAN
        /\ bizCall' \in [Calls -> BizCall] /\ BizCallsMeant'
        /\ b \in Business /\ biz'[b] = entity
        /\ \A x \in Business \ {b} : biz'[x] = biz[x]
        /\ ~stale' => ~stale /\ biz[b] = seen
    <3>1. bizCall[c].op # "none" /\ entity \in Biz!Row /\ entity.exists
          /\ Biz!SaveBusiness(c, entity)
      BY <1>1, <1>3, <1>4
    <3> QED BY <3>1, BizSave
  <2> HIDE DEF b
  <2>2. home' = [t \in Staff |-> IF t = s THEN b ELSE IF t = seen.primary THEN None ELSE home[t]]
        /\ shared' = (shared \/ Biz!Shares(b, s))
    BY <1>3, <1>6 DEF Biz!MovePrimary
  <2>3. home' \in [Staff -> Business \cup {None}]
    BY <1>1, <2>1, <2>2, BizTyped
  <2>4. shared' \in BOOLEAN
    BY <1>1, <2>2 DEF Biz!TypeOK, Biz!Shares
  <2>5. Biz!TypeOK'
    BY <1>1, <1>3, <2>1, <2>3, <2>4 DEF Biz!TypeOK, BizCall, Biz!staffSaveVars
  <2>6. Biz!AnswersKept'
    <3> SUFFICES ASSUME ~stale'
                 PROVE  /\ \A x \in Business : biz'[x].verification = review[x]
                        /\ \A x \in removed : biz'[x].archived
      BY <1>3 DEF Biz!AnswersKept
    <3>1. /\ \A x \in Business : biz[x].verification = review[x]
          /\ \A x \in removed : biz[x].archived /\ x \in Business
      BY <1>1, <2>1 DEF BizInv, Biz!AnswersKept, Biz!TypeOK
    <3>2. /\ biz'[b].verification = biz[b].verification /\ biz'[b].archived = biz[b].archived
          /\ \A x \in Business \ {b} : biz'[x] = biz[x]
      BY <1>4, <2>1
    <3> QED BY <3>1, <3>2
  <2>7. Biz!PrimaryBelongs'
    <3> SUFFICES ASSUME ~stale', ~misplaced', ~shared', NEW x \in Business, NEW t \in Staff
                 PROVE  biz'[x].primary = t <=> home'[t] = x
      BY DEF Biz!PrimaryBelongs
    <3>1. \A y \in Business, u \in Staff : biz[y].primary = u <=> home[u] = y
      BY <1>3, <2>1, <2>2 DEF BizInv, Biz!PrimaryBelongs, Biz!staffSaveVars
    <3>2. \A y \in Business \ {b} : biz[y].primary # s
      BY <2>2 DEF Biz!Shares
    <3>3. home'[t] = IF t = s THEN b ELSE IF t = seen.primary THEN None ELSE home[t]
      BY <2>2
    <3>4. biz[b].primary = seen.primary
      BY <2>1
    <3>5. CASE x = b
      BY <1>4, <2>0, <2>1, <3>1, <3>3, <3>4, <3>5, BackOfficeAssumption
    <3>6. CASE x # b
      BY <2>1, <3>1, <3>2, <3>3, <3>4, <3>6, BackOfficeAssumption
    <3> QED BY <3>5, <3>6
  <2> QED BY <2>1, <2>5, <2>6, <2>7 DEF BizInv
<1> QED BY <1>5, <1>6

LEMMA BizOtherSavesKeep ==
    ASSUME BizInv, NEW c \in Calls,
           Biz!RemoveBusiness(c) \/ Biz!UpdateBusinessSettings(c) \/ Biz!ReviewBusiness(c)
    PROVE  BizInv'
<1> DEFINE b == bizCall[c].id
           seen == bizCall[c].seen
<1>1. Biz!TypeOK /\ bizCall[c].op # "none" /\ seen \in Biz!Row /\ seen.exists /\ b \in Business
  <2>1. bizCall[c].op # "none" /\ bizCall[c] \in BizCall
    BY BizTyped DEF BizInv, Biz!RemoveBusiness, Biz!UpdateBusinessSettings, Biz!ReviewBusiness
  <2> QED BY <2>1 DEF BizInv, BizCallsMeant, BizCall
<1>2. /\ review \in [Business -> {"PENDING", "VERIFIED", "REJECTED"}]
      /\ removed \in SUBSET Business
  BY <1>1 DEF Biz!TypeOK
<1>3. CASE Biz!RemoveBusiness(c)
  <2> DEFINE entity == [seen EXCEPT !.archived = TRUE]
  <2>1. /\ entity \in Biz!Row /\ entity.exists /\ entity.primary = seen.primary
        /\ entity.verification = seen.verification /\ entity.archived
    BY <1>1 DEF Biz!Row
  <2>2. /\ Biz!SaveBusiness(c, entity) /\ removed' = removed \cup {b}
        /\ UNCHANGED <<home, review, shared, Biz!staffSaveVars>>
    BY <1>3 DEF Biz!RemoveBusiness
  <2> HIDE DEF entity
  <2> QED BY <1>1, <1>2, <2>1, <2>2, BizSaveKeeps
<1>4. CASE Biz!UpdateBusinessSettings(c)
  <2>1. /\ Biz!SaveBusiness(c, seen)
        /\ UNCHANGED <<home, review, removed, shared, Biz!staffSaveVars>>
    BY <1>4 DEF Biz!UpdateBusinessSettings
  <2> QED BY <1>1, <1>2, <2>1, BizSaveKeeps
<1>5. CASE Biz!ReviewBusiness(c)
  <2> DEFINE verdict == IF bizCall[c].op = "approve" THEN "VERIFIED" ELSE "REJECTED"
             entity == [seen EXCEPT !.verification = verdict]
  <2>1. /\ Biz!SaveBusiness(c, entity) /\ review' = [review EXCEPT ![b] = verdict]
        /\ UNCHANGED <<home, removed, shared, Biz!staffSaveVars>> /\ verdict \in {"VERIFIED", "REJECTED"}
    BY <1>5 DEF Biz!ReviewBusiness, Biz!Reviewed
  <2> HIDE DEF verdict
  <2>2. /\ entity \in Biz!Row /\ entity.exists /\ entity.primary = seen.primary
        /\ entity.verification = verdict /\ entity.archived = seen.archived
    BY <1>1, <2>1 DEF Biz!Row
  <2> HIDE DEF entity
  <2>3. /\ review' \in [Business -> {"PENDING", "VERIFIED", "REJECTED"}] /\ review'[b] = verdict
        /\ \A x \in Business \ {b} : review'[x] = review[x]
    BY <1>1, <1>2, <2>1
  <2> QED BY <1>1, <1>2, <2>1, <2>2, <2>3, BizSaveKeeps
<1> QED BY <1>3, <1>4, <1>5

\* A handler of StaffService: it takes a staff user back to where they were read,
\* or changes nothing that the invariant speaks of.
LEMMA BizStaffKeeps ==
    ASSUME BizInv, NEW s \in Staff,
           Biz!FindStaff(s) \/ Biz!SaveStaff(s) \/ Biz!AbandonStaff(s)
    PROVE  BizInv'
<1>1. /\ Biz!TypeOK /\ home \in [Staff -> Business \cup {None}]
      /\ homeCall \in [Staff -> HomeCall] /\ misplaced \in BOOLEAN /\ homeCall[s] \in HomeCall
  BY BizTyped DEF BizInv
<1>2. UNCHANGED <<biz, bizCall, review, removed, shared, stale>>
  BY DEF Biz!FindStaff, Biz!SaveStaff, Biz!AbandonStaff
<1>3. BizCallsMeant' /\ Biz!AnswersKept'
  BY <1>2 DEF BizInv, BizCallsMeant, Biz!AnswersKept
<1>4. CASE Biz!SaveStaff(s)
  <2>1. /\ home' = [home EXCEPT ![s] = homeCall[s].seen]
        /\ homeCall' = [homeCall EXCEPT ![s] = Biz!NoSave]
        /\ misplaced' = (misplaced \/ home[s] # homeCall[s].seen)
    BY <1>4 DEF Biz!SaveStaff
  <2>2. homeCall[s].seen \in Business \cup {None} /\ Biz!NoSave \in HomeCall
    BY <1>1 DEF HomeCall, Biz!NoSave
  <2>3. home' \in [Staff -> Business \cup {None}] /\ misplaced' \in BOOLEAN
        /\ homeCall' \in [Staff -> HomeCall]
    BY <1>1, <2>1, <2>2
  <2>4. Biz!TypeOK'
    BY <1>1, <1>2, <2>3 DEF Biz!TypeOK, HomeCall
  <2>5. ~misplaced' => ~misplaced /\ home' = home
    BY <1>1, <2>1
  <2>6. Biz!PrimaryBelongs'
    BY <1>2, <2>5 DEF BizInv, Biz!PrimaryBelongs
  <2> QED BY <1>3, <2>4, <2>6 DEF BizInv
<1>5. CASE Biz!FindStaff(s) \/ Biz!AbandonStaff(s)
  <2>1. \E new \in HomeCall : homeCall' = [homeCall EXCEPT ![s] = new]
    BY <1>1, <1>5 DEF Biz!FindStaff, Biz!AbandonStaff, HomeCall, Biz!NoSave
  <2>2. homeCall' \in [Staff -> HomeCall] /\ UNCHANGED <<home, misplaced>>
    BY <1>1, <1>5, <2>1 DEF Biz!FindStaff, Biz!AbandonStaff
  <2>3. Biz!TypeOK'
    BY <1>1, <1>2, <2>2 DEF Biz!TypeOK, HomeCall
  <2>4. Biz!PrimaryBelongs'
    BY <1>2, <2>2 DEF BizInv, Biz!PrimaryBelongs
  <2> QED BY <1>3, <2>3, <2>4 DEF BizInv
<1> QED BY <1>4, <1>5

LEMMA BizNext == BizInv /\ [Biz!Next]_(Biz!bizVars) => BizInv'
<1> SUFFICES ASSUME BizInv, [Biz!Next]_(Biz!bizVars) PROVE BizInv'
  OBVIOUS
<1>1. CASE UNCHANGED Biz!bizVars
  BY <1>1 DEF Biz!bizVars, BizInv, Biz!TypeOK, BizCallsMeant, Biz!PrimaryBelongs, Biz!AnswersKept
<1>2. ASSUME NEW c \in Calls, Biz!Handler(c) PROVE BizInv'
  <2>1. ASSUME NEW b \in Business, NEW op \in Biz!Operation, Biz!FindBusiness(c, b, op)
        PROVE  BizInv'
    <3> DEFINE new == [op |-> op, id |-> b, seen |-> biz[b]]
    <3>1. new \in BizCall /\ new.id = b /\ new.seen = biz[b]
      BY BizTyped DEF BizInv, BizCall
    <3>2. bizCall' = [bizCall EXCEPT ![c] = new] /\ biz[b].exists
          /\ UNCHANGED <<biz, home, review, removed, shared, stale, Biz!staffSaveVars>>
      BY <2>1 DEF Biz!FindBusiness
    <3> HIDE DEF new
    <3> QED BY <3>1, <3>2, BizStays
  <2>2. CASE Biz!Abandon(c)
    BY <2>2, BizIdle, BizStays DEF Biz!Abandon, Biz!Return
  <2> QED BY <1>2, <2>1, <2>2, BizUpdateKeeps, BizOtherSavesKeep DEF Biz!Handler
<1> QED BY <1>1, <1>2, BizCreateKeeps, BizStaffKeeps DEF Biz!Next

LEMMA BizMoves == [Next]_vars => [Biz!Next]_(Biz!bizVars)
BY DEF Next, vars, businessVars, Biz!bizVars

\* A business's primary staff belongs to it, and nobody else does, for any number
\* of businesses, staff users and overlapping handlers, but after a stale save of a
\* business or of a staff user, or after one was made primary of two businesses.
THEOREM PrimariesBelong == (Biz!Spec => []Biz!PrimaryBelongs) /\ (Spec => []PrimaryBelongs)
<1>1. BizInv => Biz!PrimaryBelongs /\ PrimaryBelongs
  BY DEF BizInv, PrimaryBelongs
<1>2. Init => Biz!Init
  BY DEF Init
<1>3. Biz!Spec => []Biz!PrimaryBelongs
  BY <1>1, BizInit, BizNext, PTL DEF Biz!Spec
<1>4. Spec => []PrimaryBelongs
  BY <1>1, <1>2, BizInit, BizNext, BizMoves, PTL DEF Spec
<1> QED BY <1>3, <1>4

----------------------------------------------------------------------------
(* Contracts: their numbers, and the lists of signed and unsigned businesses. *)

LEMMA ContractCardinality == ASSUME NEW S PROVE Con!Cardinality(S) = Cardinality(S)
BY Zenon DEF Con!Cardinality, Cardinality

LEMMA ContractFinite == ASSUME NEW S PROVE Con!IsFiniteSet(S) <=> IsFiniteSet(S)
BY Zenon DEF Con!IsFiniteSet, IsFiniteSet

UploadPC == {"idle", "send", "count", "probe", "insert"}
UploadCall == [pc: UploadPC, business: Business \cup {None}, next: Nat]

ContractsTyped ==
    /\ contracts \in SUBSET Con!Contract /\ IsFiniteSet(contracts)
    /\ verified \in SUBSET Business /\ overlapped \in SUBSET Business
    /\ upload \in [Calls -> UploadCall]

NoGap == Con!Numbers = 1..Cardinality(contracts)

\* An upload that looks for a number, or found one, is at most one past the last:
\* the contracts it counted are still there, and it steps over taken numbers only.
TriesNext ==
    \A c \in Calls : upload[c].pc \in {"probe", "insert"} =>
        upload[c].next \in 1..(Cardinality(contracts) + 1)

UploadsHaveBusiness == \A c \in Calls : upload[c].pc # "idle" => upload[c].business \in Business

\* Of two contracts, or a contract and an upload in flight, one is another business's.
SignedOnce ==
    \A b \in Business \ overlapped :
        /\ \A k, l \in Con!ContractsOf(b) : k = l
        /\ \A c \in Calls : upload[c].business = b => Con!ContractsOf(b) = {}

ConInv == ContractsTyped /\ NoGap /\ TriesNext /\ UploadsHaveBusiness /\ SignedOnce

LEMMA ContractCount == ASSUME ContractsTyped PROVE Cardinality(contracts) \in Nat
BY FS_CardinalityType DEF ContractsTyped

\* Upload c moves, the others stay where they are.
UploadMoves(c, pc, b, n) ==
    /\ upload' \in [Calls -> UploadCall]
    /\ upload'[c].pc = pc /\ upload'[c].business = b /\ upload'[c].next = n
    /\ \A d \in Calls \ {c} : upload'[d] = upload[d]

LEMMA UploadType ==
    ASSUME ContractsTyped
    PROVE  /\ upload \in [Calls -> UploadCall]
           /\ \A c \in Calls : /\ upload[c].next \in Nat /\ upload[c].pc \in UploadPC
                               /\ upload[c].business \in Business \cup {None}
BY DEF ContractsTyped, UploadCall

LEMMA UploadStartMoves ==
    ASSUME ContractsTyped, NEW c \in Calls, NEW b \in Business \cup {None}, NEW n \in Nat,
           NEW pc \in UploadPC,
           upload' = [upload EXCEPT ![c] = [pc |-> pc, business |-> b, next |-> n]]
    PROVE  UploadMoves(c, pc, b, n)
<1> DEFINE new == [pc |-> pc, business |-> b, next |-> n]
<1>1. /\ new \in UploadCall /\ new.pc = pc /\ new.business = b /\ new.next = n
      /\ upload' = [upload EXCEPT ![c] = new]
  BY DEF UploadCall
<1> HIDE DEF new
<1> QED BY <1>1, UploadType DEF UploadMoves

LEMMA UploadPcMoves ==
    ASSUME ContractsTyped, NEW c \in Calls, NEW pc \in UploadPC,
           upload' = [upload EXCEPT ![c].pc = pc]
    PROVE  UploadMoves(c, pc, upload[c].business, upload[c].next)
BY UploadType DEF UploadMoves, UploadCall

LEMMA UploadNextMoves ==
    ASSUME ContractsTyped, NEW c \in Calls, NEW n \in Nat, upload' = [upload EXCEPT ![c].next = n]
    PROVE  UploadMoves(c, upload[c].pc, upload[c].business, n)
BY UploadType DEF UploadMoves, UploadCall

LEMMA UploadPcNextMoves ==
    ASSUME ContractsTyped, NEW c \in Calls, NEW pc \in UploadPC, NEW n \in Nat,
           upload' = [upload EXCEPT ![c].pc = pc, ![c].next = n]
    PROVE  UploadMoves(c, pc, upload[c].business, n)
BY UploadType DEF UploadMoves, UploadCall

LEMMA UploadReturnMoves ==
    ASSUME ContractsTyped, NEW c \in Calls, Con!Return(c)
    PROVE  UploadMoves(c, "idle", None, 0)
<1>1. upload' = [upload EXCEPT ![c] = [pc |-> "idle", business |-> None, next |-> 0]]
  BY DEF Con!Return, Con!Idle
<1>2. None \in Business \cup {None} /\ 0 \in Nat /\ "idle" \in UploadPC
  BY DEF UploadPC
<1> QED BY <1>1, <1>2, UploadStartMoves

\* A handler without an effect on the tables.
LEMMA UploadStep ==
    ASSUME ConInv, UNCHANGED <<contracts, verified, overlapped>>,
           NEW c \in Calls, NEW pc, NEW b, NEW n, UploadMoves(c, pc, b, n),
           pc \in {"probe", "insert"} => n \in 1..(Cardinality(contracts) + 1),
           pc # "idle" => b \in Business,
           b = None \/ b = upload[c].business \/ Con!ContractsOf(b) = {}
    PROVE  ConInv'
<1>1. ContractsTyped'
  BY DEF ConInv, ContractsTyped, UploadMoves
<1>2. NoGap'
  BY DEF ConInv, NoGap, Con!Numbers
<1>3. TriesNext'
  BY DEF ConInv, TriesNext, UploadMoves
<1>4. UploadsHaveBusiness'
  BY DEF ConInv, UploadsHaveBusiness, UploadMoves
<1>5. SignedOnce'
  <2> SUFFICES ASSUME NEW x \in Business \ overlapped
               PROVE  /\ \A k, l \in Con!ContractsOf(x)' : k = l
                      /\ \A d \in Calls : upload'[d].business = x => Con!ContractsOf(x)' = {}
    BY DEF SignedOnce
  <2>1. Con!ContractsOf(x)' = Con!ContractsOf(x)
    BY DEF Con!ContractsOf
  <2>2. x # None
    BY BackOfficeAssumption
  <2> QED BY <2>1, <2>2 DEF ConInv, SignedOnce, UploadMoves
<1> QED BY <1>1, <1>2, <1>3, <1>4, <1>5 DEF ConInv

LEMMA ConInit == Con!Init => ConInv
<1> SUFFICES ASSUME Con!Init PROVE ConInv
  OBVIOUS
<1>1. contracts = {} /\ verified = {} /\ overlapped = {}
      /\ upload = [c \in Calls |-> [pc |-> "idle", business |-> None, next |-> 0]]
  BY DEF Con!Init, Con!Idle
<1>2. IsFiniteSet(contracts) /\ Cardinality(contracts) = 0
  BY <1>1, FS_EmptySet
<1>3. ContractsTyped
  BY <1>1, <1>2 DEF ContractsTyped, UploadCall, UploadPC
<1>4. NoGap
  BY <1>1, <1>2 DEF NoGap, Con!Numbers
<1>5. TriesNext /\ UploadsHaveBusiness
  BY <1>1 DEF TriesNext, UploadsHaveBusiness
<1>6. SignedOnce
  BY <1>1 DEF SignedOnce, Con!ContractsOf
<1> QED BY <1>3, <1>4, <1>5, <1>6 DEF ConInv

\* The free number that is inserted is the one after the last, and the business
\* is one that had signed no contract.
LEMMA InsertKeeps ==
    ASSUME ConInv, NEW c \in Calls, Con!InsertContract(c)
    PROVE  ConInv'
<1> DEFINE n == upload[c].next  b == upload[c].business  count == Cardinality(contracts)
           row == [business |-> b, number |-> n]
<1>0. /\ ContractsTyped /\ count \in Nat /\ Con!Numbers = 1..count /\ b \in Business
      /\ overlapped \in SUBSET Business
  BY ContractCount DEF ConInv, NoGap, UploadsHaveBusiness, Con!InsertContract, ContractsTyped
<1>1. n = count + 1
  <2>1. n \in 1..(count + 1) /\ n \notin 1..count
    BY <1>0 DEF Con!InsertContract, ConInv, TriesNext
  <2> QED BY <1>0, <2>1
<1>2. contracts' = contracts \cup {row} /\ row \notin contracts /\ row.number = n
      /\ row \in Con!Contract /\ row.business = b
  BY <1>0, <1>1 DEF Con!InsertContract, Con!Numbers, Con!Contract
<1> HIDE DEF row
<1>3. IsFiniteSet(contracts') /\ Cardinality(contracts') = count + 1
  BY <1>0, <1>2, FS_AddElement DEF ContractsTyped
<1>4. Con!Numbers' = Con!Numbers \cup {n}
  BY <1>2 DEF Con!Numbers
<1>5. 1..(count + 1) = (1..count) \cup {count + 1}
  BY <1>0
<1>6. NoGap'
  BY <1>0, <1>1, <1>3, <1>4, <1>5 DEF NoGap
<1>7. UploadMoves(c, "idle", None, 0)
  BY <1>0, UploadReturnMoves DEF Con!InsertContract
<1>8. /\ overlapped \subseteq overlapped' /\ overlapped' \subseteq overlapped \cup {b}
      /\ (\E d \in Calls \ {c} : upload[d].business = b) => b \in overlapped'
  BY DEF Con!InsertContract
<1>9. ContractsTyped'
  BY <1>0, <1>2, <1>3, <1>7, <1>8 DEF ContractsTyped, Con!InsertContract, UploadMoves
<1>10. TriesNext'
  BY <1>0, <1>3, <1>7 DEF ConInv, TriesNext, UploadMoves
<1>11. UploadsHaveBusiness'
  BY <1>7 DEF ConInv, UploadsHaveBusiness, UploadMoves
<1>12. SignedOnce'
  <2> SUFFICES ASSUME NEW x \in Business \ overlapped'
               PROVE  /\ \A k, l \in Con!ContractsOf(x)' : k = l
                      /\ \A d \in Calls : upload'[d].business = x => Con!ContractsOf(x)' = {}
    BY DEF SignedOnce
  <2>1. x \in Business \ overlapped /\ x # None
    BY <1>8, BackOfficeAssumption
  <2>2. CASE x = b
    <3>1. Con!ContractsOf(b) = {}
      BY <2>1, <2>2 DEF ConInv, SignedOnce
    <3>2. Con!ContractsOf(x)' = {row}
      BY <1>2, <2>2, <3>1 DEF Con!ContractsOf
    <3>3. \A d \in Calls : upload'[d].business # x
      BY <1>7, <1>8, <2>1, <2>2 DEF UploadMoves
    <3> QED BY <3>2, <3>3
  <2>3. CASE x # b
    <3>1. Con!ContractsOf(x)' = Con!ContractsOf(x)
      BY <1>2, <2>3 DEF Con!ContractsOf
    <3>2. \A d \in Calls : upload'[d].business = x => upload[d].business = x
      BY <1>7, <2>1 DEF UploadMoves
    <3> QED BY <2>1, <3>1, <3>2 DEF ConInv, SignedOnce
  <2> QED BY <2>2, <2>3
<1> QED BY <1>6, <1>9, <1>10, <1>11, <1>12 DEF ConInv

LEMMA ConNext == ConInv /\ [Con!Next]_(Con!contractVars) => ConInv'
<1> SUFFICES ASSUME ConInv, [Con!Next]_(Con!contractVars) PROVE ConInv'
  OBVIOUS
<1>0. ContractsTyped /\ Cardinality(contracts) \in Nat /\ Con!Numbers = 1..Cardinality(contracts)
  BY ContractCount DEF ConInv, NoGap
<1>1. ASSUME NEW b \in Business, Con!Review(b) PROVE ConInv'
  <2>1. UNCHANGED <<contracts, upload, overlapped>> /\ verified' \in SUBSET Business
    BY <1>0, <1>1 DEF Con!Review, ContractsTyped
  <2> QED BY <2>1 DEF ConInv, ContractsTyped, NoGap, Con!Numbers, TriesNext,
                      UploadsHaveBusiness, SignedOnce, Con!ContractsOf
<1>2. ASSUME NEW c \in Calls, NEW b \in Business, Con!CheckBusiness(c, b) PROVE ConInv'
  <2>1. UploadMoves(c, "send", b, 0)
    BY <1>0, <1>2, UploadStartMoves DEF Con!CheckBusiness, UploadPC
  <2> QED BY <1>2, <2>1, UploadStep DEF Con!CheckBusiness
<1>3. ASSUME NEW c \in Calls, Con!SendDocument(c) PROVE ConInv'
  <2>1. UploadMoves(c, "count", upload[c].business, upload[c].next)
    BY <1>0, <1>3, UploadPcMoves DEF Con!SendDocument, UploadPC
  <2>2. upload[c].business \in Business
    BY <1>3 DEF Con!SendDocument, ConInv, UploadsHaveBusiness
  <2> QED BY <1>3, <2>1, <2>2, UploadStep DEF Con!SendDocument
<1>4. ASSUME NEW c \in Calls, Con!CountContracts(c) PROVE ConInv'
  <2> DEFINE n == Cardinality(contracts) + 1
  <2>1. n \in Nat /\ n \in 1..n
    BY <1>0
  <2>2. upload' = [upload EXCEPT ![c].pc = "probe", ![c].next = n] /\ "probe" \in UploadPC
    <3>1. Con!Cardinality(contracts) = Cardinality(contracts)
      BY ContractCardinality
    <3> QED BY <1>4, <3>1 DEF Con!CountContracts, UploadPC
  <2>3. UploadMoves(c, "probe", upload[c].business, n)
    <3> HIDE DEF n
    <3> QED BY <1>0, <2>1, <2>2, UploadPcNextMoves
  <2>4. upload[c].business \in Business /\ UNCHANGED <<contracts, verified, overlapped>>
    BY <1>4 DEF Con!CountContracts, ConInv, UploadsHaveBusiness
  <2> QED BY <2>1, <2>3, <2>4, UploadStep
<1>5. ASSUME NEW c \in Calls, Con!ProbeNumber(c) PROVE ConInv'
  <2>1. /\ upload[c].next \in 1..(Cardinality(contracts) + 1) /\ upload[c].next \in Nat
        /\ upload[c].business \in Business /\ UNCHANGED <<contracts, verified, overlapped>>
    BY <1>0, <1>5, UploadType DEF Con!ProbeNumber, ConInv, TriesNext, UploadsHaveBusiness
  <2>2. CASE upload[c].next \in Con!Numbers
    <3>1. upload[c].next + 1 \in 1..(Cardinality(contracts) + 1) /\ upload[c].next + 1 \in Nat
      BY <1>0, <2>2
    <3>2. UploadMoves(c, upload[c].pc, upload[c].business, upload[c].next + 1)
      BY <1>0, <1>5, <2>2, <3>1, UploadNextMoves DEF Con!ProbeNumber
    <3> QED BY <2>1, <3>1, <3>2, UploadStep
  <2>3. CASE upload[c].next \notin Con!Numbers
    <3>1. UploadMoves(c, "insert", upload[c].business, upload[c].next)
      BY <1>0, <1>5, <2>3, UploadPcMoves DEF Con!ProbeNumber, UploadPC
    <3> QED BY <2>1, <3>1, UploadStep
  <2> QED BY <2>2, <2>3
<1>6. ASSUME NEW c \in Calls, Con!Abandon(c) PROVE ConInv'
  BY <1>0, <1>6, UploadReturnMoves, UploadStep DEF Con!Abandon
<1>7. CASE UNCHANGED Con!contractVars
  BY <1>7 DEF Con!contractVars, ConInv, ContractsTyped, NoGap, Con!Numbers, TriesNext,
              UploadsHaveBusiness, SignedOnce, Con!ContractsOf
<1> QED BY <1>1, <1>2, <1>3, <1>4, <1>5, <1>6, <1>7, InsertKeeps DEF Con!Next, Con!Upload

LEMMA ConMoves == [Next]_vars => [Con!Next]_(Con!contractVars)
BY DEF Next, vars, contractVars, Con!contractVars

LEMMA ConTyped == ConInv => Con!TypeOK
<1>1. Con!IsFiniteSet(contracts) <=> IsFiniteSet(contracts)
  BY ContractFinite
<1> QED BY <1>1 DEF ConInv, ContractsTyped, Con!TypeOK, UploadCall, UploadPC

\* However many uploads count, try and insert at once, and die or are refused in
\* between, the contracts are numbered 1, 2, 3, ... without a gap.
THEOREM ContractsNumbered ==
    (Con!Spec => []Con!NumbersConsecutive) /\ (Spec => []NumbersConsecutive)
<1>1. ConInv => Con!NumbersConsecutive
  <2>1. Con!Cardinality(contracts) = Cardinality(contracts)
    BY ContractCardinality
  <2> QED BY <2>1 DEF ConInv, NoGap, Con!NumbersConsecutive
<1>2. Con!NumbersConsecutive => NumbersConsecutive
  BY DEF NumbersConsecutive
<1>3. Init => Con!Init
  BY DEF Init
<1>4. Con!Spec => []Con!NumbersConsecutive
  BY <1>1, ConInit, ConNext, PTL DEF Con!Spec
<1>5. Spec => []NumbersConsecutive
  BY <1>1, <1>2, <1>3, ConInit, ConNext, ConMoves, PTL DEF Spec
<1> QED BY <1>4, <1>5

\* Of any number of businesses each verified one is in the lists once, to sign or
\* signed, unless two of its uploads overlapped.
THEOREM SignersListedOnce ==
    (Con!Spec => []Con!ListedOnce) /\ (Spec => []ListedOnce)
<1>1. ConInv => Con!ListedOnce
  <2> SUFFICES ASSUME ConInv, NEW b \in verified \ overlapped
               PROVE  IF b \in Con!WithoutContract
                      THEN \A k \in Con!WithContract : k.business # b
                      ELSE Con!Cardinality({k \in Con!WithContract : k.business = b}) = 1
    BY DEF Con!ListedOnce
  <2>1. b \in Business \ overlapped
    BY DEF ConInv, ContractsTyped
  <2>2. CASE Con!ContractsOf(b) = {}
    BY <2>2 DEF Con!WithoutContract, Con!WithContract, Con!ContractsOf
  <2>3. CASE Con!ContractsOf(b) # {}
    <3>1. PICK k : k \in Con!ContractsOf(b)
      BY <2>3
    <3>2. Con!ContractsOf(b) = {k}
      BY <2>1, <3>1 DEF ConInv, SignedOnce
    <3>3. Cardinality({k}) = 1
      BY FS_Singleton
    <3>4. Con!Cardinality({k}) = Cardinality({k})
      BY ContractCardinality
    <3>5. {l \in Con!WithContract : l.business = b} = {k}
      BY <3>2 DEF Con!WithContract, Con!ContractsOf
    <3>6. b \notin Con!WithoutContract
      BY <2>3 DEF Con!WithoutContract
    <3> QED BY <3>3, <3>4, <3>5, <3>6
  <2> QED BY <2>2, <2>3
<1>2. Con!ListedOnce => ListedOnce
  BY DEF ListedOnce
<1>3. Init => Con!Init
  BY DEF Init
<1>4. Con!Spec => []Con!ListedOnce
  BY <1>1, ConInit, ConNext, PTL DEF Con!Spec
<1>5. Spec => []ListedOnce
  BY <1>1, <1>2, <1>3, ConInit, ConNext, ConMoves, PTL DEF Spec
<1> QED BY <1>4, <1>5

----------------------------------------------------------------------------
(* Staff accounts: what the last call that set a column was answered. *)

AccInv == Acc!TypeOK /\ Acc!LastAnswerStands

AccStarted == [op: Acc!Operation, id: Accounts, seen: Acc!Row]

LEMMA AccTyped ==
    ASSUME Acc!TypeOK
    PROVE  /\ staff \in [Accounts -> Acc!Row] /\ answered \in [Accounts -> Acc!Row]
           /\ staffCall \in [Calls -> [op: {"none"}] \cup AccStarted]
           /\ \A c \in Calls : staffCall[c].op # "none" => staffCall[c] \in AccStarted
BY DEF Acc!TypeOK, AccStarted

\* Whatever an operation sets, the row keeps its type.
LEMMA ChangedType ==
    ASSUME NEW row \in Acc!Row, NEW op \in Acc!Operation, NEW v \in Values, NEW active \in BOOLEAN
    PROVE  Acc!Changed(row, op, v, active) \in Acc!Row
BY DEF Acc!Changed, Acc!Row, Acc!Operation

LEMMA AccInit == Acc!Init => AccInv
<1> SUFFICES ASSUME Acc!Init PROVE AccInv
  OBVIOUS
<1>1. PICK v \in Values : staff = [s \in Accounts |-> Acc!NewRow(v)]
  BY DEF Acc!Init
<1>2. Acc!NewRow(v) \in Acc!Row
  BY DEF Acc!NewRow, Acc!Row
<1>3. answered = staff /\ staffCall = [c \in Calls |-> Acc!Idle] /\ staffStale = FALSE
      /\ Acc!Idle \in [op: {"none"}]
  BY DEF Acc!Init, Acc!Idle
<1> HIDE DEF Acc!Row
<1> QED BY <1>1, <1>2, <1>3 DEF AccInv, Acc!TypeOK, Acc!LastAnswerStands

\* A handler that writes nothing.
LEMMA AccStays ==
    ASSUME AccInv, NEW c \in Calls, NEW new \in [op: {"none"}] \cup AccStarted,
           staffCall' = [staffCall EXCEPT ![c] = new],
           UNCHANGED <<staff, answered, staffStale>>
    PROVE  AccInv'
<1>1. staffCall' \in [Calls -> [op: {"none"}] \cup AccStarted]
  BY AccTyped DEF AccInv
<1> QED BY <1>1 DEF AccInv, Acc!TypeOK, Acc!LastAnswerStands, AccStarted

LEMMA AccReturn == Acc!Idle \in [op: {"none"}] \cup AccStarted
BY DEF Acc!Idle

LEMMA AccWritesKeep ==
    ASSUME AccInv, NEW c \in Calls, NEW v \in Values, NEW active \in BOOLEAN,
           Acc!WriteColumns(c, v, active) \/ Acc!SaveStaff(c, v, active)
    PROVE  AccInv'
<1> DEFINE s == staffCall[c].id
           op == staffCall[c].op
           seen == staffCall[c].seen
           written == IF op \in Acc!SavesEntity THEN seen ELSE staff[s]
           row == Acc!Changed(written, op, v, active)
           told == Acc!Changed(answered[s], op, v, active)
<1>1. Acc!TypeOK /\ op \in Acc!Operation /\ s \in Accounts /\ seen \in Acc!Row
  <2>1. op \in Acc!Operation /\ op # "none"
    BY DEF Acc!WriteColumns, Acc!SaveStaff, Acc!SavesEntity, Acc!Operation
  <2> QED BY <2>1, AccTyped DEF AccInv, AccStarted
<1>2. staff[s] \in Acc!Row /\ answered[s] \in Acc!Row /\ written \in Acc!Row
  BY <1>1, AccTyped
<1>3. /\ staff' = [staff EXCEPT ![s] = row] /\ answered' = [answered EXCEPT ![s] = told]
      /\ staffCall' = [staffCall EXCEPT ![c] = Acc!Idle]
      /\ op \in Acc!SavesEntity => (staffStale' <=> staffStale \/ staff[s] # seen)
      /\ op \notin Acc!SavesEntity => staffStale' = staffStale
  <2>1. CASE Acc!WriteColumns(c, v, active)
    BY <1>1, <2>1, AccTyped DEF Acc!WriteColumns, Acc!Return
  <2>2. CASE Acc!SaveStaff(c, v, active)
    BY <1>1, <2>2, AccTyped DEF Acc!SaveStaff, Acc!Return
  <2> QED BY <2>1, <2>2
<1>4. row \in Acc!Row /\ told \in Acc!Row
  BY <1>1, <1>2, ChangedType
<1>5. Acc!TypeOK'
  <2>1. staffStale' \in BOOLEAN
    BY <1>1 DEF Acc!TypeOK, Acc!WriteColumns, Acc!SaveStaff
  <2>2. staffCall' \in [Calls -> [op: {"none"}] \cup AccStarted]
    BY <1>1, <1>3, AccReturn, AccTyped
  <2>3. staff' \in [Accounts -> Acc!Row] /\ answered' \in [Accounts -> Acc!Row]
    <3> HIDE DEF row, told
    <3> QED BY <1>1, <1>3, <1>4, AccTyped
  <2> QED BY <2>1, <2>2, <2>3 DEF Acc!TypeOK, AccStarted
<1>6. Acc!LastAnswerStands'
  <2> SUFFICES ASSUME ~staffStale' PROVE staff' = answered'
    BY DEF Acc!LastAnswerStands
  <2>1. ~staffStale /\ written = staff[s]
    <3>1. CASE op \in Acc!SavesEntity
      BY <1>3, <3>1
    <3>2. CASE op \notin Acc!SavesEntity
      BY <1>3, <3>2
    <3> QED BY <3>1, <3>2
  <2>2. staff = answered
    BY <2>1 DEF AccInv, Acc!LastAnswerStands
  <2>3. row = told
    BY <2>1, <2>2
  <2> HIDE DEF row, told
  <2> QED BY <1>3, <2>2, <2>3
<1> QED BY <1>5, <1>6 DEF AccInv

LEMMA AccNext == AccInv /\ [Acc!Next]_(Acc!staffVars) => AccInv'
<1> SUFFICES ASSUME AccInv, [Acc!Next]_(Acc!staffVars) PROVE AccInv'
  OBVIOUS
<1>1. CASE UNCHANGED Acc!staffVars
  BY <1>1 DEF Acc!staffVars, AccInv, Acc!TypeOK, Acc!LastAnswerStands
<1>2. ASSUME NEW c \in Calls, Acc!Handler(c) PROVE AccInv'
  <2>1. ASSUME NEW s \in Accounts, NEW op \in Acc!Operation, Acc!FindStaff(c, s, op)
        PROVE  AccInv'
    <3> DEFINE new == [op |-> op, id |-> s, seen |-> staff[s]]
    <3>1. new \in AccStarted
      BY AccTyped DEF AccInv, AccStarted
    <3>2. staffCall' = [staffCall EXCEPT ![c] = new] /\ UNCHANGED <<staff, answered, staffStale>>
      BY <2>1 DEF Acc!FindStaff
    <3> HIDE DEF new
    <3> QED BY <3>1, <3>2, AccStays
  <2>2. CASE Acc!Abandon(c)
    BY <2>2, AccReturn, AccStays DEF Acc!Abandon, Acc!Return
  <2> QED BY <1>2, <2>1, <2>2, AccWritesKeep DEF Acc!Handler
<1> QED BY <1>1, <1>2 DEF Acc!Next

LEMMA AccMoves == [Next]_vars => [Acc!Next]_(Acc!staffVars)
BY DEF Next, vars, staffVars, Acc!staffVars

\* What an admin or a staff user was last answered still shows, in a business's
\* review and removal and in every column of an account, for any number of
\* overlapping calls, unless a save of an entity read before came after it.
THEOREM AnswersAreKept ==
    /\ Biz!Spec => []Biz!AnswersKept
    /\ Acc!Spec => []Acc!LastAnswerStands
    /\ Spec => []AnswersKept
<1>1. BizInv => Biz!AnswersKept
  BY DEF BizInv
<1>2. AccInv => Acc!LastAnswerStands
  BY DEF AccInv
<1>3. BizInv /\ AccInv => AnswersKept
  BY DEF BizInv, AccInv, AnswersKept
<1>4. Init => Biz!Init /\ Acc!Init
  BY DEF Init
<1>5. Biz!Spec => []Biz!AnswersKept
  BY <1>1, BizInit, BizNext, PTL DEF Biz!Spec
<1>6. Acc!Spec => []Acc!LastAnswerStands
  BY <1>2, AccInit, AccNext, PTL DEF Acc!Spec
<1>7. Spec => []AnswersKept
  BY <1>3, <1>4, BizInit, BizNext, BizMoves, AccInit, AccNext, AccMoves, PTL DEF Spec
<1> QED BY <1>5, <1>6, <1>7

----------------------------------------------------------------------------
(* ImageRows: the image a row shows and the objects in S3. *)

ImagePC == {"idle", "upload", "deleteEarly", "write", "save", "deleteOld"}
ImageCall == [pc: ImagePC, seen: Img!Image, new: Img!Image]

\* The image of these calls is uploaded and not yet in the row.
Pending(c) == imgCall[c].pc \in {"deleteEarly", "write"}

\* Every image a row or a call knows was uploaded before.
ImagesUploaded ==
    /\ image <= objects.uploaded /\ objects.stored \subseteq 1..objects.uploaded
    /\ \A c \in Calls : imgCall[c].seen <= objects.uploaded

\* An image waiting to be written exists, and nobody else knows it.
PendingFresh ==
    \A d \in Calls : Pending(d) =>
        /\ imgCall[d].new \in objects.stored /\ imgCall[d].new # image
        /\ \A c \in Calls : imgCall[c].seen # imgCall[d].new
        /\ \A c \in Calls \ {d} : Pending(c) => imgCall[c].new # imgCall[d].new

\* Only users' images go early, and other images go when the row shows them no more.
DeletesInTurn ==
    \A c \in Calls :
        /\ imgCall[c].pc = "deleteEarly" => kind = "user"
        /\ imgCall[c].pc = "deleteOld" =>
               /\ kind # "user" /\ imgCall[c].seen # Img!NoImage
               /\ revived \/ pasted \/ imgCall[c].seen # image
        /\ imgCall[c].pc = "write" /\ kind = "user" => imgCall[c].seen \notin objects.stored

\* What S3 holds is shown, waits to be written or waits to be deleted.
NothingLost ==
    \/ untidy \/ revived
    \/ \A n \in objects.stored :
           \/ n = image
           \/ \E c \in Calls : Pending(c) /\ imgCall[c].new = n
           \/ \E c \in Calls : imgCall[c].pc = "deleteOld" /\ imgCall[c].seen = n

ImgInv ==
    /\ Img!TypeOK /\ ImagesUploaded /\ PendingFresh /\ DeletesInTurn /\ NothingLost
    /\ Img!ImageExists

\* Call c moves, the others stay where they are.
ImageMoves(c, pc, seen, new) ==
    /\ imgCall' \in [Calls -> ImageCall]
    /\ imgCall'[c].pc = pc /\ imgCall'[c].seen = seen /\ imgCall'[c].new = new
    /\ \A d \in Calls \ {c} : imgCall'[d] = imgCall[d]

LEMMA ImageTyped ==
    ASSUME Img!TypeOK
    PROVE  /\ imgCall \in [Calls -> ImageCall] /\ image \in Img!Image
           /\ objects.uploaded \in Img!Image /\ objects.stored \in SUBSET (1..MaxImages)
           /\ \A c \in Calls : /\ imgCall[c].seen \in Img!Image /\ imgCall[c].new \in Img!Image
                               /\ imgCall[c].pc \in ImagePC
BY DEF Img!TypeOK, ImageCall, ImagePC

LEMMA ImageNumbers == Img!Image \subseteq Nat /\ Img!NoImage = 0 /\ 0 \in Img!Image
BY BackOfficeAssumption DEF Img!Image, Img!NoImage

LEMMA ImagesAreNumbers ==
    ASSUME ImgInv
    PROVE  objects.uploaded \in Nat /\ 0 \notin objects.stored
<1>1. objects.uploaded \in Nat
  BY ImageTyped, ImageNumbers DEF ImgInv
<1>2. 0 \notin 1..objects.uploaded
  BY <1>1
<1> QED BY <1>1, <1>2 DEF ImgInv, ImagesUploaded

LEMMA ImageStart ==
    ASSUME Img!TypeOK, NEW c \in Calls, NEW pc \in ImagePC, NEW s \in Img!Image, NEW n \in Img!Image,
           imgCall' = [imgCall EXCEPT ![c] = [pc |-> pc, seen |-> s, new |-> n]]
    PROVE  ImageMoves(c, pc, s, n)
<1> DEFINE row == [pc |-> pc, seen |-> s, new |-> n]
<1>1. /\ row \in ImageCall /\ row.pc = pc /\ row.seen = s /\ row.new = n
      /\ imgCall' = [imgCall EXCEPT ![c] = row]
  BY DEF ImageCall
<1> HIDE DEF row
<1> QED BY <1>1, ImageTyped DEF ImageMoves

LEMMA ImageReturn ==
    ASSUME Img!TypeOK, NEW c \in Calls, Img!Return(c)
    PROVE  ImageMoves(c, "idle", 0, 0)
<1>1. imgCall' = [imgCall EXCEPT ![c] = [pc |-> "idle", seen |-> 0, new |-> 0]]
  BY ImageNumbers DEF Img!Return, Img!Idle
<1>2. "idle" \in ImagePC
  BY DEF ImagePC
<1> QED BY <1>1, <1>2, ImageStart, ImageNumbers

LEMMA ImageGoto ==
    ASSUME Img!TypeOK, NEW c \in Calls, NEW pc \in ImagePC, Img!Goto(c, pc)
    PROVE  ImageMoves(c, pc, imgCall[c].seen, imgCall[c].new)
BY ImageTyped DEF ImageMoves, ImageCall, Img!Goto

LEMMA ImgInit == Img!Init => ImgInv
<1> SUFFICES ASSUME Img!Init PROVE ImgInv
  OBVIOUS
<1>1. PICK n \in {0, 1} : /\ n <= MaxImages /\ image = n
                          /\ objects = [uploaded |-> n, stored |-> 1..n]
  BY DEF Img!Init
<1>2. /\ imgCall = [c \in Calls |-> [pc |-> "idle", seen |-> 0, new |-> 0]]
      /\ kind \in Img!Kind /\ revived = FALSE /\ untidy = FALSE /\ pasted = FALSE
      /\ cutShort = {}
  BY ImageNumbers DEF Img!Init, Img!Idle
<1>3. Img!TypeOK
  <2>1. objects \in [uploaded: Img!Image, stored: SUBSET (1..MaxImages)]
    BY <1>1, BackOfficeAssumption DEF Img!Image
  <2>2. imgCall \in [Calls -> ImageCall]
    BY <1>2, ImageNumbers DEF ImageCall, ImagePC
  <2> QED BY <1>1, <1>2, <2>1, <2>2, BackOfficeAssumption
          DEF Img!TypeOK, Img!Image, ImageCall, ImagePC
<1>4. objects.uploaded = n /\ objects.stored = 1..n
  BY <1>1
<1>5. ImagesUploaded
  BY <1>1, <1>2, <1>4 DEF ImagesUploaded
<1>6. PendingFresh /\ DeletesInTurn
  BY <1>2 DEF PendingFresh, DeletesInTurn, Pending
<1>7. NothingLost
  BY <1>1, <1>4 DEF NothingLost
<1>8. Img!ImageExists
  BY <1>1, <1>4, ImageNumbers DEF Img!ImageExists
<1> QED BY <1>3, <1>5, <1>6, <1>7, <1>8 DEF ImgInv

\* A handler that finds the row.
LEMMA ImageFindKeeps ==
    ASSUME ImgInv, NEW c \in Calls, Img!FindForUpload(c) \/ Img!FindForSave(c)
    PROVE  ImgInv'
<1>1. Img!TypeOK /\ imgCall[c].pc = "idle" /\ image \in Img!Image /\ image <= objects.uploaded
      /\ UNCHANGED <<kind, image, objects, revived, cutShort, untidy, pasted>>
  BY ImageTyped DEF ImgInv, ImagesUploaded, Img!FindForUpload, Img!FindForSave
<1>2. PICK pc \in {"upload", "save"} : ImageMoves(c, pc, image, 0)
  <2>1. ASSUME NEW pc \in {"upload", "save"},
               imgCall' = [imgCall EXCEPT ![c] = [pc |-> pc, seen |-> image, new |-> 0]]
        PROVE  ImageMoves(c, pc, image, 0)
    <3>1. pc \in ImagePC
      BY DEF ImagePC
    <3> QED BY <1>1, <2>1, <3>1, ImageStart, ImageNumbers
  <2> QED BY <2>1, ImageNumbers DEF Img!FindForUpload, Img!FindForSave
<1>3. \A d \in Calls : Pending(d)' => Pending(d) /\ imgCall'[d] = imgCall[d]
  BY <1>2 DEF ImageMoves, Pending
<1>4. \A d \in Calls \ {c} : Pending(d) => Pending(d)'
  BY <1>2 DEF ImageMoves, Pending
<1>5. Img!TypeOK'
  BY <1>1, <1>2 DEF Img!TypeOK, ImageMoves, ImageCall, ImagePC
<1>6. ImagesUploaded'
  BY <1>1, <1>2 DEF ImgInv, ImagesUploaded, ImageMoves
<1>7. PendingFresh'
  BY <1>1, <1>2, <1>3 DEF ImgInv, PendingFresh, ImageMoves
<1>8. DeletesInTurn'
  BY <1>1, <1>2 DEF ImgInv, DeletesInTurn, ImageMoves
<1>9. NothingLost'
  BY <1>1, <1>2, <1>4 DEF ImgInv, NothingLost, ImageMoves, Pending
<1>10. Img!ImageExists'
  BY <1>1, <1>2 DEF ImgInv, Img!ImageExists, Img!BetweenDeleteAndWrite, ImageMoves
<1> QED BY <1>5, <1>6, <1>7, <1>8, <1>9, <1>10 DEF ImgInv

LEMMA UploadImageKeeps ==
    ASSUME ImgInv, NEW c \in Calls, Img!UploadImage(c)
    PROVE  ImgInv'
<1> DEFINE n == objects.uploaded + 1  s == imgCall[c].seen  pc == Img!AfterUpload(c)
<1>1. /\ Img!TypeOK /\ imgCall[c].pc = "upload" /\ n \in Img!Image /\ n \in 1..MaxImages
      /\ s \in Img!Image /\ s <= objects.uploaded /\ objects.uploaded \in Nat
      /\ UNCHANGED <<kind, image, revived, cutShort, untidy, pasted>>
  BY ImageTyped, BackOfficeAssumption DEF ImgInv, ImagesUploaded, Img!UploadImage, Img!Image
<1>2. pc \in {"deleteEarly", "write"} /\ (pc = "deleteEarly" => kind = "user")
      /\ (pc = "write" /\ kind = "user" => s = 0)
  BY ImageNumbers DEF Img!AfterUpload
<1>3. ImageMoves(c, pc, s, n)
  <2>1. imgCall' = [imgCall EXCEPT ![c].pc = pc, ![c].new = n] /\ pc \in ImagePC
    BY <1>2 DEF Img!UploadImage, ImagePC
  <2> HIDE DEF n, pc
  <2> QED BY <1>1, <2>1, ImageTyped DEF ImageMoves, ImageCall
<1>4. objects' = [uploaded |-> n, stored |-> objects.stored \cup {n}]
  BY DEF Img!UploadImage
<1>5. objects'.uploaded = n /\ objects'.stored = objects.stored \cup {n}
  BY <1>4
<1> HIDE DEF pc
<1>6. Img!TypeOK'
  <2>1. objects' \in [uploaded: Img!Image, stored: SUBSET (1..MaxImages)]
    BY <1>1, <1>4, ImageTyped
  <2> QED BY <1>1, <1>3, <2>1 DEF Img!TypeOK, ImageMoves, ImageCall, ImagePC
<1>7. objects.stored \subseteq 1..objects.uploaded /\ image <= objects.uploaded
      /\ image \in Nat /\ objects.uploaded \in Nat
      /\ \A d \in Calls : imgCall[d].seen <= objects.uploaded /\ imgCall[d].seen \in Nat
  BY <1>1, ImageTyped, ImageNumbers DEF ImgInv, ImagesUploaded
<1>8. ImagesUploaded'
  BY <1>1, <1>3, <1>5, <1>7 DEF ImagesUploaded, ImageMoves
<1>9. n # image /\ n \notin objects.stored
      /\ \A d \in Calls : imgCall'[d].seen # n /\ imgCall'[d].seen = imgCall[d].seen
  BY <1>3, <1>7 DEF ImageMoves
<1>10. \A d \in Calls \ {c} : Pending(d)' <=> Pending(d)
  BY <1>3 DEF ImageMoves, Pending
<1>11. PendingFresh'
  <2>1. ASSUME NEW d \in Calls \ {c}, Pending(d)'
        PROVE  /\ imgCall'[d].new \in objects'.stored /\ imgCall'[d].new # image'
               /\ imgCall'[d].new # n
               /\ \A e \in Calls : imgCall'[e].seen # imgCall'[d].new
               /\ \A e \in Calls \ {d} : Pending(e)' => imgCall'[e].new # imgCall'[d].new
    <3>1. Pending(d) /\ imgCall'[d] = imgCall[d]
      BY <1>3, <1>10, <2>1 DEF ImageMoves
    <3>2. imgCall[d].new \in objects.stored
      BY <3>1 DEF ImgInv, PendingFresh
    <3> QED BY <1>1, <1>3, <1>5, <1>9, <1>10, <3>1, <3>2 DEF ImgInv, PendingFresh, ImageMoves
  <2>2. /\ imgCall'[c].new = n /\ n \in objects'.stored /\ n # image'
        /\ \A e \in Calls : imgCall'[e].seen # n
    BY <1>1, <1>3, <1>5, <1>9 DEF ImageMoves
  <2> QED BY <2>1, <2>2 DEF PendingFresh
<1>12. DeletesInTurn'
  <2>1. s \notin objects'.stored \/ s # 0
    BY <1>5, <1>7
  <2> QED BY <1>1, <1>2, <1>3, <1>5, <1>9, <2>1 DEF ImgInv, DeletesInTurn, ImageMoves
<1>13. NothingLost'
  <2>1. Pending(c)' /\ imgCall'[c].new = n
    BY <1>2, <1>3 DEF ImageMoves, Pending
  <2> QED BY <1>1, <1>3, <1>5, <1>10, <2>1 DEF ImgInv, NothingLost, ImageMoves, Pending
<1>14. Img!ImageExists'
  BY <1>1, <1>3, <1>5 DEF ImgInv, Img!ImageExists, Img!BetweenDeleteAndWrite, ImageMoves
<1> QED BY <1>6, <1>8, <1>11, <1>12, <1>13, <1>14 DEF ImgInv

LEMMA DeleteEarlyKeeps ==
    ASSUME ImgInv, NEW c \in Calls, Img!DeleteEarly(c)
    PROVE  ImgInv'
<1> DEFINE s == imgCall[c].seen
<1>1. /\ Img!TypeOK /\ imgCall[c].pc = "deleteEarly" /\ kind = "user"
      /\ UNCHANGED <<kind, image, revived, cutShort, untidy, pasted>>
  BY DEF ImgInv, DeletesInTurn, Img!DeleteEarly
<1>2. ImageMoves(c, "write", s, imgCall[c].new)
  BY <1>1, ImageGoto DEF Img!DeleteEarly, ImagePC
<1>3. objects' = [objects EXCEPT !.stored = @ \ {s}]
  BY DEF Img!DeleteEarly
<1>4. objects'.uploaded = objects.uploaded /\ objects'.stored = objects.stored \ {s}
  BY <1>1, <1>3 DEF Img!TypeOK
<1>5. Img!TypeOK'
  <2>1. objects' \in [uploaded: Img!Image, stored: SUBSET (1..MaxImages)]
    BY <1>1, <1>3 DEF Img!TypeOK
  <2> QED BY <1>1, <1>2, <2>1 DEF Img!TypeOK, ImageMoves, ImageCall, ImagePC
<1>6. \A d \in Calls : /\ Pending(d)' <=> Pending(d)
                       /\ imgCall'[d].new = imgCall[d].new /\ imgCall'[d].seen = imgCall[d].seen
                       /\ imgCall'[d].pc = "deleteOld" <=> imgCall[d].pc = "deleteOld"
  BY <1>1, <1>2 DEF ImageMoves, Pending
<1>7. ImagesUploaded'
  BY <1>1, <1>4, <1>6 DEF ImgInv, ImagesUploaded
<1>8. PendingFresh'
  BY <1>1, <1>4, <1>6 DEF ImgInv, PendingFresh
<1>9. DeletesInTurn'
  BY <1>1, <1>2, <1>4, <1>6 DEF ImgInv, DeletesInTurn, ImageMoves
<1>10. NothingLost'
  BY <1>1, <1>4, <1>6 DEF ImgInv, NothingLost
<1>11. Img!ImageExists'
  <2>1. CASE image = s
    BY <1>1, <1>2, <2>1 DEF Img!ImageExists, Img!BetweenDeleteAndWrite, ImageMoves
  <2>2. CASE image # s
    BY <1>1, <1>2, <1>4, <2>2
       DEF ImgInv, Img!ImageExists, Img!BetweenDeleteAndWrite, ImageMoves
  <2> QED BY <2>1, <2>2
<1> QED BY <1>5, <1>7, <1>8, <1>9, <1>10, <1>11 DEF ImgInv

\* The row shows the new image; nobody else knows it.
LEMMA WriteImageKeeps ==
    ASSUME ImgInv, NEW c \in Calls, Img!WriteImage(c)
    PROVE  ImgInv'
<1> DEFINE s == imgCall[c].seen  n == imgCall[c].new
<1>1. /\ Img!TypeOK /\ imgCall[c].pc = "write" /\ image' = n
      /\ untidy' \in BOOLEAN /\ (untidy => untidy') /\ (~untidy' => image = s)
      /\ pasted' = FALSE /\ UNCHANGED <<kind, objects, revived, cutShort>>
  BY DEF ImgInv, Img!TypeOK, Img!WriteImage
<1>2. /\ n \in objects.stored /\ n # image /\ n \in Img!Image /\ s \in Img!Image
      /\ n \in 1..objects.uploaded /\ n # s
      /\ \A d \in Calls : imgCall[d].seen # n
      /\ \A d \in Calls \ {c} : Pending(d) => imgCall[d].new # n
  BY <1>1, ImageTyped DEF ImgInv, PendingFresh, Pending, ImagesUploaded
<1>3. PICK pc \in {"deleteOld", "idle"}, s2 \in Img!Image, n2 \in Img!Image :
          /\ ImageMoves(c, pc, s2, n2)
          /\ pc = "deleteOld" => kind # "user" /\ s2 = s /\ s # Img!NoImage
          /\ pc = "idle" => s2 = 0 /\ (kind = "user" \/ s = 0)
  <2>1. CASE Img!OldImageGoes(c)
    <3>1. ImageMoves(c, "deleteOld", s, n) /\ kind # "user" /\ s # Img!NoImage
      BY <1>1, <2>1, ImageGoto DEF Img!WriteImage, ImagePC, Img!OldImageGoes
    <3> QED BY <1>2, <3>1
  <2>2. CASE ~Img!OldImageGoes(c)
    <3>1. ImageMoves(c, "idle", 0, 0) /\ (kind = "user" \/ s = 0)
      BY <1>1, <2>2, ImageReturn, ImageNumbers DEF Img!WriteImage, Img!OldImageGoes
    <3> QED BY <3>1, ImageNumbers
  <2> QED BY <2>1, <2>2
<1>4. \A d \in Calls : Pending(d)' <=> Pending(d) /\ d # c
  BY <1>3 DEF ImageMoves, Pending
<1>5. Img!TypeOK'
  BY <1>1, <1>2, <1>3 DEF Img!TypeOK, ImageMoves, ImageCall, ImagePC
<1>6. objects.uploaded \in Nat /\ n \in Nat
  BY <1>1, <1>2, ImageTyped, ImageNumbers
<1>7. ImagesUploaded'
  BY <1>1, <1>2, <1>3, <1>6 DEF ImgInv, ImagesUploaded, ImageMoves
<1>8. 0 \notin objects.stored
  BY <1>6 DEF ImgInv, ImagesUploaded
<1>9. PendingFresh'
  <2> SUFFICES ASSUME NEW d \in Calls, Pending(d)'
               PROVE  /\ imgCall'[d].new \in objects'.stored /\ imgCall'[d].new # image'
                      /\ \A e \in Calls : imgCall'[e].seen # imgCall'[d].new
                      /\ \A e \in Calls \ {d} : Pending(e)' => imgCall'[e].new # imgCall'[d].new
    BY DEF PendingFresh
  <2>1. Pending(d) /\ d # c /\ imgCall'[d] = imgCall[d]
    BY <1>3, <1>4 DEF ImageMoves
  <2>2. imgCall[d].new \in objects.stored /\ imgCall[d].new # n /\ imgCall[d].new # 0
    BY <1>2, <1>8, <2>1 DEF ImgInv, PendingFresh
  <2>3. s2 # imgCall[d].new
    BY <1>3, <2>1, <2>2 DEF ImgInv, PendingFresh
  <2> QED BY <1>1, <1>3, <1>4, <2>1, <2>2, <2>3 DEF ImgInv, PendingFresh, ImageMoves
<1>10. DeletesInTurn'
  BY <1>1, <1>2, <1>3 DEF ImgInv, DeletesInTurn, ImageMoves
<1>11. NothingLost'
  <2> SUFFICES ASSUME ~untidy', ~revived, NEW m \in objects.stored
               PROVE  \/ m = n
                      \/ \E d \in Calls : Pending(d)' /\ imgCall'[d].new = m
                      \/ \E d \in Calls : imgCall'[d].pc = "deleteOld" /\ imgCall'[d].seen = m
    BY <1>1 DEF NothingLost
  <2>1. \/ m = image
        \/ \E d \in Calls : Pending(d) /\ imgCall[d].new = m
        \/ \E d \in Calls : imgCall[d].pc = "deleteOld" /\ imgCall[d].seen = m
    BY <1>1 DEF ImgInv, NothingLost
  <2>2. CASE m = image
    <3>1. image = s /\ m # 0
      BY <1>1, <1>8, <2>2
    <3>2. kind # "user"
      BY <1>1, <2>2, <3>1 DEF ImgInv, DeletesInTurn
    <3> QED BY <1>3, <2>2, <3>1, <3>2 DEF ImageMoves
  <2>3. CASE \E d \in Calls : Pending(d) /\ imgCall[d].new = m
    BY <1>3, <1>4, <2>3 DEF ImageMoves
  <2>4. CASE \E d \in Calls : imgCall[d].pc = "deleteOld" /\ imgCall[d].seen = m
    BY <1>1, <1>3, <2>4 DEF ImageMoves
  <2> QED BY <2>1, <2>2, <2>3, <2>4
<1>12. Img!ImageExists'
  BY <1>1, <1>2 DEF Img!ImageExists
<1> QED BY <1>5, <1>7, <1>9, <1>10, <1>11, <1>12 DEF ImgInv

LEMMA DeleteOldKeeps ==
    ASSUME ImgInv, NEW c \in Calls, Img!DeleteOldImage(c)
    PROVE  ImgInv'
<1> DEFINE s == imgCall[c].seen
<1>1. /\ Img!TypeOK /\ imgCall[c].pc = "deleteOld" /\ kind # "user"
      /\ (revived \/ pasted \/ s # image)
      /\ UNCHANGED <<kind, image, revived, cutShort, untidy, pasted>>
  BY DEF ImgInv, DeletesInTurn, Img!DeleteOldImage
<1>2. ImageMoves(c, "idle", 0, 0)
  BY <1>1, ImageReturn DEF Img!DeleteOldImage
<1>3. objects' = [objects EXCEPT !.stored = @ \ {s}]
  BY DEF Img!DeleteOldImage
<1>4. objects'.uploaded = objects.uploaded /\ objects'.stored = objects.stored \ {s}
  BY <1>1, <1>3 DEF Img!TypeOK
<1>5. Img!TypeOK'
  <2>1. objects' \in [uploaded: Img!Image, stored: SUBSET (1..MaxImages)]
    BY <1>1, <1>3 DEF Img!TypeOK
  <2> QED BY <1>1, <1>2, <2>1 DEF Img!TypeOK, ImageMoves, ImageCall, ImagePC
<1>6. \A d \in Calls : Pending(d)' <=> Pending(d) /\ d # c
  BY <1>1, <1>2 DEF ImageMoves, Pending
<1>7. objects.uploaded \in Nat /\ 0 \notin objects.stored
  BY ImagesAreNumbers
<1>8. ImagesUploaded'
  BY <1>1, <1>2, <1>4, <1>7 DEF ImgInv, ImagesUploaded, ImageMoves
<1>9. PendingFresh'
  <2> SUFFICES ASSUME NEW d \in Calls, Pending(d)'
               PROVE  /\ imgCall'[d].new \in objects'.stored /\ imgCall'[d].new # image'
                      /\ \A e \in Calls : imgCall'[e].seen # imgCall'[d].new
                      /\ \A e \in Calls \ {d} : Pending(e)' => imgCall'[e].new # imgCall'[d].new
    BY DEF PendingFresh
  <2>1. Pending(d) /\ d # c /\ imgCall'[d] = imgCall[d]
    BY <1>2, <1>6 DEF ImageMoves
  <2>2. imgCall[d].new \in objects.stored /\ imgCall[d].new # s /\ imgCall[d].new # 0
    BY <1>7, <2>1 DEF ImgInv, PendingFresh
  <2> QED BY <1>1, <1>2, <1>4, <1>6, <2>1, <2>2 DEF ImgInv, PendingFresh, ImageMoves
<1>10. DeletesInTurn'
  BY <1>1, <1>2, <1>4 DEF ImgInv, DeletesInTurn, ImageMoves
<1>11. NothingLost'
  <2> SUFFICES ASSUME ~untidy, ~revived, NEW m \in objects'.stored
               PROVE  \/ m = image
                      \/ \E d \in Calls : Pending(d)' /\ imgCall'[d].new = m
                      \/ \E d \in Calls : imgCall'[d].pc = "deleteOld" /\ imgCall'[d].seen = m
    BY <1>1 DEF NothingLost
  <2>1. m \in objects.stored /\ m # s
    BY <1>4
  <2>2. \/ m = image
        \/ \E d \in Calls : Pending(d) /\ imgCall[d].new = m
        \/ \E d \in Calls : imgCall[d].pc = "deleteOld" /\ imgCall[d].seen = m
    BY <2>1 DEF ImgInv, NothingLost
  <2>3. CASE \E d \in Calls : Pending(d) /\ imgCall[d].new = m
    BY <1>1, <1>2, <1>6, <2>3 DEF ImageMoves, Pending
  <2>4. CASE \E d \in Calls : imgCall[d].pc = "deleteOld" /\ imgCall[d].seen = m
    BY <1>2, <2>1, <2>4 DEF ImageMoves
  <2> QED BY <2>2, <2>3, <2>4
<1>12. Img!ImageExists'
  BY <1>1, <1>4 DEF ImgInv, Img!ImageExists, Img!BetweenDeleteAndWrite
<1> QED BY <1>5, <1>8, <1>9, <1>10, <1>11, <1>12 DEF ImgInv

\* A save without an upload shows the image it read again, and is noted if that changed.
LEMMA SaveEntityKeeps ==
    ASSUME ImgInv, NEW c \in Calls, Img!SaveEntity(c)
    PROVE  ImgInv'
<1> DEFINE s == imgCall[c].seen
<1>1. /\ Img!TypeOK /\ imgCall[c].pc = "save" /\ image' = s /\ s \in Img!Image
      /\ revived' \in BOOLEAN /\ (revived => revived') /\ (~revived' => image = s)
      /\ UNCHANGED <<kind, objects, cutShort, untidy, pasted>>
  BY ImageTyped DEF ImgInv, Img!TypeOK, Img!SaveEntity
<1>2. ImageMoves(c, "idle", 0, 0)
  BY <1>1, ImageReturn DEF Img!SaveEntity
<1>3. \A d \in Calls : /\ Pending(d)' <=> Pending(d)
                       /\ Pending(d) => d # c
                       /\ imgCall[d].pc \in {"write", "deleteOld"} => d # c
  BY <1>1, <1>2 DEF ImageMoves, Pending
<1>4. Img!TypeOK'
  BY <1>1, <1>2 DEF Img!TypeOK, ImageMoves, ImageCall, ImagePC
<1>5. objects.uploaded \in Nat /\ 0 \notin objects.stored
  BY ImagesAreNumbers
<1>6. ImagesUploaded'
  BY <1>1, <1>2, <1>5 DEF ImgInv, ImagesUploaded, ImageMoves
<1>7. PendingFresh'
  <2> SUFFICES ASSUME NEW d \in Calls, Pending(d)'
               PROVE  /\ imgCall'[d].new \in objects'.stored /\ imgCall'[d].new # image'
                      /\ \A e \in Calls : imgCall'[e].seen # imgCall'[d].new
                      /\ \A e \in Calls \ {d} : Pending(e)' => imgCall'[e].new # imgCall'[d].new
    BY DEF PendingFresh
  <2>1. Pending(d) /\ d # c /\ imgCall'[d] = imgCall[d]
    BY <1>2, <1>3 DEF ImageMoves
  <2>2. imgCall[d].new \in objects.stored /\ imgCall[d].new # s /\ imgCall[d].new # 0
    BY <1>5, <2>1 DEF ImgInv, PendingFresh
  <2> QED BY <1>1, <1>2, <1>3, <2>1, <2>2 DEF ImgInv, PendingFresh, ImageMoves
<1>8. DeletesInTurn'
  BY <1>1, <1>2 DEF ImgInv, DeletesInTurn, ImageMoves
<1>9. NothingLost'
  BY <1>1, <1>2, <1>3 DEF ImgInv, NothingLost, ImageMoves
<1>10. Img!ImageExists'
  <2>1. CASE revived' \/ pasted
    BY <1>1, <2>1 DEF Img!ImageExists
  <2>2. CASE ~revived' /\ ~pasted
    <3>1. image' = image /\ ~revived
      BY <1>1, <2>2
    <3>2. image \in objects.stored \cup {Img!NoImage} \/ Img!BetweenDeleteAndWrite
      BY <2>2, <3>1 DEF ImgInv, Img!ImageExists
    <3>3. Img!BetweenDeleteAndWrite => Img!BetweenDeleteAndWrite'
      BY <1>1, <1>2, <1>3, <3>1 DEF Img!BetweenDeleteAndWrite, ImageMoves
    <3> QED BY <1>1, <3>1, <3>2, <3>3 DEF Img!ImageExists
  <2> QED BY <2>1, <2>2
<1> QED BY <1>4, <1>6, <1>7, <1>8, <1>9, <1>10 DEF ImgInv

\* A text may bring an image of the past, and never one that waits to be written.
LEMMA WriteTextKeeps ==
    ASSUME ImgInv, NEW c \in Calls, Img!WriteText(c)
    PROVE  ImgInv'
<1>1. /\ Img!TypeOK /\ imgCall[c].pc = "save" /\ kind # "user" /\ image' \in Img!Known
      /\ pasted' = (image' # Img!NoImage /\ (pasted \/ image' # image))
      /\ untidy' \in BOOLEAN /\ (untidy' <=> untidy \/ image' # image)
      /\ UNCHANGED <<kind, objects, revived, cutShort>>
  BY DEF ImgInv, Img!TypeOK, Img!WriteText
<1>2. ImageMoves(c, "idle", 0, 0)
  BY <1>1, ImageReturn DEF Img!WriteText
<1>3. \A d \in Calls : /\ Pending(d)' <=> Pending(d)
                       /\ Pending(d) => d # c
  BY <1>1, <1>2 DEF ImageMoves, Pending
<1>4. objects.uploaded \in Nat /\ objects.uploaded \in Img!Image /\ 0 \notin objects.stored
      /\ image \in Img!Image
  BY <1>1, ImagesAreNumbers, ImageTyped
<1>5. /\ image' \in Img!Image /\ image' <= objects.uploaded
      /\ \A d \in Calls : Pending(d) => imgCall[d].new # image'
  <2>1. image <= objects.uploaded /\ \A d \in Calls : Pending(d) =>
            imgCall[d].new # image /\ imgCall[d].new # 0
    BY <1>4 DEF ImgInv, ImagesUploaded, PendingFresh
  <2>2. CASE image' \in {image, Img!NoImage}
    BY <1>4, <2>1, <2>2, ImageNumbers
  <2>3. CASE image' \in (1..objects.uploaded) \ Img!Unwritten
    <3>1. image' \in Img!Image /\ image' <= objects.uploaded
      BY <1>4, <2>3, BackOfficeAssumption DEF Img!Image
    <3>2. \A d \in Calls : Pending(d) => imgCall[d].new \in Img!Unwritten
      BY DEF Img!Unwritten, Pending
    <3> QED BY <2>3, <3>1, <3>2
  <2> QED BY <1>1, <2>2, <2>3 DEF Img!Known
<1>6. pasted' \in BOOLEAN
  BY <1>1
<1>7. pasted' \/ image' = Img!NoImage \/ (image' = image /\ ~pasted)
  BY <1>1
<1>8. Img!TypeOK'
  BY <1>1, <1>2, <1>5, <1>6 DEF Img!TypeOK, ImageMoves, ImageCall, ImagePC
<1>9. ImagesUploaded'
  BY <1>1, <1>2, <1>4, <1>5 DEF ImgInv, ImagesUploaded, ImageMoves
<1>10. PendingFresh'
  <2> SUFFICES ASSUME NEW d \in Calls, Pending(d)'
               PROVE  /\ imgCall'[d].new \in objects'.stored /\ imgCall'[d].new # image'
                      /\ \A e \in Calls : imgCall'[e].seen # imgCall'[d].new
                      /\ \A e \in Calls \ {d} : Pending(e)' => imgCall'[e].new # imgCall'[d].new
    BY DEF PendingFresh
  <2>1. Pending(d) /\ d # c /\ imgCall'[d] = imgCall[d]
    BY <1>2, <1>3 DEF ImageMoves
  <2>2. imgCall[d].new \in objects.stored /\ imgCall[d].new # 0
    BY <1>4, <2>1 DEF ImgInv, PendingFresh
  <2> QED BY <1>1, <1>2, <1>3, <1>5, <2>1, <2>2 DEF ImgInv, PendingFresh, ImageMoves
<1>11. DeletesInTurn'
  BY <1>1, <1>2, <1>7 DEF ImgInv, DeletesInTurn, ImageMoves
<1>12. NothingLost'
  BY <1>1, <1>2, <1>3 DEF ImgInv, NothingLost, ImageMoves
<1>13. Img!ImageExists'
  BY <1>1, <1>7 DEF ImgInv, Img!ImageExists, Img!BetweenDeleteAndWrite
<1> QED BY <1>8, <1>9, <1>10, <1>11, <1>12, <1>13 DEF ImgInv

LEMMA ImageAbandonKeeps ==
    ASSUME ImgInv, NEW c \in Calls, Img!Abandon(c)
    PROVE  ImgInv'
<1> DEFINE s == imgCall[c].seen
<1>1. /\ Img!TypeOK /\ untidy' = TRUE /\ s \in Img!Image
      /\ cutShort' = IF imgCall[c].pc = "write" THEN cutShort \cup {s} ELSE cutShort
      /\ UNCHANGED <<kind, image, objects, revived, pasted>>
  BY ImageTyped DEF ImgInv, Img!Abandon
<1>2. ImageMoves(c, "idle", 0, 0)
  BY <1>1, ImageReturn DEF Img!Abandon
<1>3. \A d \in Calls : Pending(d)' => Pending(d) /\ d # c /\ imgCall'[d] = imgCall[d]
  BY <1>1, <1>2 DEF ImageMoves, Pending
<1>4. Img!TypeOK'
  BY <1>1, <1>2 DEF Img!TypeOK, ImageMoves, ImageCall, ImagePC
<1>5. objects.uploaded \in Nat /\ 0 \notin objects.stored
  BY ImagesAreNumbers
<1>6. ImagesUploaded'
  BY <1>1, <1>2, <1>5 DEF ImgInv, ImagesUploaded, ImageMoves
<1>7. PendingFresh'
  <2> SUFFICES ASSUME NEW d \in Calls, Pending(d)'
               PROVE  /\ imgCall'[d].new \in objects'.stored /\ imgCall'[d].new # image'
                      /\ \A e \in Calls : imgCall'[e].seen # imgCall'[d].new
                      /\ \A e \in Calls \ {d} : Pending(e)' => imgCall'[e].new # imgCall'[d].new
    BY DEF PendingFresh
  <2>1. Pending(d) /\ d # c /\ imgCall'[d] = imgCall[d]
    BY <1>3
  <2>2. imgCall[d].new \in objects.stored /\ imgCall[d].new # 0
    BY <1>5, <2>1 DEF ImgInv, PendingFresh
  <2> QED BY <1>1, <1>2, <1>3, <2>1, <2>2 DEF ImgInv, PendingFresh, ImageMoves
<1>8. DeletesInTurn'
  BY <1>1, <1>2 DEF ImgInv, DeletesInTurn, ImageMoves
<1>9. NothingLost'
  BY <1>1 DEF NothingLost
<1>10. Img!ImageExists'
  BY <1>1, <1>2 DEF ImgInv, Img!ImageExists, Img!BetweenDeleteAndWrite, ImageMoves
<1> QED BY <1>4, <1>6, <1>7, <1>8, <1>9, <1>10 DEF ImgInv

LEMMA ImgNext == ImgInv /\ [Img!Next]_(Img!imageVars) => ImgInv'
<1> SUFFICES ASSUME ImgInv, [Img!Next]_(Img!imageVars) PROVE ImgInv'
  OBVIOUS
<1>1. CASE UNCHANGED Img!imageVars
  BY <1>1 DEF Img!imageVars, ImgInv, Img!TypeOK, ImagesUploaded, PendingFresh, Pending,
              DeletesInTurn, NothingLost, Img!ImageExists, Img!BetweenDeleteAndWrite
<1> QED BY <1>1, ImageFindKeeps, UploadImageKeeps, DeleteEarlyKeeps, WriteImageKeeps,
           DeleteOldKeeps, SaveEntityKeeps, WriteTextKeeps, ImageAbandonKeeps
       DEF Img!Next, Img!Handler

LEMMA ImgMoves == [Next]_vars => [Img!Next]_(Img!imageVars)
BY DEF Next, vars, imageVars, Img!imageVars

\* Whatever number of uploads replaces, saves and deletes at once, the image a row
\* shows exists and S3 keeps nothing else, with the exceptions that are noted.
THEOREM ImagesAreKept ==
    (Img!Spec => []Img!ImageKept) /\ (Spec => []ImageKept)
<1>1. ImgInv => Img!ImageKept
  <2> SUFFICES ASSUME ImgInv PROVE Img!NoOrphans
    BY DEF ImgInv, Img!ImageKept
  <2>1. CASE untidy \/ revived
    BY <2>1 DEF Img!NoOrphans
  <2>2. CASE ~untidy /\ ~revived
    <3>1. ASSUME NEW n \in objects.stored
          PROVE  n \in {image} \cup {imgCall[c].new : c \in Calls}
                       \cup {imgCall[c].seen : c \in {d \in Calls : imgCall[d].pc = "deleteOld"}}
      BY <2>2 DEF ImgInv, NothingLost
    <3> QED BY <3>1 DEF Img!NoOrphans
  <2> QED BY <2>1, <2>2
<1>2. Img!ImageKept => ImageKept
  BY DEF ImageKept
<1>3. Init => Img!Init
  BY DEF Init
<1>4. Img!Spec => []Img!ImageKept
  BY <1>1, ImgInit, ImgNext, PTL DEF Img!Spec
<1>5. Spec => []ImageKept
  BY <1>1, <1>2, <1>3, ImgInit, ImgNext, ImgMoves, PTL DEF Spec
<1> QED BY <1>4, <1>5

----------------------------------------------------------------------------
(* S3Urls: what deleteByUrl reads back from a URL, under any two configurations. *)

\* What deleteByUrl removes under the present configuration.
Deletion ==
    IF config.bucket = Urls!NoBucket \/ Urls!ExtractKey(config, url) = Urls!NoKey THEN {}
    ELSE {[place |-> Urls!Place(config), key |-> Urls!ExtractKey(config, url)]}

\* The upload was made and its URL built under some configuration, and what was
\* deleted is what the present one reads.
UrlInv ==
    /\ config \in Urls!Config /\ key \in Urls!Key /\ asked \in BOOLEAN
    /\ \E c \in Urls!Config : /\ c.bucket # Urls!NoBucket /\ place = Urls!Place(c)
                              /\ url = Urls!BuildPublicUrl(c, key)
    /\ deleted = IF asked THEN Deletion ELSE {}

LEMMA OneSegment ==
    ASSUME NEW T, NEW a \in T
    PROVE  <<a>> \in Seq(T) /\ Len(<<a>>) = 1 /\ Head(<<a>>) = a /\ <<a>>[1] = a
OBVIOUS

LEMMA TwoSegments ==
    ASSUME NEW T, NEW a \in T, NEW b \in T
    PROVE  <<a, b>> \in Seq(T) /\ Len(<<a, b>>) = 2
OBVIOUS

LEMMA SegmentBefore ==
    ASSUME NEW T, NEW a \in T, NEW p \in Seq(T)
    PROVE  /\ <<a>> \o p \in Seq(T) /\ Len(<<a>> \o p) = Len(p) + 1
           /\ Head(<<a>> \o p) = a /\ Tail(<<a>> \o p) = p
<1> DEFINE s == <<a>> \o p
<1>1. s \in Seq(T) /\ Len(s) = Len(p) + 1 /\ s[1] = a
  BY OneSegment, ConcatProperties
<1>2. \A i \in 1..Len(p) : s[i + 1] = p[i]
  BY OneSegment, ConcatProperties
<1>3. Tail(s) \in Seq(T) /\ Len(Tail(s)) = Len(p) /\ Head(s) = s[1]
      /\ \A i \in 1..Len(p) : Tail(s)[i] = s[i + 1]
  <2> HIDE DEF s
  <2> QED BY <1>1
<1>4. Tail(s) = p
  <2> HIDE DEF s
  <2> QED BY <1>2, <1>3, SeqEqual
<1> QED BY <1>1, <1>3, <1>4

LEMMA LengthsDiffer == ASSUME NEW p, NEW q, Len(p) # Len(q) PROVE p # q
OBVIOUS

LEMMA TailLength ==
    ASSUME NEW T, NEW p \in Seq(T), p # <<>>
    PROVE  Tail(p) \in Seq(T) /\ Len(Tail(p)) = Len(p) - 1
BY HeadTailProperties

LEMMA KeyPath ==
    ASSUME NEW k \in Urls!Key
    PROVE  /\ k.path \in Seq(Urls!Segment) /\ Len(k.path) = 2 /\ k.path # <<>>
           /\ k.ext \in Urls!Extension /\ k = [path |-> k.path, ext |-> k.ext]
<1>1. k.path \in {<<folder, "id">> : folder \in Folders} /\ k.ext \in Urls!Extension
      /\ k = [path |-> k.path, ext |-> k.ext]
  BY DEF Urls!Key
<1>2. PICK folder \in Folders : k.path = <<folder, "id">>
  BY <1>1
<1>3. folder \in Urls!Segment /\ "id" \in Urls!Segment
  BY DEF Urls!Segment
<1>4. <<folder, "id">> \in Seq(Urls!Segment) /\ Len(<<folder, "id">>) = 2
  BY <1>3, TwoSegments
<1>5. k.path # <<>>
  BY <1>2
<1> QED BY <1>1, <1>2, <1>4, <1>5

\* The path without the bucket is p just when nothing comes before the bucket.
Splits(b, path, p) == Urls!WithoutBucket(b, path) = p <=> path = <<b>> \o p

\* A path of one segment or none before the bucket and a key's path.
LEMMA EndpointPath ==
    ASSUME NEW T, NEW b \in T, "v1" \in T,
           NEW p \in Seq(T), NEW q \in {<<>>, <<"v1">>}, NEW path \in {q \o <<b>> \o p}
    PROVE  Splits(b, path, p)
<1>1. PICK s : s = <<b>> \o p
  OBVIOUS
<1>2. s \in Seq(T) /\ Len(s) = Len(p) + 1 /\ Head(s) = b /\ Tail(s) = p
  BY Zenon, <1>1, SegmentBefore
<1>3. <<b>> \in Seq(T) /\ <<"v1">> \in Seq(T) /\ <<>> \in Seq(T) /\ Len(p) \in Nat
  BY OneSegment
<1>4. path = q \o s
  <2>1. path = q \o <<b>> \o p /\ q \in Seq(T)
    BY <1>3
  <2>2. (q \o <<b>>) \o p = q \o (<<b>> \o p)
    BY <1>3, <2>1, ConcatAssociative
  <2> QED BY Zenon, <1>1, <2>1, <2>2
<1>5. s # p
  <2>1. Len(s) # Len(p)
    BY <1>2, <1>3
  <2> QED BY Zenon, <2>1, LengthsDiffer
<1>6. CASE q = <<>>
  <2>1. <<>> \o s = s
    BY <1>2, ConcatEmptySeq
  <2>2. path = s
    BY Zenon, <1>4, <1>6, <2>1
  <2>3. Urls!WithoutBucket(b, path) = p
    BY Zenon, <1>2, <2>2 DEF Urls!WithoutBucket
  <2> QED BY Zenon, <1>1, <2>2, <2>3 DEF Splits
<1>7. CASE q = <<"v1">>
  <2>1. path \in Seq(T) /\ Len(path) = Len(s) + 1 /\ Tail(path) = s
    BY Zenon, <1>2, <1>4, <1>7, SegmentBefore
  <2>2. Len(path) # Len(p) /\ Len(path) # Len(s)
    BY <1>2, <1>3, <2>1
  <2>3. path # p /\ path # s
    BY Zenon, <2>2, LengthsDiffer
  <2>4. Urls!WithoutBucket(b, path) # p
    BY Zenon, <1>5, <2>1, <2>3 DEF Urls!WithoutBucket
  <2> QED BY Zenon, <1>1, <2>3, <2>4 DEF Splits
<1> QED BY <1>6, <1>7

LEMMA DefaultPath ==
    ASSUME NEW T, NEW p \in Seq(T), p # <<>>, NEW b
    PROVE  Urls!WithoutBucket(b, p) = p <=> Head(p) # b
<1>1. Len(Tail(p)) = Len(p) - 1 /\ Len(p) \in Nat
  BY TailLength
<1>2. Len(p) # Len(p) - 1
  OBVIOUS
<1>3. Tail(p) # p
  BY Zenon, <1>1, <1>2, LengthsDiffer
<1> QED BY Zenon, <1>3 DEF Urls!WithoutBucket

\* The three forms of the URL of an upload to pl.
UrlForm(u, k, pl) ==
    /\ u.ext = k.ext /\ u.scheme \in BOOLEAN
    /\ \/ u.host = "cdn" /\ \E q \in {<<>>, <<"media">>} : u.path = q \o k.path
       \/ /\ u.host \in Urls!EndpointHost /\ u.scheme /\ pl.store = u.host
          /\ \E q \in {<<>>, <<"v1">>} : u.path = q \o <<pl.bucket>> \o k.path
       \/ u.host = Urls!BucketHost /\ u.path = k.path /\ u.scheme

LEMMA PlaceFields ==
    ASSUME NEW c \in Urls!Config
    PROVE  /\ Urls!Place(c).bucket = c.bucket
           /\ c.endpoint = Urls!NoHost => Urls!Place(c).store = c.region
           /\ c.endpoint # Urls!NoHost => Urls!Place(c).store = c.endpoint.host
           /\ c.region \in Urls!Region
           /\ Urls!Place(c) = [store |-> Urls!Place(c).store, bucket |-> c.bucket]
BY DEF Urls!Place, Urls!Config

LEMMA HostsDiffer ==
    ASSUME NEW c \in Urls!Config
    PROVE  /\ c.base # Urls!NoHost => c.base.host = "cdn"
           /\ c.endpoint # Urls!NoHost => c.endpoint.host \in Urls!EndpointHost
           /\ c.base.scheme \in BOOLEAN
<1>1. c.base \in Urls!PublicBase /\ c.endpoint \in Urls!Endpoint
  BY DEF Urls!Config
<1>2. Urls!NoHost.scheme \in BOOLEAN
  BY DEF Urls!NoHost
<1>3. c.base # Urls!NoHost => c.base.host = "cdn" /\ c.base.scheme \in BOOLEAN
  BY <1>1 DEF Urls!PublicBase
<1>4. c.endpoint # Urls!NoHost => c.endpoint.host \in Urls!EndpointHost
  BY <1>1 DEF Urls!Endpoint
<1> QED BY <1>2, <1>3, <1>4

LEMMA UrlForms ==
    ASSUME NEW c \in Urls!Config, NEW k
    PROVE  UrlForm(Urls!BuildPublicUrl(c, k), k, Urls!Place(c))
<1>0. c.base \in Urls!PublicBase /\ c.endpoint \in Urls!Endpoint
      /\ Urls!Place(c).bucket = c.bucket
  BY PlaceFields DEF Urls!Config
<1>1. CASE c.base # Urls!NoHost
  <2>1. c.base.host = "cdn" /\ c.base.path \in {<<>>, <<"media">>} /\ c.base.scheme \in BOOLEAN
    BY <1>0, <1>1 DEF Urls!PublicBase
  <2>2. Urls!BuildPublicUrl(c, k) =
            [host |-> c.base.host, path |-> c.base.path \o k.path, scheme |-> c.base.scheme,
             ext |-> k.ext]
    BY <1>1 DEF Urls!BuildPublicUrl
  <2>3. UrlForm([host |-> c.base.host, path |-> c.base.path \o k.path,
                 scheme |-> c.base.scheme, ext |-> k.ext], k, Urls!Place(c))
    BY <2>1 DEF UrlForm
  <2> QED BY Zenon, <2>2, <2>3
<1>2. CASE c.base = Urls!NoHost /\ c.endpoint # Urls!NoHost
  <2>1. c.endpoint.host \in Urls!EndpointHost /\ c.endpoint.path \in {<<>>, <<"v1">>}
        /\ Urls!Place(c).store = c.endpoint.host
    BY <1>0, <1>2, PlaceFields DEF Urls!Endpoint
  <2>2. Urls!BuildPublicUrl(c, k) =
            [host |-> c.endpoint.host, path |-> c.endpoint.path \o <<c.bucket>> \o k.path,
             scheme |-> TRUE, ext |-> k.ext]
    BY <1>2 DEF Urls!BuildPublicUrl
  <2>3. UrlForm([host |-> c.endpoint.host, path |-> c.endpoint.path \o <<c.bucket>> \o k.path,
                 scheme |-> TRUE, ext |-> k.ext], k, Urls!Place(c))
    BY <1>0, <2>1 DEF UrlForm
  <2> QED BY Zenon, <2>2, <2>3
<1>3. CASE c.base = Urls!NoHost /\ c.endpoint = Urls!NoHost
  <2>1. Urls!BuildPublicUrl(c, k) =
            [host |-> Urls!BucketHost, path |-> k.path, scheme |-> TRUE, ext |-> k.ext]
    BY <1>3 DEF Urls!BuildPublicUrl
  <2>2. UrlForm([host |-> Urls!BucketHost, path |-> k.path, scheme |-> TRUE, ext |-> k.ext], k,
                Urls!Place(c))
    BY DEF UrlForm
  <2> QED BY Zenon, <2>1, <2>2
<1> QED BY <1>1, <1>2, <1>3

\* Where the upload went, its URL says the rest.
LEMMA UploadForm ==
    ASSUME UrlInv
    PROVE  UrlForm(url, key, place) /\ place.bucket # Urls!NoBucket
<1>1. PICK c \in Urls!Config : /\ c.bucket # Urls!NoBucket /\ place = Urls!Place(c)
                               /\ url = Urls!BuildPublicUrl(c, key)
  BY DEF UrlInv
<1>2. UrlForm(Urls!BuildPublicUrl(c, key), key, Urls!Place(c))
  BY UrlForms
<1>3. UrlForm(url, key, place)
  BY Zenon, <1>1, <1>2
<1>4. Urls!Place(c).bucket = c.bucket
  BY PlaceFields
<1> QED BY Zenon, <1>1, <1>3, <1>4

\* A service that works where the upload went reads its URL back as the key exactly
\* when the URL is not misread.
LEMMA ReadsBack ==
    ASSUME UrlInv, ~Urls!Elsewhere
    PROVE  Urls!ExtractKey(config, url) = key <=> ~Urls!Misread
<1> DEFINE p == key.path
           b == place.bucket
           read == Urls!ExtractedPath(config, url)
<1>0. key \in Urls!Key /\ config \in Urls!Config
  BY DEF UrlInv
<1>1. p \in Seq(Urls!Segment) /\ p # <<>> /\ key.ext \in Urls!Extension
      /\ key = [path |-> p, ext |-> key.ext]
  BY <1>0, KeyPath
<1>2. UrlForm(url, key, place)
  BY UploadForm
<1>3. /\ url.ext = key.ext /\ url.scheme \in BOOLEAN
      /\ \/ url.host = "cdn"
         \/ /\ url.host \in Urls!EndpointHost /\ url.scheme /\ place.store = url.host
            /\ \E q \in {<<>>, <<"v1">>} : url.path = q \o <<b>> \o p
         \/ url.host = Urls!BucketHost /\ url.path = p /\ url.scheme
  BY <1>2 DEF UrlForm
<1>4. /\ config.base # Urls!NoHost => config.base.host = "cdn"
      /\ config.endpoint # Urls!NoHost => config.endpoint.host \in Urls!EndpointHost
      /\ config.base.scheme \in BOOLEAN
  BY <1>0, HostsDiffer
<1>5. Urls!Parsed(key.ext) = key.ext <=> key.ext = "plain"
  BY <1>1 DEF Urls!Parsed, Urls!Extension
<1>6. /\ config.bucket = b
      /\ config.endpoint = Urls!NoHost => place.store \in Urls!Region
      /\ config.endpoint # Urls!NoHost => config.endpoint.host = place.store
  <2>1. Urls!Place(config) = place
    BY DEF Urls!Elsewhere
  <2> QED BY <1>0, <2>1, PlaceFields
<1>7. CASE ~url.scheme \/ ~config.base.scheme
  <2>1. Urls!ExtractKey(config, url) = Urls!NoKey
    BY <1>7 DEF Urls!ExtractKey
  <2>2. Urls!NoKey.path = <<>>
    BY DEF Urls!NoKey
  <2> QED BY <1>1, <1>7, <2>1, <2>2 DEF Urls!Misread
<1>8. CASE url.scheme /\ config.base.scheme
  <2>1. Urls!ExtractKey(config, url) = [path |-> read, ext |-> Urls!Parsed(key.ext)]
    BY <1>3, <1>8 DEF Urls!ExtractKey
  <2>2. Urls!ExtractKey(config, url) = key <=> read = p /\ key.ext = "plain"
    <3> HIDE DEF read
    <3> QED BY <1>1, <1>5, <2>1
  <2>3. CASE url.host = "cdn"
    <3>1. read = url.path
      BY <1>4, <2>3 DEF Urls!ExtractedPath, Urls!BucketHost, Urls!EndpointHost
    <3> QED BY <1>8, <2>2, <2>3, <3>1 DEF Urls!Misread, Urls!BucketHost, Urls!EndpointHost
  <2>4. CASE /\ url.host \in Urls!EndpointHost /\ place.store = url.host
             /\ \E q \in {<<>>, <<"v1">>} : url.path = q \o <<b>> \o p
    <3>1. Urls!WithoutBucket(b, url.path) = p <=> url.path = <<b>> \o p
      <4>1. PICK T : b \in T /\ "v1" \in T /\ p \in Seq(T)
        <5>1. b \in Urls!Segment \cup {b} /\ "v1" \in Urls!Segment \cup {b}
              /\ p \in Seq(Urls!Segment \cup {b})
          BY <1>1 DEF Urls!Segment
        <5> QED BY <5>1
      <4>2. PICK q \in {<<>>, <<"v1">>} : url.path \in {q \o <<b>> \o p}
        BY <2>4
      <4> HIDE DEF p, b
      <4>3. Splits(b, url.path, p)
        BY Zenon, <4>1, <4>2, EndpointPath
      <4> QED BY <4>3 DEF Splits
    <3>2. config.endpoint # Urls!NoHost /\ config.endpoint.host = url.host
      BY <1>6, <2>4 DEF Urls!EndpointHost, Urls!Region
    <3>3. read = Urls!WithoutBucket(b, url.path)
      BY <1>4, <1>6, <2>4, <3>2 DEF Urls!ExtractedPath, Urls!EndpointHost
    <3> QED BY <1>8, <2>2, <2>4, <3>1, <3>3 DEF Urls!Misread, Urls!BucketHost, Urls!EndpointHost
  <2>5. CASE url.host = Urls!BucketHost /\ url.path = p
    <3>1. read = Urls!WithoutBucket(b, p)
      BY <1>4, <1>6, <2>5 DEF Urls!ExtractedPath, Urls!BucketHost
    <3>2. Urls!WithoutBucket(b, p) = p <=> Head(p) # b
      BY <1>1, DefaultPath
    <3> QED BY <1>8, <2>2, <2>5, <3>1, <3>2 DEF Urls!Misread, Urls!BucketHost, Urls!EndpointHost
  <2> QED BY <1>3, <2>3, <2>4, <2>5
<1> QED BY <1>3, <1>4, <1>7, <1>8

LEMMA NonEmptyConcat ==
    ASSUME NEW T, NEW p \in Seq(T), NEW q \in Seq(T), p # <<>>
    PROVE  q \o p \in Seq(T) /\ q \o p # <<>>
BY ConcatProperties, ConcatEqualIffEmpty

LEMMA PathsConcat ==
    ASSUME NEW k \in Urls!Key, NEW q \in {<<>>, <<"media">>, <<"v1">>}, NEW b \in Buckets
    PROVE  /\ q \o k.path \in Seq(Urls!Segment) /\ q \o k.path # <<>>
           /\ q \o <<b>> \o k.path \in Seq(Urls!Segment)
           /\ q \o <<b>> \o k.path # <<>>
<1>1. b \in Urls!Segment /\ "v1" \in Urls!Segment /\ "media" \in Urls!Segment
  BY DEF Urls!Segment
<1>2. k.path \in Seq(Urls!Segment) /\ k.path # <<>>
  BY KeyPath
<1>3. <<>> \in Seq(Urls!Segment)
  OBVIOUS
<1>4. <<b>> \in Seq(Urls!Segment) /\ q \in Seq(Urls!Segment)
  BY Zenon, <1>1, <1>3, OneSegment
<1>5. q \o <<b>> \in Seq(Urls!Segment)
  BY <1>4, ConcatProperties
<1> QED BY Zenon, <1>2, <1>4, <1>5, NonEmptyConcat

LEMMA UrlTyped == ASSUME UrlInv PROVE Urls!TypeOK
<1>0. key \in Urls!Key /\ config \in Urls!Config /\ key.ext \in Urls!Extension
      /\ key.path \in Seq(Urls!Segment) /\ key.path # <<>> /\ asked \in BOOLEAN
  BY KeyPath DEF UrlInv
<1>1. PICK c \in Urls!Config : /\ c.bucket # Urls!NoBucket /\ place = Urls!Place(c)
                               /\ url = Urls!BuildPublicUrl(c, key)
  BY DEF UrlInv
<1>2. url = [host |-> url.host, path |-> url.path, scheme |-> url.scheme, ext |-> url.ext]
  BY <1>1 DEF Urls!BuildPublicUrl
<1>3. UrlForm(url, key, place)
  BY UploadForm
<1>4. /\ url.host \in {"cdn", Urls!BucketHost} \cup Urls!EndpointHost /\ url.scheme \in BOOLEAN
      /\ url.ext \in Urls!Extension
  BY <1>0, <1>3 DEF UrlForm
<1> DEFINE Places == [store: Urls!Region \cup Urls!EndpointHost, bucket: Buckets]
<1>5. \A d \in Urls!Config : d.bucket # Urls!NoBucket => Urls!Place(d) \in Places
  <2> SUFFICES ASSUME NEW d \in Urls!Config, d.bucket # Urls!NoBucket
               PROVE  Urls!Place(d) \in Places
    OBVIOUS
  <2>1. d.bucket \in Buckets
    BY DEF Urls!Config
  <2>2. Urls!Place(d).store \in Urls!Region \cup Urls!EndpointHost
    BY PlaceFields, HostsDiffer
  <2> QED BY <2>1, <2>2, PlaceFields
<1>6. place \in Places /\ place.bucket \in Buckets
  BY <1>1, <1>5
<1>7. url.path \in Seq(Urls!Segment) /\ url.path # <<>>
  <2>1. CASE \E q \in {<<>>, <<"media">>} : url.path = q \o key.path
    BY Zenon, <1>0, <1>6, <2>1, PathsConcat
  <2>2. CASE \E q \in {<<>>, <<"v1">>} : url.path = q \o <<place.bucket>> \o key.path
    BY Zenon, <1>0, <1>6, <2>2, PathsConcat
  <2>3. CASE url.path = key.path
    BY Zenon, <1>0, <2>3
  <2> QED BY <1>3, <2>1, <2>2, <2>3 DEF UrlForm
<1>8. deleted \in SUBSET Urls!Object
  <2> DEFINE Keys == [path: Seq(Urls!Segment), ext: {"plain", "other"}]
             k == Urls!ExtractKey(config, url)
  <2>1. Urls!NoKey \in Keys
    BY DEF Urls!NoKey
  <2>2. Tail(url.path) \in Seq(Urls!Segment)
    BY Zenon, <1>7, TailLength
  <2>3. Urls!ExtractedPath(config, url) \in {url.path, Tail(url.path)}
    BY DEF Urls!ExtractedPath, Urls!WithoutBucket
  <2>4. Urls!Parsed(url.ext) \in {"plain", "other"}
    BY DEF Urls!Parsed
  <2>5. k \in Keys
    BY <1>7, <2>1, <2>2, <2>3, <2>4 DEF Urls!ExtractKey
  <2>6. config.bucket # Urls!NoBucket => [place |-> Urls!Place(config), key |-> k] \in Urls!Object
    <3> HIDE DEF k
    <3> QED BY <1>0, <1>5, <2>5 DEF Urls!Object
  <2> HIDE DEF k
  <2>7. deleted \in {{}, {[place |-> Urls!Place(config), key |-> k]}}
        /\ (deleted # {} => config.bucket # Urls!NoBucket)
    BY DEF UrlInv, Deletion, k
  <2> QED BY <2>6, <2>7
<1>9. url \in [host: {"cdn", Urls!BucketHost} \cup Urls!EndpointHost, path: Seq(Urls!Segment),
               scheme: BOOLEAN, ext: Urls!Extension]
  BY <1>2, <1>4, <1>7
<1> QED BY <1>0, <1>6, <1>8, <1>9 DEF Urls!TypeOK

LEMMA UrlInit == Urls!Init => UrlInv
BY DEF Urls!Init, UrlInv

LEMMA ReconfigureKeeps == ASSUME UrlInv, Urls!Reconfigure PROVE UrlInv'
<1>1. ~asked /\ UNCHANGED <<url, key, place, deleted, asked>>
  BY DEF Urls!Reconfigure
<1>2. config' \in Urls!Config
  BY DEF UrlInv, Urls!Reconfigure, Urls!Config
<1> QED BY <1>1, <1>2 DEF UrlInv

LEMMA UrlNext == UrlInv /\ [Urls!Next]_(Urls!urlVars) => UrlInv'
<1> SUFFICES ASSUME UrlInv, [Urls!Next]_(Urls!urlVars) PROVE UrlInv'
  OBVIOUS
<1>1. CASE UNCHANGED Urls!urlVars
  BY <1>1 DEF Urls!urlVars, UrlInv, Deletion
<1>2. CASE Urls!Reconfigure
  BY <1>2, ReconfigureKeeps
<1>3. CASE Urls!DeleteByUrl
  BY <1>3 DEF Urls!DeleteByUrl, UrlInv, Deletion
<1> QED BY <1>1, <1>2, <1>3 DEF Urls!Next

LEMMA UrlMoves == [Next]_vars => [Urls!Next]_(Urls!urlVars)
BY DEF Next, vars, urlVars, Urls!urlVars

Removal(p, k) == {[place |-> p, key |-> k]}

SameRemoval(p, q, k, l) == Removal(p, k) = Removal(q, l) <=> p = q /\ k = l

LEMMA RemovalsDiffer == ASSUME NEW p, NEW q, NEW k, NEW l PROVE SameRemoval(p, q, k, l)
<1>1. [place |-> p, key |-> k] = [place |-> q, key |-> l] <=> p = q /\ k = l
  OBVIOUS
<1>2. \A x, y : {x} = {y} <=> x = y
  OBVIOUS
<1> QED BY Zenon, <1>1, <1>2 DEF Removal, SameRemoval

\* A call removes the upload exactly when the service works where the upload went
\* and reads the key back.
LEMMA DeletionRight ==
    ASSUME UrlInv, asked
    PROVE  deleted = {[place |-> place, key |-> key]} <=> ~Urls!Elsewhere /\ ~Urls!Misread
<1> DEFINE k == Urls!ExtractKey(config, url)
<1>1. deleted = Deletion /\ config \in Urls!Config
  BY DEF UrlInv
<1>2. deleted = {} \/ deleted = Removal(Urls!Place(config), k)
  BY <1>1 DEF Deletion, Removal
<1>3. deleted = Removal(place, key) <=> ~Urls!Elsewhere /\ ~Urls!Misread
  <2> HIDE DEF k
  <2>1. Removal(place, key) # {}
    BY DEF Removal
  <2>2. CASE Urls!Elsewhere
    <3>1. Removal(Urls!Place(config), k) # Removal(place, key)
      <4>1. SameRemoval(Urls!Place(config), place, k, key)
        BY Zenon, RemovalsDiffer
      <4> QED BY Zenon, <2>2, <4>1 DEF Urls!Elsewhere, SameRemoval
    <3> QED BY Zenon, <1>2, <2>1, <2>2, <3>1
  <2>3. CASE ~Urls!Elsewhere
    <3>1. Urls!Place(config) = place
      BY <2>3 DEF Urls!Elsewhere
    <3>2. config.bucket # Urls!NoBucket
      BY <1>1, <3>1, PlaceFields, UploadForm
    <3>3. key # Urls!NoKey
      BY KeyPath DEF UrlInv, Urls!NoKey
    <3>4. deleted = IF k = Urls!NoKey THEN {} ELSE Removal(place, k)
      BY <1>1, <3>1, <3>2 DEF Deletion, Removal, k
    <3>5. k = key <=> ~Urls!Misread
      BY <2>3, ReadsBack DEF k
    <3>6. Removal(place, k) = Removal(place, key) <=> k = key
      <4>1. SameRemoval(place, place, k, key)
        BY Zenon, RemovalsDiffer
      <4> QED BY Zenon, <4>1 DEF SameRemoval
    <3> QED BY Zenon, <2>1, <2>3, <3>3, <3>4, <3>5, <3>6
  <2> QED BY <2>2, <2>3
<1> QED BY <1>3 DEF Removal

\* deleteByUrl removes the object that was uploaded, for any buckets, folders and
\* two configurations, exactly when the service works where the upload went and its
\* URL is not one of the kinds Misread lists.
THEOREM UploadIsDeleted ==
    (Urls!Spec => []Urls!DeletesItsUpload) /\ (Spec => []DeletesItsUpload)
<1>1. UrlInv => Urls!DeletesItsUpload
  BY DeletionRight DEF Urls!DeletesItsUpload
<1>2. Urls!DeletesItsUpload => DeletesItsUpload
  BY DEF DeletesItsUpload
<1>3. Init => Urls!Init
  BY DEF Init
<1>4. Urls!Spec => []Urls!DeletesItsUpload
  BY <1>1, UrlInit, UrlNext, PTL DEF Urls!Spec
<1>5. Spec => []DeletesItsUpload
  BY <1>1, <1>2, <1>3, UrlInit, UrlNext, UrlMoves, PTL DEF Spec
<1> QED BY <1>4, <1>5

----------------------------------------------------------------------------
(* Storefront: the lists, the pages behind them and the dashboard. *)

LEMMA ShopCardinality == ASSUME NEW S PROVE Shop!Cardinality(S) = Cardinality(S)
BY Zenon DEF Shop!Cardinality, Cardinality

ShopRow == [archived: BOOLEAN, status: {"ACTIVE", "CLOSED"}, verification: {"PENDING", "VERIFIED"}]
OfferRow == [archived: BOOLEAN, status: {"DRAFT", "PUBLISHED"}]

\* Two numbers are at most d apart.
Near(m, n, d) == m <= n + d /\ n <= m + d

\* A figure that was counted is off by at most the changes since.
FiguresCurrent ==
    \A f \in Shop!Figure :
        figures[f] # Shop!NotCounted => Near(figures[f], Shop!Count(f), changes)

ShopInv == Shop!TypeOK /\ FiguresCurrent

LEMMA ShopTyped ==
    ASSUME Shop!TypeOK
    PROVE  /\ shops \in [Shops -> ShopRow] /\ offers \in [Offer -> OfferRow]
           /\ figures \in [Shop!Figure -> Nat \cup {Shop!NotCounted}] /\ changes \in Nat
           /\ favourites \in [Shops -> {"none", "kept", "removed"}]
BY DEF Shop!TypeOK, ShopRow, OfferRow

LEMMA SubsetCount ==
    ASSUME NEW S, IsFiniteSet(S), NEW T \in SUBSET S
    PROVE  Shop!Cardinality(T) \in Nat
<1>1. Cardinality(T) \in Nat
  BY FS_Subset, FS_CardinalityType
<1> QED BY <1>1, ShopCardinality

LEMMA CountType ==
    ASSUME NEW f \in Shop!Figure
    PROVE  Shop!Count(f) \in Nat
<1>0. IsFiniteSet(Shops) /\ IsFiniteSet(Offer)
  BY BackOfficeAssumption
<1>1. CASE f = "total_businesses"
  <2>1. Shop!Count(f) = Shop!Cardinality({b \in Shops : ~shops[b].archived})
    BY <1>1 DEF Shop!Count
  <2> QED BY <1>0, <2>1, SubsetCount
<1>2. CASE f = "active_businesses"
  <2>1. Shop!Count(f) =
            Shop!Cardinality({b \in Shops : ~shops[b].archived /\ shops[b].status = "ACTIVE"})
    BY <1>2 DEF Shop!Count
  <2> QED BY <1>0, <2>1, SubsetCount
<1>3. CASE f = "pending_business_verifications"
  <2>1. Shop!Count(f) =
            Shop!Cardinality({b \in Shops : ~shops[b].archived /\ shops[b].verification = "PENDING"})
    BY <1>3 DEF Shop!Count
  <2> QED BY <1>0, <2>1, SubsetCount
<1>4. CASE f = "total_offers"
  <2>1. Shop!Count(f) = Shop!Cardinality({o \in Offer : ~offers[o].archived})
    BY <1>4 DEF Shop!Count
  <2> QED BY <1>0, <2>1, SubsetCount
<1>5. CASE f = "published_offers"
  <2>1. Shop!Count(f) =
            Shop!Cardinality({o \in Offer : ~offers[o].archived /\ offers[o].status = "PUBLISHED"})
    BY <1>5 DEF Shop!Count
  <2> QED BY <1>0, <2>1, SubsetCount
<1> QED BY <1>1, <1>2, <1>3, <1>4, <1>5 DEF Shop!Figure

LEMMA CountsTyped == \A f \in Shop!Figure : Shop!Count(f)' \in Nat
<1>1. \A f \in Shop!Figure : Shop!Count(f) \in Nat
  BY CountType
<1>2. (\A f \in Shop!Figure : Shop!Count(f) \in Nat)'
  BY <1>1, PTL
<1> QED BY <1>2

LEMMA ShopInit == Shop!Init => ShopInv
<1> SUFFICES ASSUME Shop!Init PROVE ShopInv
  OBVIOUS
<1>1. Shop!TypeOK
  BY DEF Shop!Init, Shop!TypeOK, Shop!NotCounted
<1>2. FiguresCurrent
  BY DEF Shop!Init, FiguresCurrent
<1> QED BY <1>1, <1>2 DEF ShopInv

\* Sets that differ in one element at most have nearly the same size.
LEMMA SizesNear ==
    ASSUME NEW S, IsFiniteSet(S), NEW T \in SUBSET S, NEW U \in SUBSET S,
           NEW x, T \ {x} = U \ {x}
    PROVE  Near(Shop!Cardinality(T), Shop!Cardinality(U), 1)
<1>1. ASSUME NEW V \in SUBSET S
      PROVE  /\ Cardinality(V) \in Nat /\ Cardinality(V \ {x}) \in Nat
             /\ Cardinality(V \ {x}) \in {Cardinality(V), Cardinality(V) - 1}
  <2>1. IsFiniteSet(V) /\ IsFiniteSet(V \ {x})
    BY FS_Subset
  <2>2. Cardinality(V) \in Nat /\ Cardinality(V \ {x}) \in Nat
    BY <2>1, FS_CardinalityType
  <2>3. x \in V => Cardinality(V \ {x}) = Cardinality(V) - 1
    BY <2>1, FS_RemoveElement
  <2>4. x \notin V => V \ {x} = V
    OBVIOUS
  <2> QED BY <2>2, <2>3, <2>4
<1>2. PICK m \in Nat : m \in {Cardinality(T), Cardinality(T) - 1}
                       /\ m \in {Cardinality(U), Cardinality(U) - 1}
  <2>1. Cardinality(T \ {x}) = Cardinality(U \ {x})
    OBVIOUS
  <2>2. Cardinality(T \ {x}) \in Nat /\ Cardinality(T \ {x}) \in {Cardinality(T), Cardinality(T) - 1}
    BY <1>1
  <2>3. Cardinality(U \ {x}) \in {Cardinality(U), Cardinality(U) - 1}
    BY <1>1
  <2> QED BY <2>1, <2>2, <2>3
<1>3. Cardinality(T) \in Nat /\ Cardinality(U) \in Nat
  BY <1>1
<1>4. Near(Cardinality(T), Cardinality(U), 1)
  BY <1>2, <1>3 DEF Near
<1> QED BY <1>4, ShopCardinality

\* The lists the figures count.
LEMMA CountedLists ==
    /\ Shop!Count("total_businesses") = Shop!Cardinality(Shop!AdminBusinesses)
    /\ Shop!Count("active_businesses") = Shop!Cardinality(Shop!AppBusinesses)
    /\ Shop!Count("pending_business_verifications") = Shop!Cardinality(Shop!BusinessesToVerify)
    /\ Shop!Count("total_offers") = Shop!Cardinality(Shop!AdminOffers)
    /\ Shop!Count("published_offers") = Shop!Cardinality(Shop!AppOffers)
<1>1. Shop!Count("total_businesses") = Shop!Cardinality(Shop!AdminBusinesses)
  BY DEF Shop!Count, Shop!AdminBusinesses
<1>2. Shop!Count("active_businesses") = Shop!Cardinality(Shop!AppBusinesses)
  BY DEF Shop!Count, Shop!AppBusinesses
<1>3. Shop!Count("pending_business_verifications") = Shop!Cardinality(Shop!BusinessesToVerify)
  <2>1. {b \in Shops : ~shops[b].archived /\ shops[b].verification = "PENDING"}
            = Shop!BusinessesToVerify
    BY DEF Shop!BusinessesToVerify
  <2> QED BY <2>1 DEF Shop!Count
<1>4. Shop!Count("total_offers") = Shop!Cardinality(Shop!AdminOffers)
  BY DEF Shop!Count, Shop!AdminOffers
<1>5. Shop!Count("published_offers") = Shop!Cardinality(Shop!AppOffers)
  BY DEF Shop!Count, Shop!AppOffers
<1> QED BY <1>1, <1>2, <1>3, <1>4, <1>5

\* A change moves no count by more than one.
CountsNear == \A f \in Shop!Figure : Near(Shop!Count(f), Shop!Count(f)', 1)

\* A change forgets the figures, or is counted.
LEMMA ChangingKeeps ==
    ASSUME ShopInv, Shop!Changing, CountsNear, \A f \in Shop!Figure : Shop!Count(f)' \in Nat
    PROVE  /\ figures' \in [Shop!Figure -> Nat \cup {Shop!NotCounted}] /\ changes' \in Nat
           /\ FiguresCurrent'
<1>0. changes \in Nat /\ figures \in [Shop!Figure -> Nat \cup {Shop!NotCounted}]
  BY ShopTyped DEF ShopInv
<1>1. CASE Shop!Counting
  <2>1. changes' = changes + 1 /\ figures' = figures
    BY <1>1 DEF Shop!Changing
  <2>2. ASSUME NEW f \in Shop!Figure, figures'[f] # Shop!NotCounted
        PROVE  Near(figures'[f], Shop!Count(f)', changes')
    <3>1. figures[f] \in Nat /\ Near(figures[f], Shop!Count(f), changes)
      BY <1>0, <2>1, <2>2 DEF ShopInv, FiguresCurrent
    <3>2. Near(Shop!Count(f), Shop!Count(f)', 1)
      BY DEF CountsNear
    <3>3. Shop!Count(f) \in Nat /\ Shop!Count(f)' \in Nat
      BY CountType
    <3>4. ASSUME NEW k \in Nat, NEW m \in Nat, NEW n \in Nat, NEW d \in Nat,
                 Near(k, m, d), Near(m, n, 1)
          PROVE  Near(k, n, d + 1)
      BY <3>4 DEF Near
    <3>5. Near(figures[f], Shop!Count(f)', changes + 1)
      BY <1>0, <3>1, <3>2, <3>3, <3>4
    <3> QED BY <2>1, <3>5
  <2> QED BY <1>0, <2>1, <2>2 DEF FiguresCurrent
<1>2. CASE ~Shop!Counting
  <2>1. figures' = [f \in Shop!Figure |-> Shop!NotCounted] /\ changes' = 0
    BY <1>2 DEF Shop!Changing
  <2> QED BY <2>1 DEF FiguresCurrent
<1> QED BY <1>1, <1>2

LEMMA CountFigureKeeps ==
    ASSUME ShopInv, NEW f \in Shop!Figure, Shop!CountFigure(f)
    PROVE  ShopInv'
<1>1. /\ figures' = [figures EXCEPT ![f] = Shop!Count(f)] /\ Shop!Count(f) \in Nat
      /\ UNCHANGED <<shops, offers, favourites, changes>>
  BY CountType DEF Shop!CountFigure
<1>2. Shop!TypeOK'
  BY <1>1 DEF ShopInv, Shop!TypeOK
<1>3. FiguresCurrent'
  <2>1. \A g \in Shop!Figure : Shop!Count(g)' = Shop!Count(g)
    BY <1>1 DEF Shop!Count
  <2>2. \A g \in Shop!Figure :
            figures'[g] = IF g = f THEN Shop!Count(f) ELSE figures[g]
    BY <1>1, ShopTyped DEF ShopInv
  <2>3. changes \in Nat /\ changes' = changes
    BY <1>1, ShopTyped DEF ShopInv
  <2>4. Near(Shop!Count(f), Shop!Count(f), changes)
    BY <1>1, <2>3 DEF Near
  <2>5. ASSUME NEW g \in Shop!Figure, figures'[g] # Shop!NotCounted
        PROVE  Near(figures'[g], Shop!Count(g)', changes')
    <3>1. CASE g = f
      BY <2>1, <2>2, <2>3, <2>4, <3>1
    <3>2. CASE g # f
      BY <2>1, <2>2, <2>3, <2>5, <3>2 DEF ShopInv, FiguresCurrent
    <3> QED BY <3>1, <3>2
  <2> QED BY <2>5 DEF FiguresCurrent
<1> QED BY <1>2, <1>3 DEF ShopInv

LEMMA ChangeBusinessKeeps ==
    ASSUME ShopInv, NEW b \in Shops, Shop!ChangeBusiness(b)
    PROVE  ShopInv'
<1>1. PICK row : /\ shops' = [shops EXCEPT ![b] = row]
                 /\ row \in {[shops[b] EXCEPT !.status = "CLOSED"],
                             [shops[b] EXCEPT !.status = "ACTIVE"],
                             [shops[b] EXCEPT !.archived = TRUE],
                             [shops[b] EXCEPT !.verification = "VERIFIED"]}
  BY DEF Shop!ChangeBusiness
<1>2. shops[b] \in ShopRow
  BY ShopTyped DEF ShopInv
<1>3. row \in ShopRow
  BY <1>1, <1>2 DEF ShopRow
<1>4. shops' \in [Shops -> ShopRow]
  BY <1>1, <1>3, ShopTyped DEF ShopInv
<1>5. Shop!Changing /\ UNCHANGED <<offers, favourites>>
  BY DEF Shop!ChangeBusiness
<1>6. CountsNear
  <2>0. \A x \in Shops \ {b} : shops'[x] = shops[x]
    BY <1>1, ShopTyped DEF ShopInv
  <2>1. Near(Shop!Count("total_businesses"), Shop!Count("total_businesses")', 1)
    <3>1. Shop!AdminBusinesses \ {b} = Shop!AdminBusinesses' \ {b}
      BY <2>0 DEF Shop!AdminBusinesses
    <3>2. Shop!AdminBusinesses \in SUBSET Shops /\ Shop!AdminBusinesses' \in SUBSET Shops
      BY DEF Shop!AdminBusinesses
    <3>3. Near(Shop!Cardinality(Shop!AdminBusinesses), Shop!Cardinality(Shop!AdminBusinesses'), 1)
      BY <3>1, <3>2, SizesNear, BackOfficeAssumption
    <3> QED BY <3>3 DEF Shop!Count, Shop!AdminBusinesses
  <2>2. Near(Shop!Count("active_businesses"), Shop!Count("active_businesses")', 1)
    <3>1. Shop!AppBusinesses \ {b} = Shop!AppBusinesses' \ {b}
      BY <2>0 DEF Shop!AppBusinesses
    <3>2. Shop!AppBusinesses \in SUBSET Shops /\ Shop!AppBusinesses' \in SUBSET Shops
      BY DEF Shop!AppBusinesses
    <3>3. Near(Shop!Cardinality(Shop!AppBusinesses), Shop!Cardinality(Shop!AppBusinesses'), 1)
      BY <3>1, <3>2, SizesNear, BackOfficeAssumption
    <3> QED BY <3>3 DEF Shop!Count, Shop!AppBusinesses
  <2>3. Near(Shop!Count("pending_business_verifications"),
             Shop!Count("pending_business_verifications")', 1)
    <3> DEFINE T == {x \in Shops : ~shops[x].archived /\ shops[x].verification = "PENDING"}
               U == {x \in Shops : ~shops'[x].archived /\ shops'[x].verification = "PENDING"}
    <3>1. T \ {b} = U \ {b} /\ T \in SUBSET Shops /\ U \in SUBSET Shops
      BY <2>0
    <3>2. /\ Shop!Count("pending_business_verifications") = Shop!Cardinality(T)
          /\ Shop!Count("pending_business_verifications")' = Shop!Cardinality(U)
      BY DEF Shop!Count
    <3> HIDE DEF T, U
    <3>3. Near(Shop!Cardinality(T), Shop!Cardinality(U), 1)
      BY <3>1, SizesNear, BackOfficeAssumption
    <3> QED BY <3>2, <3>3
  <2>4. /\ Shop!Count("total_offers")' = Shop!Count("total_offers")
        /\ Shop!Count("published_offers")' = Shop!Count("published_offers")
    BY <1>5 DEF Shop!Count
  <2>5. /\ Near(Shop!Count("total_offers"), Shop!Count("total_offers")', 1)
        /\ Near(Shop!Count("published_offers"), Shop!Count("published_offers")', 1)
    BY <2>4, CountType DEF Near, Shop!Figure
  <2> QED BY <2>1, <2>2, <2>3, <2>5 DEF CountsNear, Shop!Figure
<1>7. Shop!TypeOK'
  BY <1>4, <1>5, <1>6, ChangingKeeps, CountsTyped DEF ShopInv, Shop!TypeOK, ShopRow
<1> QED BY <1>5, <1>6, <1>7, ChangingKeeps, CountsTyped DEF ShopInv

LEMMA ChangeOfferKeeps ==
    ASSUME ShopInv, NEW o \in Offer, Shop!ChangeOffer(o)
    PROVE  ShopInv'
<1>1. PICK row : /\ offers' = [offers EXCEPT ![o] = row]
                 /\ row \in {[offers[o] EXCEPT !.status = "PUBLISHED"],
                             [offers[o] EXCEPT !.status = "DRAFT"],
                             [offers[o] EXCEPT !.archived = TRUE]}
  BY DEF Shop!ChangeOffer
<1>2. offers[o] \in OfferRow
  BY ShopTyped DEF ShopInv
<1>3. row \in OfferRow
  BY <1>1, <1>2 DEF OfferRow
<1>4. offers' \in [Offer -> OfferRow]
  BY <1>1, <1>3, ShopTyped DEF ShopInv
<1>5. Shop!Changing /\ UNCHANGED <<shops, favourites>>
  BY DEF Shop!ChangeOffer
<1>6. CountsNear
  <2>0. \A x \in Offer \ {o} : offers'[x] = offers[x]
    BY <1>1, ShopTyped DEF ShopInv
  <2>1. Near(Shop!Count("total_offers"), Shop!Count("total_offers")', 1)
    <3>1. Shop!AdminOffers \ {o} = Shop!AdminOffers' \ {o}
      BY <2>0 DEF Shop!AdminOffers
    <3>2. Shop!AdminOffers \in SUBSET Offer /\ Shop!AdminOffers' \in SUBSET Offer
      BY DEF Shop!AdminOffers
    <3>3. Near(Shop!Cardinality(Shop!AdminOffers), Shop!Cardinality(Shop!AdminOffers'), 1)
      BY <3>1, <3>2, SizesNear, BackOfficeAssumption
    <3> QED BY <3>3 DEF Shop!Count, Shop!AdminOffers
  <2>2. Near(Shop!Count("published_offers"), Shop!Count("published_offers")', 1)
    <3>1. Shop!AppOffers \ {o} = Shop!AppOffers' \ {o}
      BY <2>0 DEF Shop!AppOffers
    <3>2. Shop!AppOffers \in SUBSET Offer /\ Shop!AppOffers' \in SUBSET Offer
      BY DEF Shop!AppOffers
    <3>3. Near(Shop!Cardinality(Shop!AppOffers), Shop!Cardinality(Shop!AppOffers'), 1)
      BY <3>1, <3>2, SizesNear, BackOfficeAssumption
    <3> QED BY <3>3 DEF Shop!Count, Shop!AppOffers
  <2>3. \A f \in Shop!Figure \ {"total_offers", "published_offers"} :
            Shop!Count(f)' = Shop!Count(f)
    BY <1>5 DEF Shop!Count, Shop!Figure
  <2>4. \A f \in Shop!Figure \ {"total_offers", "published_offers"} :
            Near(Shop!Count(f), Shop!Count(f)', 1)
    BY <2>3, CountType DEF Near
  <2> QED BY <2>1, <2>2, <2>4 DEF CountsNear
<1>7. Shop!TypeOK'
  BY <1>4, <1>5, <1>6, ChangingKeeps, CountsTyped DEF ShopInv, Shop!TypeOK, OfferRow
<1> QED BY <1>5, <1>6, <1>7, ChangingKeeps, CountsTyped DEF ShopInv

LEMMA ChangeFavouriteKeeps ==
    ASSUME ShopInv, NEW b \in Shops, Shop!ChangeFavourite(b)
    PROVE  ShopInv'
<1>1. favourites' \in [Shops -> {"none", "kept", "removed"}]
      /\ UNCHANGED <<shops, offers, figures, changes>>
  BY ShopTyped DEF ShopInv, Shop!ChangeFavourite
<1>2. FiguresCurrent'
  <2>1. \A g \in Shop!Figure : Shop!Count(g)' = Shop!Count(g)
    BY <1>1 DEF Shop!Count
  <2> QED BY <1>1, <2>1 DEF ShopInv, FiguresCurrent
<1> QED BY <1>1, <1>2 DEF ShopInv, Shop!TypeOK

LEMMA ShopNext == ShopInv /\ [Shop!Next]_(Shop!shopVars) => ShopInv'
<1> SUFFICES ASSUME ShopInv, [Shop!Next]_(Shop!shopVars) PROVE ShopInv'
  OBVIOUS
<1>1. CASE UNCHANGED Shop!shopVars
  <2>1. UNCHANGED <<shops, offers, favourites, figures, changes>>
    BY <1>1 DEF Shop!shopVars
  <2>2. \A g \in Shop!Figure : Shop!Count(g)' = Shop!Count(g)
    BY <2>1 DEF Shop!Count
  <2> QED BY <2>1, <2>2 DEF ShopInv, Shop!TypeOK, FiguresCurrent
<1> QED BY <1>1, CountFigureKeeps, ChangeBusinessKeeps, ChangeOfferKeeps, ChangeFavouriteKeeps
        DEF Shop!Next

LEMMA ShopMoves == [Next]_vars => [Shop!Next]_(Shop!shopVars)
BY DEF Next, vars, shopVars, Shop!shopVars

\* The sizes of the sets of newer offers are numbers, and smaller for newer offers.
LEMMA NewerCount ==
    ASSUME NEW b, NEW S \in SUBSET Offer, NEW T \in SUBSET S
    PROVE  /\ Shop!Cardinality(S) \in Nat /\ Shop!Cardinality(T) \in Nat
           /\ Shop!Cardinality(T) <= Shop!Cardinality(S)
           /\ T # S => Shop!Cardinality(T) < Shop!Cardinality(S)
<1>1. IsFiniteSet(S)
  BY FS_Subset, BackOfficeAssumption
<1>2. /\ IsFiniteSet(T) /\ Cardinality(T) <= Cardinality(S)
      /\ Cardinality(S) = Cardinality(T) => S = T
  BY <1>1, FS_Subset
<1>3. Cardinality(S) \in Nat /\ Cardinality(T) \in Nat
  BY <1>1, <1>2, FS_CardinalityType
<1> QED BY <1>2, <1>3, ShopCardinality

LEMMA PageWhole ==
    ASSUME NEW b, Shop!Cardinality(Shop!ActiveOffers(b)) <= ActiveOffersLimit
    PROVE  Shop!PageOffers(b) = Shop!ActiveOffers(b)
<1> SUFFICES ASSUME NEW o \in Shop!ActiveOffers(b)
             PROVE  Shop!Cardinality(Shop!Newer(b, o)) < ActiveOffersLimit
  BY DEF Shop!PageOffers
<1>1. Shop!ActiveOffers(b) \in SUBSET Offer
  BY DEF Shop!ActiveOffers
<1>2. Shop!Newer(b, o) \in SUBSET Shop!ActiveOffers(b) /\ o \notin Shop!Newer(b, o)
  <2>1. o \in Nat
    BY <1>1, BackOfficeAssumption
  <2>2. ~(o > o)
    BY <2>1
  <2> QED BY <2>2 DEF Shop!Newer
<1>3. Shop!Newer(b, o) # Shop!ActiveOffers(b)
  BY <1>2
<1> QED BY <1>1, <1>2, <1>3, NewerCount, BackOfficeAssumption

LEMMA PageNewest ==
    ASSUME NEW b, NEW o \in Shop!PageOffers(b),
           NEW x \in Shop!ActiveOffers(b) \ Shop!PageOffers(b)
    PROVE  x < o
<1>1. o \in Shop!ActiveOffers(b) /\ Shop!Cardinality(Shop!Newer(b, o)) < ActiveOffersLimit
      /\ ~(Shop!Cardinality(Shop!Newer(b, x)) < ActiveOffersLimit) /\ x # o
  BY DEF Shop!PageOffers
<1>2. Shop!ActiveOffers(b) \subseteq Nat
  BY BackOfficeAssumption DEF Shop!ActiveOffers
<1>3. CASE o < x
  <2>1. Shop!Newer(b, x) \in SUBSET Shop!Newer(b, o)
    BY <1>1, <1>2, <1>3 DEF Shop!Newer
  <2>2. Shop!Newer(b, o) \in SUBSET Offer
    BY DEF Shop!Newer, Shop!ActiveOffers
  <2> QED BY <1>1, <2>1, <2>2, NewerCount, BackOfficeAssumption
<1> QED BY <1>1, <1>2, <1>3

LEMMA PagesAgreeTyped == ASSUME Shop!TypeOK PROVE Shop!PagesAgree
<1>1. Shop!AppOffers \subseteq Shop!AdminOffers \cap Shop!ReservableOffers
  BY DEF Shop!AppOffers, Shop!AdminOffers, Shop!ReservableOffers
<1>2. \A o \in Shop!ReservableOffers \ Shop!AppOffers : offers[o].archived
  BY DEF Shop!AppOffers, Shop!ReservableOffers
<1>3. ASSUME NEW b \in Shop!AppBusinesses
      PROVE  LET listed == {o \in Shop!AppOffers : SoldBy[o] = b} IN
             /\ Shop!PageOffers(b) \subseteq listed
             /\ Shop!Cardinality(listed) <= ActiveOffersLimit => Shop!PageOffers(b) = listed
             /\ \A o \in Shop!PageOffers(b), x \in listed \ Shop!PageOffers(b) : x < o
  <2>1. {o \in Shop!AppOffers : SoldBy[o] = b} = Shop!ActiveOffers(b)
    BY DEF Shop!AppOffers, Shop!ActiveOffers
  <2>2. Shop!PageOffers(b) \subseteq Shop!ActiveOffers(b)
    BY DEF Shop!PageOffers
  <2> QED BY <2>1, <2>2, PageWhole, PageNewest
<1>4. \A b \in Shop!SearchedBusinesses \ Shop!AdminBusinesses :
          shops[b].archived /\ b \in Described
  BY DEF Shop!SearchedBusinesses, Shop!AdminBusinesses, Described
<1>5. Shop!AppFavourites = Shop!AllFavourites \cap Shop!AppBusinesses
  BY DEF Shop!AppFavourites, Shop!AllFavourites, Shop!AppBusinesses
<1>6. Shop!AppBusinesses \cup Shop!BusinessesToVerify
          \subseteq Shop!AdminBusinesses \cap Shop!NearbyBusinesses
  BY DEF Shop!AppBusinesses, Shop!BusinessesToVerify, Shop!AdminBusinesses,
         Shop!NearbyBusinesses
<1> QED BY <1>1, <1>2, <1>3, <1>4, <1>5, <1>6 DEF Shop!PagesAgree

\* What is left to the invariant: the lists are what the figures count.
LEMMA FiguresAgreeCurrent == ASSUME ShopInv PROVE Shop!FiguresAgree
<1> SUFFICES ASSUME Shop!Counted PROVE Shop!FiguresAgree
  BY DEF Shop!FiguresAgree
<1> DEFINE Right(f, list) == Near(figures[f], Shop!Cardinality(list), changes)
<1>1. \A f \in Shop!Figure : Near(figures[f], Shop!Count(f), changes)
  BY DEF ShopInv, FiguresCurrent, Shop!Counted
<1>2. /\ Right("total_businesses", Shop!AdminBusinesses)
      /\ Right("active_businesses", Shop!AppBusinesses)
      /\ Right("pending_business_verifications", Shop!BusinessesToVerify)
      /\ Right("total_offers", Shop!AdminOffers)
      /\ Right("published_offers", Shop!AppOffers)
  BY <1>1, CountedLists DEF Shop!Figure
<1> HIDE DEF Right
<1>3. \A p \in {<<"total_businesses", Shop!AdminBusinesses>>,
                <<"active_businesses", Shop!AppBusinesses>>,
                <<"pending_business_verifications", Shop!BusinessesToVerify>>,
                <<"total_offers", Shop!AdminOffers>>, <<"published_offers", Shop!AppOffers>>} :
          Right(p[1], p[2])
  BY <1>2
<1> QED BY <1>3 DEF Shop!FiguresAgree, Right, Near

\* The lists, the pages they lead to and the dashboard agree, for any number of
\* businesses and offers, any limit of a page's offers and any order of the
\* dashboard's queries and the changes: no figure is off by more than the number of
\* the changes it was counted under.
THEOREM ListsDoAgree ==
    (Shop!Spec => []Shop!ListsAgree) /\ (Spec => []ListsAgree)
<1>1. ShopInv => Shop!ListsAgree
  BY PagesAgreeTyped, FiguresAgreeCurrent DEF ShopInv, Shop!ListsAgree
<1>2. Shop!ListsAgree => ListsAgree
  BY DEF ListsAgree
<1>3. Init => Shop!Init
  BY DEF Init
<1>4. Shop!Spec => []Shop!ListsAgree
  BY <1>1, ShopInit, ShopNext, PTL DEF Shop!Spec
<1>5. Spec => []ListsAgree
  BY <1>1, <1>2, <1>3, ShopInit, ShopNext, ShopMoves, PTL DEF Spec
<1> QED BY <1>4, <1>5

----------------------------------------------------------------------------
(* Paging: what a client that reads page after page is shown. *)

\* Newest first.
Desc(s) == \A i, j \in 1..Len(s) : i < j => s[i] > s[j]

\* Every element of s is newer than what t has after its n-th place.
Above(s, t, n) == \A i \in 1..Len(s), j \in 1..Len(t) : n < j => s[i] > t[j]

\* The first n places of t have nothing of A that s has not.
Covers(s, t, n, A) ==
    \A j \in 1..Len(t) : j <= n /\ t[j] \in A => \E i \in 1..Len(s) : s[i] = t[j]

\* s \o u, where u are the places of t after the n-th up to m.
Longer(s, t, n, m, r) ==
    /\ r \in Seq(Nat) /\ Len(s) <= Len(r)
    /\ \A i \in 1..Len(s) : r[i] = s[i]
    /\ \A i \in 1..Len(r) : Len(s) < i => n + (i - Len(s)) \in 1..Len(t) /\ n + (i - Len(s)) <= m
                                          /\ r[i] = t[n + (i - Len(s))]
    /\ \A j \in 1..Len(t) : n < j /\ j <= m => Len(s) + (j - n) \in 1..Len(r)
                                              /\ r[Len(s) + (j - n)] = t[j]

LEMMA LongerDesc ==
    ASSUME NEW s \in Seq(Nat), NEW t \in Seq(Nat), NEW r, NEW n \in Nat, NEW m \in Nat,
           Longer(s, t, n, m, r), Desc(s), Desc(t), Above(s, t, n)
    PROVE  Desc(r)
<1> SUFFICES ASSUME NEW i \in 1..Len(r), NEW j \in 1..Len(r), i < j PROVE r[i] > r[j]
  BY DEF Desc
<1>0. Len(s) \in Nat /\ Len(r) \in Nat /\ Len(t) \in Nat
  BY DEF Longer
<1>1. CASE j <= Len(s)
  <2>1. i \in 1..Len(s) /\ j \in 1..Len(s)
    BY <1>0, <1>1
  <2> QED BY <2>1 DEF Longer, Desc
<1>2. CASE i <= Len(s) /\ Len(s) < j
  <2>1. i \in 1..Len(s) /\ r[i] = s[i]
    BY <1>0, <1>2 DEF Longer
  <2>2. n + (j - Len(s)) \in 1..Len(t) /\ r[j] = t[n + (j - Len(s))]
    BY <1>2 DEF Longer
  <2>3. n < n + (j - Len(s))
    BY <1>0, <1>2
  <2> QED BY <2>1, <2>2, <2>3 DEF Above
<1>3. CASE Len(s) < i
  <2>1. Len(s) < j
    BY <1>0, <1>3
  <2>2. /\ n + (i - Len(s)) \in 1..Len(t) /\ r[i] = t[n + (i - Len(s))]
        /\ n + (j - Len(s)) \in 1..Len(t) /\ r[j] = t[n + (j - Len(s))]
    BY <1>3, <2>1 DEF Longer
  <2>3. n + (i - Len(s)) < n + (j - Len(s))
    BY <1>0
  <2> QED BY <2>2, <2>3 DEF Desc
<1> QED BY <1>0, <1>1, <1>2, <1>3

LEMMA LongerAbove ==
    ASSUME NEW s \in Seq(Nat), NEW t \in Seq(Nat), NEW r, NEW n \in Nat, NEW m \in Nat, n <= m,
           Longer(s, t, n, m, r), Desc(t), Above(s, t, n)
    PROVE  Above(r, t, m)
<1> SUFFICES ASSUME NEW i \in 1..Len(r), NEW j \in 1..Len(t), m < j PROVE r[i] > t[j]
  BY DEF Above
<1>0. Len(s) \in Nat /\ Len(r) \in Nat /\ Len(t) \in Nat
  BY DEF Longer
<1>1. CASE i <= Len(s)
  <2>1. i \in 1..Len(s) /\ n < j
    BY <1>0, <1>1
  <2>2. r[i] = s[i]
    BY <2>1 DEF Longer
  <2> QED BY <2>1, <2>2 DEF Above
<1>2. CASE Len(s) < i
  <2>1. /\ n + (i - Len(s)) \in 1..Len(t) /\ r[i] = t[n + (i - Len(s))]
        /\ n + (i - Len(s)) <= m
    BY <1>2 DEF Longer
  <2>2. n + (i - Len(s)) < j
    BY <1>0, <2>1
  <2> QED BY <2>1, <2>2 DEF Desc
<1> QED BY <1>0, <1>1, <1>2

LEMMA LongerCovers ==
    ASSUME NEW s \in Seq(Nat), NEW t \in Seq(Nat), NEW r, NEW n \in Nat, NEW m \in Nat, NEW A,
           Longer(s, t, n, m, r), Covers(s, t, n, A)
    PROVE  Covers(r, t, m, A)
<1> SUFFICES ASSUME NEW j \in 1..Len(t), j <= m, t[j] \in A
             PROVE  \E i \in 1..Len(r) : r[i] = t[j]
  BY DEF Covers
<1>0. Len(s) \in Nat /\ Len(r) \in Nat /\ Len(t) \in Nat
  BY DEF Longer
<1>1. CASE j <= n
  <2>1. PICK i \in 1..Len(s) : s[i] = t[j]
    BY <1>1 DEF Covers
  <2>2. i \in 1..Len(r) /\ r[i] = s[i]
    BY <1>0 DEF Longer
  <2> QED BY <2>1, <2>2
<1>2. CASE n < j
  BY <1>2 DEF Longer
<1> QED BY <1>0, <1>1, <1>2

\* r is s followed by u.
Joined(r, s, u) ==
    /\ Len(r) = Len(s) + Len(u)
    /\ \A i \in 1..Len(s) : r[i] = s[i]
    /\ \A d \in 1..Len(u) : r[Len(s) + d] = u[d]

LEMMA ConcatAt ==
    ASSUME NEW T, NEW s \in Seq(T), NEW u \in Seq(T)
    PROVE  s \o u \in Seq(T) /\ Joined(s \o u, s, u)
<1>1. PICK r : r = s \o u
  OBVIOUS
<1>2. /\ r \in Seq(T) /\ Len(r) = Len(s) + Len(u)
      /\ \A i \in 1..(Len(s) + Len(u)) : r[i] = IF i <= Len(s) THEN s[i] ELSE u[i - Len(s)]
  BY Zenon, <1>1, ConcatProperties
<1>3. Len(s) \in Nat /\ Len(u) \in Nat
  OBVIOUS
<1>4. ASSUME NEW i \in 1..Len(s)
      PROVE  r[i] = s[i]
  BY <1>2, <1>3
<1>5. ASSUME NEW d \in 1..Len(u)
      PROVE  r[Len(s) + d] = u[d]
  <2>1. PICK i \in 1..(Len(s) + Len(u)) : i = Len(s) + d /\ ~(i <= Len(s)) /\ i - Len(s) = d
    BY <1>3
  <2> QED BY <1>2, <2>1
<1>6. Joined(r, s, u)
  BY <1>2, <1>4, <1>5 DEF Joined
<1> QED BY Zenon, <1>1, <1>2, <1>6

LEMMA SubSeqAt ==
    ASSUME NEW t \in Seq(Nat), NEW n \in Nat, NEW k \in Nat, n + 1 <= k, k <= Len(t)
    PROVE  /\ SubSeq(t, n + 1, k) \in Seq(Nat) /\ Len(SubSeq(t, n + 1, k)) = k - n
           /\ \A i \in 1..(k - n) : SubSeq(t, n + 1, k)[i] = t[n + i]
OBVIOUS

\* A page after n rows, appended to what was shown.
LEMMA PageLonger ==
    ASSUME NEW s \in Seq(Nat), NEW t \in Seq(Nat), NEW n \in Nat, NEW m \in Nat, NEW k \in Nat,
           k <= Len(t), k <= m, \A j \in 1..Len(t) : j <= m => j <= k
    PROVE  Longer(s, t, n, m, s \o SubSeq(t, n + 1, k)) /\ SubSeq(t, n + 1, k) \in Seq(Nat)
<1>0. Len(s) \in Nat /\ Len(t) \in Nat
  OBVIOUS
<1>1. PICK u : u = SubSeq(t, n + 1, k)
  OBVIOUS
<1>2. PICK r : r = s \o u
  OBVIOUS
<1>3. CASE k < n + 1
  <2>1. u = <<>>
    BY <1>1, <1>3, SubSeqEmpty
  <2>2. r = s /\ u \in Seq(Nat)
    BY <1>2, <2>1, ConcatEmptySeq
  <2>3. Longer(s, t, n, m, r)
    BY <1>0, <1>3, <2>2 DEF Longer
  <2> QED BY Zenon, <1>1, <1>2, <2>2, <2>3
<1>4. CASE n + 1 <= k
  <2>1. u \in Seq(Nat) /\ Len(u) = k - n /\ \A d \in 1..(k - n) : u[d] = t[n + d]
    BY <1>1, <1>4, SubSeqAt
  <2>2. r \in Seq(Nat) /\ Len(r) = Len(s) + Len(u)
        /\ (\A i \in 1..Len(s) : r[i] = s[i])
        /\ (\A d \in 1..Len(u) : r[Len(s) + d] = u[d])
    <3>1. r \in Seq(Nat) /\ Joined(r, s, u)
      BY Zenon, <1>2, <2>1, ConcatAt
    <3> QED BY <3>1 DEF Joined
  <2>3. \A d \in 1..(k - n) : r[Len(s) + d] = t[n + d] /\ n + d \in 1..Len(t) /\ n + d <= m
                               /\ Len(s) + d \in 1..Len(r)
    <3> SUFFICES ASSUME NEW d \in 1..(k - n)
                 PROVE  /\ r[Len(s) + d] = t[n + d] /\ n + d \in 1..Len(t) /\ n + d <= m
                        /\ Len(s) + d \in 1..Len(r)
      OBVIOUS
    <3>1. d \in 1..Len(u)
      BY <2>1
    <3>2. r[Len(s) + d] = u[d] /\ u[d] = t[n + d]
      BY <2>1, <2>2, <3>1
    <3>3. d \in Int /\ 1 <= d /\ d <= k - n
      OBVIOUS
    <3>4. n + d \in 1..Len(t)
      BY <1>0, <3>3
    <3>5. n + d <= m
      BY <3>3
    <3>6. Len(r) = Len(s) + (k - n)
      BY <2>1, <2>2
    <3>7. Len(s) + d \in 1..Len(r)
      BY <1>0, <3>3, <3>6
    <3> QED BY <3>2, <3>4, <3>5, <3>7
  <2>4. ASSUME NEW i \in 1..Len(r), Len(s) < i
        PROVE  n + (i - Len(s)) \in 1..Len(t) /\ n + (i - Len(s)) <= m
               /\ r[i] = t[n + (i - Len(s))]
    <3>1. i - Len(s) \in 1..(k - n) /\ Len(s) + (i - Len(s)) = i
      BY <1>0, <1>4, <2>1, <2>2, <2>4
    <3> QED BY <2>3, <3>1
  <2>5. ASSUME NEW j \in 1..Len(t), n < j, j <= m
        PROVE  Len(s) + (j - n) \in 1..Len(r) /\ r[Len(s) + (j - n)] = t[j]
    <3>1. j - n \in 1..(k - n) /\ n + (j - n) = j
      BY <1>0, <1>4, <2>5
    <3> QED BY <2>3, <3>1
  <2>6. Len(s) <= Len(r)
    BY <1>0, <1>4, <2>1, <2>2
  <2>7. Longer(s, t, n, m, r)
    BY <2>2, <2>4, <2>5, <2>6 DEF Longer
  <2> QED BY Zenon, <1>1, <1>2, <2>1, <2>7
<1> QED BY <1>3, <1>4

\* r is t without its i-th place: what follows moves up.
WithoutPlace(r, t, i) ==
    /\ Len(r) = Len(t) - 1
    /\ \A j \in 1..Len(r) : IF j < i THEN r[j] = t[j] ELSE r[j] = t[j + 1]

LEMMA RemovedAt ==
    ASSUME NEW T, NEW t \in Seq(T), NEW i \in 1..Len(t)
    PROVE  Pages!RemoveAt(t, i) \in Seq(T) /\ WithoutPlace(Pages!RemoveAt(t, i), t, i)
<1>0. Len(t) \in Nat /\ i \in Int
  OBVIOUS
<1>1. PICK a : a = SubSeq(t, 1, i - 1)
  OBVIOUS
<1>2. PICK b : b = SubSeq(t, i + 1, Len(t))
  OBVIOUS
<1>3. a \in Seq(T) /\ Len(a) = i - 1 /\ \A j \in 1..(i - 1) : a[j] = t[j]
  <2>1. \A j \in 1..(i - 1) : t[j] \in T
    BY <1>0
  <2>2. 1 \in Int /\ i - 1 \in Int
    BY <1>0
  <2> QED BY <1>0, <1>1, <2>1
<1>4. b \in Seq(T) /\ Len(b) = Len(t) - i /\ \A j \in 1..(Len(t) - i) : b[j] = t[i + j]
  BY <1>0, <1>2
<1>5. PICK r : r = a \o b
  OBVIOUS
<1>6. r = Pages!RemoveAt(t, i)
  BY Zenon, <1>1, <1>2, <1>5 DEF Pages!RemoveAt
<1>j. r \in Seq(T) /\ Joined(r, a, b)
  BY Zenon, <1>3, <1>4, <1>5, ConcatAt
<1>7. r \in Seq(T) /\ Len(r) = Len(t) - 1
  BY <1>0, <1>3, <1>4, <1>j DEF Joined
<1>8. ASSUME NEW j \in 1..Len(r)
      PROVE  IF j < i THEN r[j] = t[j] ELSE r[j] = t[j + 1]
  <2>0. j \in 1..(Len(t) - 1)
    BY <1>7
  <2>1. CASE j < i
    <3>1. j \in 1..Len(a)
      BY <1>0, <1>3, <2>0, <2>1
    <3>2. r[j] = a[j]
      BY <1>j, <3>1 DEF Joined
    <3>3. a[j] = t[j]
      BY <1>0, <1>3, <2>0, <2>1
    <3> QED BY <2>1, <3>2, <3>3
  <2>2. CASE ~(j < i)
    <3>1. PICK d \in 1..Len(b) : Len(a) + d = j /\ i + d = j + 1
      <4>1. j - (i - 1) \in 1..Len(b)
        BY <1>0, <1>4, <2>0, <2>2
      <4>2. Len(a) + (j - (i - 1)) = j /\ i + (j - (i - 1)) = j + 1
        BY <1>0, <1>3, <2>0
      <4> QED BY <4>1, <4>2
    <3>2. r[Len(a) + d] = b[d]
      BY <1>j DEF Joined
    <3>3. b[d] = t[i + d]
      BY <1>4
    <3> QED BY <2>2, <3>1, <3>2, <3>3
  <2> QED BY <2>1, <2>2
<1>9. WithoutPlace(r, t, i)
  BY <1>7, <1>8 DEF WithoutPlace
<1> QED BY Zenon, <1>6, <1>7, <1>9

LEMMA Before ==
    ASSUME NEW j \in Int, NEW k \in Int, NEW l \in Int, NEW p \in Int, j < k,
           l = j \/ l = j + 1, p = k \/ p = k + 1, l = j + 1 => p = k + 1
    PROVE  l < p
OBVIOUS

LEMMA RemovedDesc ==
    ASSUME NEW t \in Seq(Nat), NEW r \in Seq(Nat), NEW i \in 1..Len(t), WithoutPlace(r, t, i),
           Desc(t)
    PROVE  Desc(r)
<1> SUFFICES ASSUME NEW j \in 1..Len(r), NEW k \in 1..Len(r), j < k PROVE r[j] > r[k]
  BY DEF Desc
<1>0. Len(t) \in Nat /\ Len(r) = Len(t) - 1 /\ i \in Int /\ j \in Int /\ k \in Int
  BY DEF WithoutPlace
<1>1. PICK l \in 1..Len(t) : r[j] = t[l] /\ ((l = j /\ j < i) \/ (l = j + 1 /\ ~(j < i)))
  <2>1. j \in 1..Len(t) /\ j + 1 \in 1..Len(t)
    BY <1>0
  <2> QED BY <2>1 DEF WithoutPlace
<1>2. PICK p \in 1..Len(t) : r[k] = t[p] /\ ((p = k /\ k < i) \/ (p = k + 1 /\ ~(k < i)))
  <2>1. k \in 1..Len(t) /\ k + 1 \in 1..Len(t)
    BY <1>0
  <2> QED BY <2>1 DEF WithoutPlace
<1>3. l < p
  <2>1. l \in Int /\ p \in Int
    OBVIOUS
  <2>2. l = j + 1 => p = k + 1
    <3>1. l = j + 1 => ~(j < i)
      BY <1>0, <1>1
    <3>2. ~(j < i) => ~(k < i)
      BY <1>0
    <3> QED BY <1>2, <3>1, <3>2
  <2>3. (l = j \/ l = j + 1) /\ (p = k \/ p = k + 1)
    BY <1>1, <1>2
  <2> QED BY <1>0, <2>1, <2>2, <2>3, Before
<1> QED BY <1>1, <1>2, <1>3 DEF Desc

LEMMA RemovedAbove ==
    ASSUME NEW s, NEW t \in Seq(Nat), NEW r \in Seq(Nat), NEW i \in 1..Len(t), NEW n \in Nat,
           WithoutPlace(r, t, i), Above(s, t, n)
    PROVE  Above(s, r, n)
<1> SUFFICES ASSUME NEW k \in 1..Len(s), NEW j \in 1..Len(r), n < j PROVE s[k] > r[j]
  BY DEF Above
<1>0. Len(t) \in Nat /\ Len(r) = Len(t) - 1 /\ i \in Int /\ j \in Int
  BY DEF WithoutPlace
<1>1. j \in 1..Len(t) /\ j + 1 \in 1..Len(t) /\ n < j + 1
  BY <1>0
<1>2. r[j] = t[j] \/ r[j] = t[j + 1]
  BY DEF WithoutPlace
<1> QED BY <1>1, <1>2 DEF Above

\* r is t with x before it: what follows moves down.
WithFirst(r, x, t) ==
    /\ Len(r) = Len(t) + 1 /\ r[1] = x
    /\ \A j \in 1..Len(t) : r[j + 1] = t[j]

LEMMA InsertedAt ==
    ASSUME NEW T, NEW t \in Seq(T), NEW x \in T
    PROVE  <<x>> \o t \in Seq(T) /\ WithFirst(<<x>> \o t, x, t)
BY OneSegment, ConcatProperties DEF WithFirst

LEMMA InsertedDesc ==
    ASSUME NEW t \in Seq(Nat), NEW r \in Seq(Nat), NEW x \in Nat, WithFirst(r, x, t),
           Desc(t), \A j \in 1..Len(t) : t[j] < x
    PROVE  Desc(r)
<1> SUFFICES ASSUME NEW j \in 1..Len(r), NEW k \in 1..Len(r), j < k PROVE r[j] > r[k]
  BY DEF Desc
<1>0. Len(t) \in Nat /\ Len(r) = Len(t) + 1 /\ r[1] = x /\ j \in Int /\ k \in Int
  BY DEF WithFirst
<1>1. PICK p \in 1..Len(t) : p + 1 = k
  BY <1>0
<1>2. r[p + 1] = t[p]
  BY DEF WithFirst
<1>3. CASE j = 1
  BY <1>0, <1>1, <1>2, <1>3
<1>4. CASE j # 1
  <2>1. PICK q \in 1..Len(t) : q + 1 = j
    BY <1>0, <1>4
  <2>2. r[q + 1] = t[q]
    BY DEF WithFirst
  <2>3. q < p
    BY <1>0, <1>1, <2>1
  <2>4. t[q] > t[p]
    BY <2>3 DEF Desc
  <2> QED BY <1>1, <1>2, <2>1, <2>2, <2>4
<1> QED BY <1>3, <1>4

LEMMA InsertedCovers ==
    ASSUME NEW s, NEW t \in Seq(Nat), NEW r \in Seq(Nat), NEW x \in Nat, NEW n \in Nat, NEW A,
           WithFirst(r, x, t), Covers(s, t, n, A), x \notin A
    PROVE  Covers(s, r, n, A)
<1> SUFFICES ASSUME NEW j \in 1..Len(r), j <= n, r[j] \in A
             PROVE  \E i \in 1..Len(s) : s[i] = r[j]
  BY DEF Covers
<1>0. Len(t) \in Nat /\ Len(r) = Len(t) + 1 /\ r[1] = x /\ j \in Int
  BY DEF WithFirst
<1>1. j # 1
  BY <1>0
<1>2. PICK p \in 1..Len(t) : p + 1 = j
  BY <1>0, <1>1
<1>3. r[p + 1] = t[p] /\ p <= n
  BY <1>2 DEF WithFirst
<1> QED BY <1>2, <1>3 DEF Covers

\* The pages up to the last hold everything.
LEMMA LastPageReached ==
    ASSUME NEW page \in Nat, NEW total \in Nat, ~(page < Pages!LastPage(total))
    PROVE  total <= page * Limit
<1> DEFINE n == total + Limit - 1  q == n \div Limit
<1>0. Limit \in Nat \ {0} /\ n \in Nat
  BY BackOfficeAssumption
<1>1. q \in Nat /\ n < (q + 1) * Limit
  BY <1>0
<1>2. q <= page
  BY <1>0, <1>1 DEF Pages!LastPage
<1>3. q * Limit <= page * Limit
  BY <1>0, <1>1, <1>2
<1>4. (q + 1) * Limit = q * Limit + Limit /\ q * Limit \in Nat /\ page * Limit \in Nat
  BY <1>0, <1>1
<1> QED BY <1>0, <1>1, <1>3, <1>4

Reader == [pc: {"ask", "answer", "done"}, page: Nat \ {0}, total: Nat, part: Seq(Pages!RowId),
           shown: Seq(Pages!RowId), start: SUBSET Pages!RowId]

\* The rows before page p.
From(p) == (p - 1) * Limit

\* The rows a client has got, and how many places they stand for: a page that is
\* read before the count is got before it is shown.
Got == client.pc = "answer" /\ ~countFirst
Seen == IF Got THEN client.shown \o client.part ELSE client.shown
ReadTo == IF Got THEN client.page * Limit ELSE From(client.page)

\* s has everything in A.
Shows(s, A) == \A x \in A : \E i \in 1..Len(s) : s[i] = x

\* What s, read from the first n places of t, is good for: nothing comes twice
\* unless rows came (g), nothing of A is missed unless rows went (h).
SoFar(s, t, n, A, g, h) ==
    /\ ~g => Desc(s) /\ Above(s, t, n)
    /\ ~h => Covers(s, t, n, A)

RowsOrdered ==
    /\ Desc(rows)
    /\ \A i \in 1..Len(rows) : rows[i] <= born
    /\ client.start \subseteq 1..born

SoFarRight == client.pc # "done" => SoFar(Seen, rows, ReadTo, client.start, grown, shrunk)

StartKept == client.pc # "done" /\ ~shrunk => Shows(rows, client.start)

CountRight ==
    client.pc = "answer" /\ countFirst /\ ~shrunk /\ ~overtaken => client.total = Len(rows)

AllShown ==
    client.pc = "done" =>
        /\ ~grown => Desc(client.shown)
        /\ ~shrunk /\ ~overtaken => Shows(client.shown, client.start)

PageInv == Pages!TypeOK /\ RowsOrdered /\ SoFarRight /\ StartKept /\ CountRight /\ AllShown

LEMMA RowSeqs == ASSUME NEW s \in Seq(Pages!RowId) PROVE s \in Seq(Nat)
BY BackOfficeAssumption DEF Pages!RowId

LEMMA PageTyped ==
    ASSUME Pages!TypeOK
    PROVE  /\ rows \in Seq(Pages!RowId) /\ rows \in Seq(Nat) /\ born \in 0..MaxRows
           /\ client \in Reader
           /\ client.pc \in {"ask", "answer", "done"} /\ client.page \in Nat \ {0}
           /\ client.total \in Nat
           /\ client.part \in Seq(Pages!RowId) /\ client.shown \in Seq(Pages!RowId)
           /\ client.part \in Seq(Nat) /\ client.shown \in Seq(Nat)
           /\ client.start \in SUBSET Pages!RowId
           /\ countFirst \in BOOLEAN /\ grown \in BOOLEAN /\ shrunk \in BOOLEAN
           /\ overtaken \in BOOLEAN
<1>1. /\ rows \in Seq(Pages!RowId) /\ born \in 0..MaxRows /\ client \in Reader
      /\ countFirst \in BOOLEAN /\ grown \in BOOLEAN /\ shrunk \in BOOLEAN
      /\ overtaken \in BOOLEAN
  BY DEF Pages!TypeOK, Reader
<1>2. /\ client.pc \in {"ask", "answer", "done"} /\ client.page \in Nat \ {0}
      /\ client.total \in Nat
      /\ client.part \in Seq(Pages!RowId) /\ client.shown \in Seq(Pages!RowId)
      /\ client.start \in SUBSET Pages!RowId
  BY <1>1 DEF Reader
<1> QED BY <1>1, <1>2, RowSeqs

LEMMA Places ==
    ASSUME NEW p \in Nat \ {0}
    PROVE  /\ From(p) \in Nat /\ p * Limit \in Nat /\ From(p) <= p * Limit
           /\ From(p + 1) = p * Limit
<1>0. Limit \in Nat
  BY BackOfficeAssumption
<1>1. p - 1 \in Nat /\ (p + 1) - 1 = p
  OBVIOUS
<1>2. (p - 1) * Limit \in Nat /\ p * Limit \in Nat
  BY <1>0, <1>1
<1>3. p * Limit = (p - 1) * Limit + Limit
  BY <1>0, <1>1
<1>4. From(p + 1) = p * Limit
  BY <1>1 DEF From
<1> QED BY <1>0, <1>2, <1>3, <1>4 DEF From

LEMMA PageInit == Pages!Init => PageInv
<1> SUFFICES ASSUME Pages!Init PROVE PageInv
  OBVIOUS
<1>1. /\ born \in 0..MaxRows /\ rows = [i \in 1..born |-> born + 1 - i]
      /\ countFirst \in BOOLEAN /\ grown = FALSE /\ shrunk = FALSE /\ overtaken = FALSE
      /\ client = [pc |-> "ask", page |-> 1, total |-> 0, part |-> <<>>, shown |-> <<>>,
                   start |-> 1..born]
  BY DEF Pages!Init
<1>2. MaxRows \in Nat /\ born \in Nat /\ born <= MaxRows
  BY <1>1, BackOfficeAssumption
<1>3. /\ rows \in Seq(Pages!RowId) /\ Len(rows) = born
      /\ \A i \in 1..born : rows[i] = born + 1 - i
  BY <1>1, <1>2 DEF Pages!RowId
<1>4. /\ client.pc = "ask" /\ client.page = 1 /\ client.shown = <<>> /\ client.start = 1..born
      /\ client \in Reader
  BY <1>1, <1>2 DEF Reader, Pages!RowId
<1>5. Pages!TypeOK
  BY <1>1, <1>3, <1>4 DEF Pages!TypeOK, Reader
<1>6. Desc(rows) /\ \A i \in 1..Len(rows) : rows[i] <= born
  BY <1>2, <1>3 DEF Desc
<1>7. Shows(rows, 1..born)
  <2> SUFFICES ASSUME NEW x \in 1..born PROVE \E i \in 1..born : rows[i] = x
    BY <1>3 DEF Shows
  <2>1. born + 1 - x \in 1..born /\ born + 1 - (born + 1 - x) = x
    BY <1>2
  <2> QED BY <1>3, <2>1
<1>8. RowsOrdered /\ StartKept /\ CountRight /\ AllShown
  BY <1>4, <1>6, <1>7 DEF RowsOrdered, StartKept, CountRight, AllShown
<1>9. SoFarRight
  <2>1. ~Got /\ Seen = <<>>
    BY <1>4 DEF Got, Seen
  <2>2. ReadTo = 0
    BY <1>4, <2>1, BackOfficeAssumption DEF ReadTo, From
  <2>3. SoFar(<<>>, rows, 0, client.start, grown, shrunk)
    BY DEF SoFar, Desc, Above, Covers
  <2> QED BY <2>1, <2>2, <2>3 DEF SoFarRight
<1> QED BY <1>5, <1>8, <1>9 DEF PageInv

\* One more page leaves it so, further on.
LEMMA PageRead ==
    ASSUME NEW s \in Seq(Nat), NEW t \in Seq(Nat), NEW p \in Nat \ {0}, NEW A, NEW g, NEW h,
           Desc(t), SoFar(s, t, From(p), A, g, h), NEW u,
           u = SubSeq(t, From(p) + 1, IF p * Limit < Len(t) THEN p * Limit ELSE Len(t))
    PROVE  SoFar(s \o u, t, p * Limit, A, g, h) /\ s \o u \in Seq(Nat)
<1>0. From(p) \in Nat /\ p * Limit \in Nat /\ From(p) <= p * Limit /\ Len(t) \in Nat
  BY Places
<1>1. PICK m \in Nat : m = p * Limit
  BY <1>0
<1>2. PICK k \in Nat : k = IF m < Len(t) THEN m ELSE Len(t)
  BY <1>0
<1>3. k <= Len(t) /\ k <= m /\ \A j \in 1..Len(t) : j <= m => j <= k
  BY <1>0, <1>2
<1>4. u = SubSeq(t, From(p) + 1, k)
  BY Zenon, <1>1, <1>2
<1>5. PICK n \in Nat : n = From(p)
  BY <1>0
<1>6. PICK r : r = s \o u
  OBVIOUS
<1>7. Longer(s, t, n, m, r)
  BY Zenon, <1>3, <1>4, <1>5, <1>6, PageLonger
<1>8. n <= m
  BY <1>0, <1>1, <1>5
<1>9. SoFar(s, t, n, A, g, h)
  BY Zenon, <1>5
<1>10. r \in Seq(Nat)
  BY <1>7 DEF Longer
<1>11. SoFar(r, t, m, A, g, h)
  BY <1>7, <1>8, <1>9, LongerDesc, LongerAbove, LongerCovers DEF SoFar
<1> QED BY Zenon, <1>1, <1>6, <1>10, <1>11

LEMMA PageOfRows ==
    ASSUME NEW T, NEW t \in Seq(T), NEW n \in Nat, NEW k \in Nat, k <= Len(t)
    PROVE  SubSeq(t, n + 1, k) \in Seq(T)
<1>1. CASE n + 1 <= k
  <2>1. \A i \in (n + 1)..k : t[i] \in T
    <3>1. \A i \in (n + 1)..k : i \in 1..Len(t)
      OBVIOUS
    <3> QED BY <3>1
  <2>2. n + 1 \in Int /\ k \in Int
    OBVIOUS
  <2> QED BY <2>1, <2>2, SubSeqProperties
<1>2. CASE k < n + 1
  <2>1. SubSeq(t, n + 1, k) = <<>>
    BY <1>2, SubSeqEmpty
  <2> QED BY <2>1
<1> QED BY <1>1, <1>2

LEMMA PageTypedAs ==
    ASSUME Pages!TypeOK, NEW p \in Nat \ {0}
    PROVE  Pages!Page(p) \in Seq(Pages!RowId)
<1>0. /\ From(p) \in Nat /\ p * Limit \in Nat
      /\ rows \in Seq(Pages!RowId) /\ Len(rows) \in Nat
  <2>1. From(p) \in Nat /\ p * Limit \in Nat
    BY Places
  <2>2. rows \in Seq(Pages!RowId)
    BY PageTyped
  <2>3. Len(rows) \in Nat
    BY <2>2
  <2> QED BY <2>1, <2>2, <2>3
<1>1. PICK k \in Nat : k = IF p * Limit < Len(rows) THEN p * Limit ELSE Len(rows)
  BY <1>0
<1>2. PICK n \in Nat : n = From(p)
  BY <1>0
<1>3. k <= Len(rows)
  BY <1>0, <1>1
<1>4. SubSeq(rows, n + 1, k) \in Seq(Pages!RowId)
  BY <1>0, <1>3, PageOfRows
<1> QED BY Zenon, <1>1, <1>2, <1>4 DEF Pages!Page, From

\* The first query.
LEMMA AskKeeps == ASSUME PageInv, Pages!AskPage PROVE PageInv'
<1>0. Pages!TypeOK /\ RowsOrdered /\ SoFarRight /\ StartKept
  BY DEF PageInv
<1>1. client.pc = "ask"
      /\ UNCHANGED <<rows, born, countFirst, grown, shrunk, overtaken>>
  BY DEF Pages!AskPage
<1>2. ~Got /\ Seen = client.shown /\ ReadTo = From(client.page)
  BY <1>1 DEF Got, Seen, ReadTo
<1>3. SoFar(client.shown, rows, From(client.page), client.start, grown, shrunk)
  BY <1>0, <1>1, <1>2 DEF SoFarRight
<1>4. CASE countFirst
  <2>1. client' = [client EXCEPT !.pc = "answer", !.total = Len(rows)]
    BY <1>4 DEF Pages!AskPage
  <2>2. /\ client' \in Reader /\ client'.pc = "answer" /\ client'.page = client.page
        /\ client'.shown = client.shown /\ client'.start = client.start
        /\ client'.total = Len(rows)
    <3>1. client \in Reader /\ Len(rows) \in Nat
      BY <1>0, PageTyped
    <3> QED BY <2>1, <3>1 DEF Reader
  <2>3. Pages!TypeOK'
    BY <1>0, <1>1, <2>2 DEF Pages!TypeOK, Reader
  <2>4. ~Got' /\ Seen' = client.shown /\ ReadTo' = From(client.page)
    BY <1>1, <1>4, <2>2 DEF Got, Seen, ReadTo, From
  <2>5. SoFarRight'
    BY <1>1, <1>3, <2>2, <2>4 DEF SoFarRight
  <2>6. RowsOrdered' /\ StartKept' /\ CountRight' /\ AllShown'
    BY <1>0, <1>1, <2>2 DEF RowsOrdered, StartKept, CountRight, AllShown
  <2> QED BY <2>3, <2>5, <2>6 DEF PageInv
<1>5. CASE ~countFirst
  <2>0. client.page \in Nat \ {0} /\ client \in Reader /\ client.shown \in Seq(Nat)
        /\ rows \in Seq(Nat)
    BY <1>0, PageTyped
  <2>1. client' = [client EXCEPT !.pc = "answer", !.part = Pages!Page(client.page)]
    BY <1>5 DEF Pages!AskPage
  <2>2. PICK u : u = Pages!Page(client.page)
    OBVIOUS
  <2>3. u \in Seq(Pages!RowId)
    BY <1>0, <2>0, <2>2, PageTypedAs
  <2>4. /\ client' \in Reader /\ client'.pc = "answer" /\ client'.page = client.page
        /\ client'.shown = client.shown /\ client'.start = client.start /\ client'.part = u
    BY <2>0, <2>1, <2>2, <2>3 DEF Reader
  <2>5. Pages!TypeOK'
    BY <1>0, <1>1, <2>4 DEF Pages!TypeOK, Reader
  <2>6. Got' /\ Seen' = client.shown \o u /\ ReadTo' = client.page * Limit
    BY <1>1, <1>5, <2>4 DEF Got, Seen, ReadTo
  <2>7. SoFar(client.shown \o u, rows, client.page * Limit, client.start, grown, shrunk)
    <3>1. u = SubSeq(rows, From(client.page) + 1,
                     IF client.page * Limit < Len(rows) THEN client.page * Limit ELSE Len(rows))
      BY Zenon, <2>2 DEF Pages!Page, From
    <3>2. Desc(rows)
      BY <1>0 DEF RowsOrdered
    <3> QED BY Zenon, <1>3, <2>0, <3>1, <3>2, PageRead
  <2>8. SoFarRight'
    BY <1>1, <2>4, <2>6, <2>7 DEF SoFarRight
  <2>9. RowsOrdered' /\ StartKept' /\ CountRight' /\ AllShown'
    BY <1>0, <1>1, <1>5, <2>4 DEF RowsOrdered, StartKept, CountRight, AllShown
  <2> QED BY <2>5, <2>8, <2>9 DEF PageInv
<1> QED BY <1>4, <1>5

\* A last page leaves nothing out.
LEMMA AllCovered ==
    ASSUME NEW s \in Seq(Nat), NEW t \in Seq(Nat), NEW n \in Nat, NEW A, Len(t) <= n,
           Covers(s, t, n, A), Shows(t, A)
    PROVE  Shows(s, A)
<1> SUFFICES ASSUME NEW x \in A PROVE \E i \in 1..Len(s) : s[i] = x
  BY DEF Shows
<1>1. PICK j \in 1..Len(t) : t[j] = x
  BY DEF Shows
<1>2. j <= n
  OBVIOUS
<1> QED BY <1>1, <1>2 DEF Covers

\* The second query.
LEMMA AnswerKeeps == ASSUME PageInv, Pages!AnswerPage PROVE PageInv'
<1>0. Pages!TypeOK /\ RowsOrdered /\ SoFarRight /\ StartKept /\ CountRight
  BY DEF PageInv
<1> DEFINE total == IF countFirst THEN client.total ELSE Len(rows)
           part == IF countFirst THEN Pages!Page(client.page) ELSE client.part
<1>1. /\ client.pc = "answer"
      /\ UNCHANGED <<rows, born, countFirst, grown, shrunk, overtaken>>
      /\ client' = [client EXCEPT
                        !.pc = IF client.page < Pages!LastPage(total) THEN "ask" ELSE "done",
                        !.page = @ + 1, !.total = 0, !.part = <<>>, !.shown = @ \o part]
  BY DEF Pages!AnswerPage
<1>2. /\ client.page \in Nat \ {0} /\ client \in Reader /\ client.shown \in Seq(Nat)
      /\ client.shown \in Seq(Pages!RowId) /\ client.part \in Seq(Pages!RowId)
      /\ rows \in Seq(Nat) /\ Len(rows) \in Nat /\ client.total \in Nat
      /\ countFirst \in BOOLEAN /\ grown \in BOOLEAN /\ shrunk \in BOOLEAN
  BY <1>0, PageTyped
<1>3. part \in Seq(Pages!RowId)
  BY <1>0, <1>2, PageTypedAs
<1>4. PICK r : r = client.shown \o part
  OBVIOUS
<1>5. r \in Seq(Pages!RowId)
  BY Zenon, <1>2, <1>3, <1>4, ConcatAt
<1>6. SoFar(r, rows, client.page * Limit, client.start, grown, shrunk)
  <2>1. CASE countFirst
    <3>1. SoFar(client.shown, rows, From(client.page), client.start, grown, shrunk)
      BY <1>0, <1>1, <2>1 DEF SoFarRight, Got, Seen, ReadTo
    <3>2. PICK u : u = Pages!Page(client.page)
      OBVIOUS
    <3>3. u = SubSeq(rows, From(client.page) + 1,
                     IF client.page * Limit < Len(rows) THEN client.page * Limit ELSE Len(rows))
      BY Zenon, <3>2 DEF Pages!Page, From
    <3>4. Desc(rows)
      BY <1>0 DEF RowsOrdered
    <3>5. SoFar(client.shown \o u, rows, client.page * Limit, client.start, grown, shrunk)
      BY Zenon, <1>2, <3>1, <3>3, <3>4, PageRead
    <3> QED BY Zenon, <1>4, <2>1, <3>2, <3>5
  <2>2. CASE ~countFirst
    <3>1. Got /\ Seen = client.shown \o client.part /\ ReadTo = client.page * Limit
      BY <1>1, <2>2 DEF Got, Seen, ReadTo
    <3>2. r = Seen
      BY <1>4, <2>2, <3>1
    <3> QED BY <1>0, <1>1, <3>1, <3>2 DEF SoFarRight
  <2> QED BY <1>2, <2>1, <2>2
<1>7. total \in Nat /\ (~shrunk /\ ~overtaken => total = Len(rows))
  BY <1>0, <1>1, <1>2 DEF CountRight
<1>8. PICK k \in Nat : k = total
  BY <1>7
<1>9. PICK q \in {"ask", "done"} :
          q = IF client.page < Pages!LastPage(k) THEN "ask" ELSE "done"
  OBVIOUS
<1>10. client' = [client EXCEPT !.pc = q, !.page = @ + 1, !.total = 0, !.part = <<>>, !.shown = r]
  BY Zenon, <1>1, <1>4, <1>8, <1>9
<1> HIDE DEF total, part
<1>11. /\ client' \in Reader /\ client'.pc = q /\ client'.page = client.page + 1
       /\ client'.shown = r /\ client'.start = client.start
  <2>1. PICK w \in Nat \ {0} : w = client.page + 1
    BY <1>2
  <2>2. client' = [client EXCEPT !.pc = q, !.page = w, !.total = 0, !.part = <<>>, !.shown = r]
    BY <1>2, <1>10, <2>1 DEF Reader
  <2>3. <<>> \in Seq(Pages!RowId) /\ 0 \in Nat /\ q \in {"ask", "answer", "done"}
    OBVIOUS
  <2>4. /\ client' \in Reader /\ client'.pc = q /\ client'.page = w
        /\ client'.shown = r /\ client'.start = client.start
    BY <1>2, <1>5, <2>2, <2>3 DEF Reader
  <2> QED BY <2>1, <2>4
<1>12. Pages!TypeOK'
  BY <1>0, <1>1, <1>11 DEF Pages!TypeOK, Reader
<1>13. RowsOrdered' /\ StartKept' /\ CountRight'
  BY <1>0, <1>1, <1>9, <1>11 DEF RowsOrdered, StartKept, CountRight
<1>14. SoFarRight'
  <2>1. ~Got' /\ Seen' = r
    BY <1>9, <1>11 DEF Got, Seen
  <2>2. ReadTo' = From(client.page + 1)
    BY <1>11, <2>1 DEF ReadTo, From
  <2>3. ReadTo' = client.page * Limit
    BY Zenon, <1>2, <2>2, Places
  <2>4. SoFar(Seen', rows, ReadTo', client.start, grown, shrunk)
    BY Zenon, <1>6, <2>1, <2>3
  <2> QED BY <1>1, <1>11, <2>4 DEF SoFarRight
<1>15. AllShown'
  <2>1. ~grown => Desc(r)
    BY <1>6 DEF SoFar
  <2>2. ASSUME q = "done", ~shrunk, ~overtaken
        PROVE  Shows(r, client.start)
    <3>1. ~(client.page < Pages!LastPage(k))
      BY <1>9, <2>2
    <3>2. k <= client.page * Limit /\ client.page * Limit \in Nat
      BY <1>2, <3>1, LastPageReached, Places
    <3>3. Len(rows) <= client.page * Limit
      BY <1>7, <1>8, <2>2, <3>2
    <3>4. Covers(r, rows, client.page * Limit, client.start)
      BY <1>6, <2>2 DEF SoFar
    <3>5. Shows(rows, client.start)
      BY <1>0, <1>1, <2>2 DEF StartKept
    <3>6. r \in Seq(Nat)
      BY <1>5, RowSeqs
    <3> QED BY Zenon, <1>2, <3>2, <3>3, <3>4, <3>5, <3>6, AllCovered
  <2> QED BY <1>1, <1>11, <2>1, <2>2 DEF AllShown
<1> QED BY <1>12, <1>13, <1>14, <1>15 DEF PageInv

\* A row comes, the newest.
LEMMA InsertRowKeeps == ASSUME PageInv, Pages!InsertRow PROVE PageInv'
<1>0. Pages!TypeOK /\ RowsOrdered /\ SoFarRight /\ StartKept /\ CountRight
  BY DEF PageInv
<1>1. /\ Pages!Reading /\ born < MaxRows /\ born' = born + 1
      /\ rows' = <<born + 1>> \o rows /\ grown' = TRUE
      /\ overtaken' = (overtaken \/ (countFirst /\ client.pc = "answer"))
      /\ UNCHANGED <<countFirst, client, shrunk>>
  BY DEF Pages!InsertRow
<1>2. client.pc # "done"
  BY <1>1 DEF Pages!Reading
<1>3. /\ rows \in Seq(Pages!RowId) /\ rows \in Seq(Nat) /\ born \in Nat /\ Len(rows) \in Nat
      /\ client \in Reader /\ overtaken \in BOOLEAN /\ countFirst \in BOOLEAN
      /\ client.start \in SUBSET Pages!RowId /\ MaxRows \in Nat
      /\ client.shown \in Seq(Nat) /\ client.part \in Seq(Nat) /\ client.page \in Nat \ {0}
  BY <1>0, PageTyped, BackOfficeAssumption
<1>4. PICK x \in Pages!RowId : x = born + 1
  BY <1>1, <1>3 DEF Pages!RowId
<1>5. rows' \in Seq(Pages!RowId) /\ WithFirst(rows', x, rows)
  BY Zenon, <1>1, <1>3, <1>4, InsertedAt
<1>6. rows' \in Seq(Nat) /\ x \in Nat /\ Len(rows') = Len(rows) + 1
  BY <1>3, <1>4, <1>5, RowSeqs DEF WithFirst
<1>7. overtaken' \in BOOLEAN /\ (client.pc = "answer" /\ countFirst => overtaken')
  BY Zenon, <1>1, <1>3
<1>8. Pages!TypeOK'
  BY <1>0, <1>1, <1>3, <1>5, <1>7 DEF Pages!TypeOK, Reader
<1>9. Desc(rows) /\ (\A i \in 1..Len(rows) : rows[i] <= born) /\ client.start \subseteq 1..born
  BY <1>0 DEF RowsOrdered
<1>10. \A i \in 1..Len(rows) : rows[i] \in Nat /\ rows[i] < x
  BY <1>3, <1>4, <1>9
<1>11. Desc(rows')
  BY <1>3, <1>5, <1>6, <1>9, <1>10, InsertedDesc
<1>12. \A i \in 1..Len(rows') : rows'[i] <= born'
  <2> SUFFICES ASSUME NEW i \in 1..Len(rows') PROVE rows'[i] <= born'
    OBVIOUS
  <2>1. CASE i = 1
    BY <1>1, <1>3, <1>4, <1>5, <2>1 DEF WithFirst
  <2>2. CASE i # 1
    <3>1. PICK j \in 1..Len(rows) : j + 1 = i
      <4>1. i - 1 \in 1..Len(rows) /\ (i - 1) + 1 = i
        BY <1>3, <1>6, <2>2
      <4> QED BY <4>1
    <3>2. rows'[j + 1] = rows[j]
      BY <1>5 DEF WithFirst
    <3> QED BY <1>1, <1>3, <1>4, <1>10, <3>1, <3>2
  <2> QED BY <2>1, <2>2
<1>13. RowsOrdered'
  <2>1. client'.start \subseteq 1..born'
    BY <1>1, <1>3, <1>9
  <2> QED BY <1>11, <1>12, <2>1 DEF RowsOrdered
<1>14. x \notin client.start
  BY <1>3, <1>4, <1>9
<1>15. Got' = Got /\ Seen' = Seen /\ ReadTo' = ReadTo /\ ReadTo \in Nat
  <2>1. Got' = Got
    BY <1>1 DEF Got
  <2>2. ReadTo \in Nat
    BY <1>3, Places DEF ReadTo
  <2> QED BY <1>1, <2>1, <2>2 DEF Seen, ReadTo, From
<1>16. SoFarRight'
  <2>1. SoFar(Seen, rows, ReadTo, client.start, grown, shrunk)
    BY <1>0, <1>2 DEF SoFarRight
  <2>2. ~shrunk => Covers(Seen, rows', ReadTo, client.start)
    <3>1. ~shrunk => Covers(Seen, rows, ReadTo, client.start)
      BY <2>1 DEF SoFar
    <3>2. PICK s : s = Seen
      OBVIOUS
    <3>3. PICK n \in Nat : n = ReadTo
      BY <1>15
    <3>4. ~shrunk => Covers(s, rows', n, client.start)
      BY Zenon, <1>3, <1>5, <1>6, <1>14, <3>1, <3>2, <3>3, InsertedCovers
    <3> QED BY Zenon, <3>2, <3>3, <3>4
  <2> QED BY <1>1, <1>15, <2>2 DEF SoFarRight, SoFar
<1>17. StartKept'
  <2> SUFFICES ASSUME ~shrunk, NEW y \in client.start
               PROVE  \E i \in 1..Len(rows') : rows'[i] = y
    BY <1>1 DEF StartKept, Shows
  <2>1. PICK j \in 1..Len(rows) : rows[j] = y
    BY <1>0, <1>2 DEF StartKept, Shows
  <2>2. rows'[j + 1] = y /\ j + 1 \in 1..Len(rows')
    BY <1>3, <1>5, <1>6, <2>1 DEF WithFirst
  <2> QED BY <2>2
<1>18. CountRight' /\ AllShown'
  BY <1>1, <1>2, <1>7 DEF CountRight, AllShown
<1> QED BY <1>8, <1>13, <1>16, <1>17, <1>18 DEF PageInv

\* A row goes.
LEMMA RemoveRowKeeps ==
    ASSUME PageInv, NEW k \in DOMAIN rows, Pages!RemoveRow(k) PROVE PageInv'
<1>0. Pages!TypeOK /\ RowsOrdered /\ SoFarRight
  BY DEF PageInv
<1>1. /\ Pages!Reading /\ rows' = Pages!RemoveAt(rows, k) /\ shrunk' = TRUE
      /\ UNCHANGED <<born, countFirst, client, grown, overtaken>>
  BY DEF Pages!RemoveRow
<1>2. client.pc # "done"
  BY <1>1 DEF Pages!Reading
<1>3. /\ rows \in Seq(Pages!RowId) /\ rows \in Seq(Nat) /\ born \in Nat /\ Len(rows) \in Nat
      /\ client.page \in Nat \ {0} /\ k \in 1..Len(rows)
  BY <1>0, PageTyped, BackOfficeAssumption
<1>4. rows' \in Seq(Pages!RowId) /\ WithoutPlace(rows', rows, k)
  BY Zenon, <1>1, <1>3, RemovedAt
<1>5. rows' \in Seq(Nat) /\ Len(rows') = Len(rows) - 1
  BY <1>4, RowSeqs DEF WithoutPlace
<1>6. Pages!TypeOK'
  BY <1>0, <1>1, <1>4 DEF Pages!TypeOK
<1>7. Desc(rows) /\ (\A i \in 1..Len(rows) : rows[i] <= born) /\ client.start \subseteq 1..born
  BY <1>0 DEF RowsOrdered
<1>8. Desc(rows')
  BY <1>3, <1>4, <1>5, <1>7, RemovedDesc
<1>9. \A i \in 1..Len(rows') : rows'[i] <= born
  <2> SUFFICES ASSUME NEW i \in 1..Len(rows') PROVE rows'[i] <= born
    OBVIOUS
  <2>1. i \in 1..Len(rows) /\ i + 1 \in 1..Len(rows)
    BY <1>3, <1>5
  <2>2. rows'[i] = rows[i] \/ rows'[i] = rows[i + 1]
    BY <1>4 DEF WithoutPlace
  <2> QED BY <1>7, <2>1, <2>2
<1>10. RowsOrdered'
  BY <1>1, <1>7, <1>8, <1>9 DEF RowsOrdered
<1>11. Got' = Got /\ Seen' = Seen /\ ReadTo' = ReadTo /\ ReadTo \in Nat
  <2>1. Got' = Got
    BY <1>1 DEF Got
  <2>2. ReadTo \in Nat
    BY <1>3, Places DEF ReadTo
  <2> QED BY <1>1, <2>1, <2>2 DEF Seen, ReadTo, From
<1>12. SoFarRight'
  <2>1. SoFar(Seen, rows, ReadTo, client.start, grown, shrunk)
    BY <1>0, <1>2 DEF SoFarRight
  <2>2. ~grown => Desc(Seen) /\ Above(Seen, rows', ReadTo)
    <3>1. ~grown => Desc(Seen) /\ Above(Seen, rows, ReadTo)
      BY <2>1 DEF SoFar
    <3>2. PICK s : s = Seen
      OBVIOUS
    <3>3. PICK n \in Nat : n = ReadTo
      BY <1>11
    <3>4. ~grown => Above(s, rows', n)
      BY Zenon, <1>3, <1>4, <1>5, <3>1, <3>2, <3>3, RemovedAbove
    <3> QED BY Zenon, <3>1, <3>2, <3>3, <3>4
  <2> QED BY <1>1, <1>11, <2>2 DEF SoFarRight, SoFar
<1>13. StartKept' /\ CountRight' /\ AllShown'
  BY <1>1, <1>2 DEF StartKept, CountRight, AllShown
<1> QED BY <1>6, <1>10, <1>12, <1>13 DEF PageInv

LEMMA PageNext == PageInv /\ [Pages!Next]_(Pages!pageVars) => PageInv'
<1> SUFFICES ASSUME PageInv, [Pages!Next]_(Pages!pageVars) PROVE PageInv'
  OBVIOUS
<1>1. CASE UNCHANGED Pages!pageVars
  BY <1>1 DEF Pages!pageVars, PageInv, Pages!TypeOK, RowsOrdered, SoFarRight, StartKept,
              CountRight, AllShown, Seen, ReadTo, Got, From
<1> QED BY <1>1, AskKeeps, AnswerKeeps, InsertRowKeeps, RemoveRowKeeps DEF Pages!Next

LEMMA PageMoves == [Next]_vars => [Pages!Next]_(Pages!pageVars)
BY DEF Next, vars, pageVars, Pages!pageVars

LEMMA PagesCoverShown == ASSUME PageInv PROVE Pages!PagesCover
<1> SUFFICES ASSUME client.pc = "done"
             PROVE  /\ shrunk \/ overtaken \/ client.start \subseteq Pages!ToSet(client.shown)
                    /\ grown \/ Pages!IsInjective(client.shown)
  BY DEF Pages!PagesCover
<1>1. client.shown \in Seq(Nat) /\ DOMAIN client.shown = 1..Len(client.shown)
  BY PageTyped DEF PageInv
<1>2. AllShown
  BY DEF PageInv
<1>3. ASSUME ~shrunk, ~overtaken
      PROVE  client.start \subseteq Pages!ToSet(client.shown)
  BY <1>1, <1>2, <1>3 DEF AllShown, Shows, Pages!ToSet
<1>4. ASSUME ~grown
      PROVE  Pages!IsInjective(client.shown)
  <2>1. Desc(client.shown)
    BY <1>2, <1>4 DEF AllShown
  <2> SUFFICES ASSUME NEW i \in 1..Len(client.shown), NEW j \in 1..Len(client.shown),
                      client.shown[i] = client.shown[j]
               PROVE  i = j
    BY <1>1 DEF Pages!IsInjective
  <2>2. client.shown[i] \in Nat /\ client.shown[j] \in Nat
    BY <1>1
  <2>3. ~(i < j) /\ ~(j < i)
    BY <2>1, <2>2 DEF Desc
  <2> QED BY <2>3
<1> QED BY <1>3, <1>4

\* A client that reads page after page to the last is shown every row that was
\* there all the time, and none of them twice, for any number of rows and any size
\* of a page, unless rows came or went as PagesCover allows.
THEOREM PagesDoCover == (Pages!Spec => []Pages!PagesCover) /\ (Spec => []PagesCover)
<1>1. Pages!PagesCover => PagesCover
  BY DEF PagesCover
<1>2. Init => Pages!Init
  BY DEF Init
<1>3. Pages!Spec => []Pages!PagesCover
  BY PagesCoverShown, PageInit, PageNext, PTL DEF Pages!Spec
<1>4. Spec => []PagesCover
  BY <1>1, <1>2, PagesCoverShown, PageInit, PageNext, PageMoves, PTL DEF Spec
<1> QED BY <1>3, <1>4

----------------------------------------------------------------------------
(* Catalogue: what was removed. *)

CatStarted == [op: {"update", "remove"}, id: Entry, seen: Cat!Row]

\* Handlers work on entries that exist, and what was removed exists, archived
\* where removing archives it, unless a stale save rewrote it.
RemovalsStay ==
    /\ \A c \in Calls : catCall[c] # Cat!Idle =>
           catCall[c].seen.exists /\ entries[catCall[c].id].exists
    /\ \A e \in gone : entries[e].exists /\ (entries[e].archived \/ rewritten)

CatInv == Cat!TypeOK /\ RemovalsStay

LEMMA CatTyped ==
    ASSUME Cat!TypeOK
    PROVE  /\ entries \in [Entry -> Cat!Row] /\ gone \in SUBSET Entry
           /\ catCall \in [Calls -> {Cat!Idle} \cup CatStarted]
           /\ \A c \in Calls : catCall[c] # Cat!Idle => catCall[c] \in CatStarted
BY DEF Cat!TypeOK, CatStarted

LEMMA CatInit == Cat!Init => CatInv
<1> SUFFICES ASSUME Cat!Init PROVE CatInv
  OBVIOUS
<1>1. Cat!NoRow \in Cat!Row
  BY DEF Cat!NoRow, Cat!Row
<1>2. /\ table \in Cat!Table /\ entries = [e \in Entry |-> Cat!NoRow]
      /\ catCall = [c \in Calls |-> Cat!Idle] /\ gone = {} /\ rewritten = FALSE
  BY DEF Cat!Init
<1> QED BY <1>1, <1>2 DEF CatInv, Cat!TypeOK, RemovalsStay

\* Entry e becomes row and call c becomes new, or neither: nothing is lost.
LEMMA CatStep ==
    ASSUME CatInv, NEW e \in Entry, NEW row \in Cat!Row, entries' = [entries EXCEPT ![e] = row],
           entries[e].exists => row.exists,
           catCall' \in [Calls -> {Cat!Idle} \cup CatStarted],
           \A c \in Calls : catCall'[c] \in {Cat!Idle, catCall[c]},
           gone' \subseteq gone \cup {e}, e \in gone' => row.exists,
           e \in gone' => row.archived \/ rewritten',
           rewritten' \in BOOLEAN, rewritten => rewritten', table' = table
    PROVE  CatInv'
<1>1. Cat!TypeOK /\ RemovalsStay
  BY DEF CatInv
<1>2. entries' \in [Entry -> Cat!Row] /\ entries'[e] = row
      /\ \A x \in Entry \ {e} : entries'[x] = entries[x]
  BY <1>1, CatTyped
<1>3. Cat!TypeOK'
  BY <1>1, <1>2, CatTyped DEF Cat!TypeOK, CatStarted
<1>4. ASSUME NEW c \in Calls, catCall'[c] # Cat!Idle
      PROVE  catCall'[c].seen.exists /\ entries'[catCall'[c].id].exists
  <2>1. catCall'[c] = catCall[c] /\ catCall[c] # Cat!Idle
    BY <1>4
  <2>2. catCall[c].id \in Entry /\ catCall[c].seen.exists /\ entries[catCall[c].id].exists
    BY <1>1, <2>1, CatTyped DEF RemovalsStay, CatStarted
  <2> QED BY <1>2, <2>1, <2>2
<1>5. ASSUME NEW x \in gone' PROVE entries'[x].exists /\ (entries'[x].archived \/ rewritten')
  <2>1. CASE x = e
    BY <1>2, <1>5, <2>1
  <2>2. CASE x # e
    <3>1. x \in gone /\ x \in Entry
      BY <1>1, <1>5, <2>2, CatTyped
    <3> QED BY <1>1, <1>2, <2>2, <3>1 DEF RemovalsStay
  <2> QED BY <2>1, <2>2
<1> QED BY <1>3, <1>4, <1>5 DEF CatInv, RemovalsStay

\* A handler that writes nothing.
LEMMA CatStays ==
    ASSUME CatInv, NEW c \in Calls, NEW new \in {Cat!Idle} \cup CatStarted,
           catCall' = [catCall EXCEPT ![c] = new],
           new # Cat!Idle => new.seen.exists /\ entries[new.id].exists,
           UNCHANGED <<table, entries, gone, rewritten>>
    PROVE  CatInv'
<1>1. catCall' \in [Calls -> {Cat!Idle} \cup CatStarted] /\ catCall'[c] = new
      /\ \A d \in Calls \ {c} : catCall'[d] = catCall[d]
  BY CatTyped DEF CatInv
<1>2. RemovalsStay'
  BY <1>1 DEF CatInv, RemovalsStay
<1> QED BY <1>1, <1>2 DEF CatInv, Cat!TypeOK, CatStarted

LEMMA CatReturn ==
    ASSUME CatInv, NEW c \in Calls, Cat!Return(c)
    PROVE  /\ catCall' \in [Calls -> {Cat!Idle} \cup CatStarted]
           /\ \A d \in Calls : catCall'[d] \in {Cat!Idle, catCall[d]}
BY CatTyped DEF CatInv, Cat!Return

LEMMA RemovedType ==
    ASSUME NEW row \in Cat!Row
    PROVE  /\ Cat!Removed(row) \in Cat!Row /\ Cat!Removed(row).archived
           /\ Cat!Removed(row).exists = row.exists
BY DEF Cat!Removed, Cat!Row

LEMMA ActiveType ==
    ASSUME NEW row \in Cat!Row, NEW active \in BOOLEAN
    PROVE  /\ [row EXCEPT !.active = active] \in Cat!Row
           /\ [row EXCEPT !.active = active].archived = row.archived
           /\ [row EXCEPT !.active = active].exists = row.exists
BY DEF Cat!Row

LEMMA CatWritesKeep ==
    ASSUME CatInv, NEW c \in Calls, NEW active \in BOOLEAN,
           Cat!WriteEntry(c, active) \/ Cat!SaveCategory(c, active)
    PROVE  CatInv'
<1> DEFINE e == catCall[c].id
           op == catCall[c].op
           seen == catCall[c].seen
           base == IF table = "categories" THEN seen ELSE entries[e]
           row == IF op = "remove" THEN Cat!Removed(base) ELSE [base EXCEPT !.active = active]
<1>1. Cat!TypeOK /\ catCall[c] \in CatStarted /\ catCall[c] # Cat!Idle
  BY CatTyped DEF CatInv, Cat!WriteEntry, Cat!SaveCategory
<1>2. /\ e \in Entry /\ seen \in Cat!Row /\ entries[e] \in Cat!Row /\ seen.exists
      /\ entries[e].exists /\ base \in Cat!Row /\ base.exists
  BY <1>1, CatTyped DEF CatInv, RemovalsStay, CatStarted
<1>3. /\ entries' = [entries EXCEPT ![e] = row] /\ table' = table
      /\ gone' = IF op = "remove" THEN gone \cup {e} ELSE gone
      /\ Cat!Return(c)
      /\ table = "categories" => (rewritten' <=> rewritten \/ entries[e] # seen)
      /\ table # "categories" => rewritten' = rewritten
  <2>1. CASE Cat!WriteEntry(c, active)
    <3>1. table # "categories" /\ base = entries[e]
      BY <2>1 DEF Cat!WriteEntry
    <3>2. entries' = [entries EXCEPT ![e] = row]
      BY <1>1, <1>2, <2>1, <3>1, CatTyped DEF Cat!WriteEntry
    <3> QED BY <2>1, <3>1, <3>2 DEF Cat!WriteEntry
  <2>2. CASE Cat!SaveCategory(c, active)
    <3>1. table = "categories" /\ base = seen
      BY <2>2 DEF Cat!SaveCategory
    <3>2. entries' = [entries EXCEPT ![e] = row]
      BY <2>2, <3>1 DEF Cat!SaveCategory
    <3>3. rewritten' <=> rewritten \/ entries[e] # seen
      BY <2>2 DEF Cat!SaveCategory
    <3> QED BY <2>2, <3>1, <3>2, <3>3 DEF Cat!SaveCategory
  <2> QED BY <2>1, <2>2
<1>4. rewritten \in BOOLEAN /\ rewritten' \in BOOLEAN /\ (rewritten => rewritten')
  <2>1. CASE Cat!WriteEntry(c, active)
    BY <1>1, <2>1 DEF Cat!WriteEntry, Cat!TypeOK
  <2>2. CASE Cat!SaveCategory(c, active)
    BY <1>1, <2>2 DEF Cat!SaveCategory, Cat!TypeOK
  <2> QED BY <2>1, <2>2
<1>5. ~rewritten' => base = entries[e]
  BY <1>3, <1>4
<1> HIDE DEF base
<1>6. /\ row \in Cat!Row /\ row.exists = base.exists
      /\ op = "remove" => row.archived
      /\ op # "remove" => row.archived = base.archived
  BY <1>2, RemovedType, ActiveType
<1> HIDE DEF row
<1>7. e \in gone' => row.archived \/ rewritten'
  <2> SUFFICES ASSUME e \in gone', ~rewritten', op # "remove" PROVE row.archived
    BY <1>6
  <2>1. e \in gone /\ ~rewritten
    BY <1>3, <1>4
  <2>2. entries[e].archived
    BY <2>1 DEF CatInv, RemovalsStay
  <2> QED BY <1>2, <1>5, <1>6, <2>2, RemovedType
<1>8. gone' \subseteq gone \cup {e}
  BY <1>3
<1> QED BY <1>2, <1>3, <1>4, <1>6, <1>7, <1>8, CatStep, CatReturn

LEMMA CatCreateKeeps ==
    ASSUME CatInv, NEW e \in Entry, NEW active \in BOOLEAN, Cat!CreateEntry(e, active)
    PROVE  CatInv'
<1> DEFINE row == [exists |-> TRUE, active |-> active, archived |-> FALSE]
<1>1. row \in Cat!Row /\ row.exists
  BY DEF Cat!Row
<1>2. /\ ~entries[e].exists /\ entries' = [entries EXCEPT ![e] = row]
      /\ UNCHANGED <<table, catCall, gone, rewritten>>
  BY DEF Cat!CreateEntry
<1> HIDE DEF row
<1>3. e \notin gone /\ rewritten \in BOOLEAN
  BY <1>2 DEF CatInv, RemovalsStay, Cat!TypeOK
<1>4. catCall' \in [Calls -> {Cat!Idle} \cup CatStarted]
      /\ \A c \in Calls : catCall'[c] \in {Cat!Idle, catCall[c]}
  BY <1>2, CatTyped DEF CatInv
<1> QED BY <1>1, <1>2, <1>3, <1>4, CatStep

LEMMA CatNext == CatInv /\ [Cat!Next]_(Cat!catalogueVars) => CatInv'
<1> SUFFICES ASSUME CatInv, [Cat!Next]_(Cat!catalogueVars) PROVE CatInv'
  OBVIOUS
<1>1. CASE UNCHANGED Cat!catalogueVars
  BY <1>1 DEF Cat!catalogueVars, CatInv, Cat!TypeOK, RemovalsStay
<1>2. ASSUME NEW c \in Calls, NEW e \in Entry, NEW op \in {"update", "remove"},
             Cat!FindEntry(c, e, op)
      PROVE  CatInv'
  <2> DEFINE new == [op |-> op, id |-> e, seen |-> entries[e]]
  <2>1. new \in CatStarted /\ new.id = e /\ new.seen = entries[e]
    BY CatTyped DEF CatInv, CatStarted
  <2>2. catCall' = [catCall EXCEPT ![c] = new] /\ entries[e].exists
        /\ UNCHANGED <<table, entries, gone, rewritten>>
    BY <1>2 DEF Cat!FindEntry
  <2> HIDE DEF new
  <2> QED BY <2>1, <2>2, CatStays
<1>3. ASSUME NEW c \in Calls, Cat!Abandon(c) PROVE CatInv'
  BY <1>3, CatStays DEF Cat!Abandon, Cat!Return
<1> QED BY <1>1, <1>2, <1>3, CatCreateKeeps, CatWritesKeep DEF Cat!Next

LEMMA CatMoves == [Next]_vars => [Cat!Next]_(Cat!catalogueVars)
BY DEF Next, vars, catalogueVars, Cat!catalogueVars

\* A city or category whose removal was answered is offered no more, for any
\* number of entries and overlapping handlers, unless a stale save rewrote it.
THEOREM RemovedStayUnlisted ==
    (Cat!Spec => []Cat!RemovedUnlisted) /\ (Spec => []RemovedUnlisted)
<1>1. CatInv => Cat!RemovedUnlisted /\ RemovedUnlisted
  <2> SUFFICES ASSUME CatInv, NEW e \in gone \cap Cat!Listed, table # "countries", ~rewritten
               PROVE  FALSE
    BY DEF RemovedUnlisted, Cat!RemovedUnlisted
  <2>1. entries[e].archived /\ table \in {"cities", "categories"}
    BY DEF CatInv, RemovalsStay, Cat!TypeOK, Cat!Table
  <2> QED BY <2>1 DEF Cat!Listed
<1>2. Init => Cat!Init
  BY DEF Init
<1>3. Cat!Spec => []Cat!RemovedUnlisted
  BY <1>1, CatInit, CatNext, PTL DEF Cat!Spec
<1>4. Spec => []RemovedUnlisted
  BY <1>1, <1>2, CatInit, CatNext, CatMoves, PTL DEF Spec
<1> QED BY <1>3, <1>4

----------------------------------------------------------------------------
(* The types of all components. *)

AllInv ==
    /\ BizInv /\ ConInv /\ AccInv /\ ImgInv /\ UrlInv /\ ShopInv /\ PageInv /\ CatInv

\* Every variable of the eight components keeps its type: a handler in flight holds
\* a row it can have read, a URL is made of segments the service makes, a figure is
\* a number or not counted, a page holds rows of the list.
THEOREM BackOfficeTyped == Spec => []TypeOK
<1>1. Init => AllInv
  BY BizInit, ConInit, AccInit, ImgInit, UrlInit, ShopInit, PageInit, CatInit DEF Init, AllInv
<1>2. AllInv /\ [Next]_vars => AllInv'
  <2> SUFFICES ASSUME AllInv, [Next]_vars PROVE AllInv'
    OBVIOUS
  <2>1. BizInv' /\ ConInv' /\ AccInv'
    BY BizMoves, ConMoves, AccMoves, BizNext, ConNext, AccNext DEF AllInv
  <2>2. ImgInv' /\ UrlInv' /\ ShopInv'
    BY ImgMoves, UrlMoves, ShopMoves, ImgNext, UrlNext, ShopNext DEF AllInv
  <2>3. PageInv' /\ CatInv'
    BY PageMoves, CatMoves, PageNext, CatNext DEF AllInv
  <2> QED BY <2>1, <2>2, <2>3 DEF AllInv
<1>3. AllInv => TypeOK
  <2> SUFFICES ASSUME AllInv PROVE TypeOK
    OBVIOUS
  <2>1. Con!TypeOK /\ Urls!TypeOK
    BY ConTyped, UrlTyped DEF AllInv
  <2>2. Biz!TypeOK /\ Acc!TypeOK /\ Img!TypeOK
    BY DEF AllInv, BizInv, AccInv, ImgInv
  <2>3. Shop!TypeOK /\ Pages!TypeOK /\ Cat!TypeOK
    BY DEF AllInv, ShopInv, PageInv, CatInv
  <2> QED BY <2>1, <2>2, <2>3 DEF TypeOK
<1> QED BY <1>1, <1>2, <1>3, PTL DEF Spec
=============================================================================
