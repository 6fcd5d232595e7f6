------------------------------ MODULE WaafiMapper ------------------------------
(***************************************************************************)
(* mapWaafiResponse: what becomes of a payment, read from the text of the  *)
(* provider's answer.                                                      *)
(*                                                                         *)
(* The mapper looks for its words in the text of every value of the        *)
(* answer, in a fixed order, with a substring search.  An answer is        *)
(* therefore the set of phrases it contains, and a phrase the set of the   *)
(* mapper's words that occur in it: RCS_SUCCESS contains SUCCESS, and so   *)
(* does UNSUCCESSFUL.  The provider is external; it is taken to write what *)
(* it did, in any of the phrases for it, with its code or without.         *)
(***************************************************************************)
EXTENDS Integers, FiniteSets

CONSTANT MaxPhrases   \* bound: phrases in one answer

VARIABLES
    deed,     \* what the provider did with the payment
    answer,   \* its HTTP status class, response code and phrases
    outcome   \* what the mapper made of it

mapperVars == <<deed, answer, outcome>>

----------------------------------------------------------------------------
Deeds == {"paid", "userRejected", "wrongPin", "noBalance", "waiting", "declined"}

\* The phrases for a deed; "other" is a text with none of the mapper's words.
PhrasesFor ==
    [paid         |-> {"RCS_SUCCESS", "SUCCESSFUL", "APPROVED", "other"},
     userRejected |-> {"RCS_USER_REJECTED", "USER REJECTED", "UNSUCCESSFUL", "other"},
     wrongPin     |-> {"PIN ERROR", "NAMBARKA SIRTA", "PIN-KA", "UNSUCCESSFUL"},
     noBalance    |-> {"INSUFFICIENT BALANCE", "HARAAGA", "NOT APPROVED"},
     waiting      |-> {"PENDING", "PROCESSING", "other"},
     declined     |-> {"UNSUCCESSFUL", "NOT APPROVED", "other"}]

CodesFor(d) == {"none"} \cup (IF d = "paid" THEN {"2001"}
                              ELSE IF d = "userRejected" THEN {"5310"} ELSE {"5206"})

\* The mapper's words that occur in a phrase.
WordsIn(phrase) ==
    CASE phrase = "RCS_SUCCESS" -> {"RCS_SUCCESS", "SUCCESS"}
      [] phrase \in {"SUCCESSFUL", "UNSUCCESSFUL"} -> {"SUCCESS"}
      [] phrase \in {"APPROVED", "NOT APPROVED"} -> {"APPROVED"}
      [] phrase = "other" -> {}
      [] OTHER -> {phrase}

\* searchableText: the words found in any value of the answer.
SearchableText(a) == UNION {WordsIn(p) : p \in a.phrases}

NoOutcome == [status |-> "none", canRetry |-> FALSE]
Outcome == [status: {"none", "CONFIRMED", "REJECTED", "FAILED", "PROCESSING"}, canRetry: BOOLEAN]

TypeOK ==
    /\ deed \in Deeds
    /\ answer.phrases \in SUBSET PhrasesFor[deed]
    /\ answer.code \in CodesFor(deed)
    /\ answer.http2xx \in BOOLEAN
    /\ outcome \in Outcome

\* fetch answered, and the body was parsed; otherwise the client throws or keeps
\* the raw text as the one value.
Init ==
    /\ deed \in Deeds
    /\ \E phrases \in {ps \in SUBSET PhrasesFor[deed] : Cardinality(ps) \in 1..MaxPhrases},
          code \in CodesFor(deed), http2xx \in BOOLEAN :
           answer = [phrases |-> phrases, code |-> code, http2xx |-> http2xx]
    /\ outcome = NoOutcome

----------------------------------------------------------------------------
\* Mutant: the word SUCCESS counts whatever the HTTP status is.
MappedByWordOnly(a) ==
    IF a.code = "2001" \/ SearchableText(a) \cap {"RCS_SUCCESS", "APPROVED", "SUCCESS"} # {}
    THEN [status |-> "CONFIRMED", canRetry |-> FALSE]
    ELSE IF a.code = "5310" \/ SearchableText(a) \cap {"RCS_USER_REJECTED", "USER REJECTED"} # {}
    THEN [status |-> "REJECTED", canRetry |-> TRUE]
    ELSE [status |-> "FAILED", canRetry |-> TRUE]

\* The cases in the code's order.
Mapped(a) ==
    LET text == SearchableText(a) IN
    IF \/ a.code = "2001"
       \/ text \cap {"RCS_SUCCESS", "APPROVED"} # {}
       \/ a.http2xx /\ "SUCCESS" \in text
    THEN [status |-> "CONFIRMED", canRetry |-> FALSE]
    ELSE IF a.code = "5310" \/ text \cap {"RCS_USER_REJECTED", "USER REJECTED"} # {}
    THEN [status |-> "REJECTED", canRetry |-> TRUE]
    ELSE IF text \cap {"PIN ERROR", "NAMBARKA SIRTA", "PIN-KA",
                       "INSUFFICIENT BALANCE", "HARAAGA"} # {}
    THEN [status |-> "FAILED", canRetry |-> TRUE]
    ELSE IF text \cap {"PENDING", "PROCESSING"} # {}
    THEN [status |-> "PROCESSING", canRetry |-> FALSE]
    ELSE [status |-> "FAILED", canRetry |-> TRUE]

MapWaafiResponse ==
    /\ outcome = NoOutcome
    /\ outcome' = Mapped(answer)
    /\ UNCHANGED <<deed, answer>>

Next == MapWaafiResponse

Spec == Init /\ [][Next]_mapperVars

----------------------------------------------------------------------------
\* What the outcome should be, from what the provider did.
StatusOf == [paid |-> "CONFIRMED", userRejected |-> "REJECTED", wrongPin |-> "FAILED",
             noBalance |-> "FAILED", waiting |-> "PROCESSING", declined |-> "FAILED"]

\* A refusal that is worded as the negation of a success.
Negated(a) == \/ "NOT APPROVED" \in a.phrases
              \/ "UNSUCCESSFUL" \in a.phrases /\ a.http2xx

\* An answer without a code or a word the mapper knows; SUCCESSFUL is known only
\* with a 2xx.
Silent(a) == /\ a.code \in {"none", "5206"}
             /\ \A p \in a.phrases : p \in {"other", "UNSUCCESSFUL"}
                                     \/ (p = "SUCCESSFUL" /\ ~a.http2xx)

\* The outcome is what the provider did, and only a payment that was not and will
\* not be charged may be tried again, but for two kinds of answers: one that says
\* nothing the mapper knows counts as failed, and a refusal worded as a negated
\* success counts as approved, even with the provider's code for a rejection.
MapperAgrees ==
    outcome = NoOutcome
    \/ /\ outcome.status = IF Negated(answer) THEN "CONFIRMED"
                           ELSE IF Silent(answer) THEN "FAILED" ELSE StatusOf[deed]
       /\ outcome.canRetry => Silent(answer) \/ deed \notin {"paid", "waiting"}
=============================================================================
