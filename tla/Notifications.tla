------------------------------ MODULE Notifications ------------------------------
(***************************************************************************)
(* NotificationsService.sendToDevices: one push to a list of device        *)
(* tokens, in batches of what Firebase takes in one call.                  *)
(*                                                                         *)
(* The tokens are trimmed, blanks and repetitions dropped.  Firebase       *)
(* answers a batch with one response per token, delivered or not, or the   *)
(* call throws (not configured, no network): then sendToDevices answers    *)
(* an error for all of them, the batches before included.                  *)
(***************************************************************************)
EXTENDS Integers, Sequences, FiniteSets, SequencesExt

CONSTANTS Devices,    \* device tokens
          Blank,      \* a token that is empty once trimmed
          BatchSize,  \* tokens in one Firebase call
          MaxTokens   \* bound: length of the list

VARIABLES
    given,      \* the list of tokens, trimmed
    position,   \* tokens handed to Firebase so far, of those to send
    messages,   \* history: messages Firebase took for each device
    responses,  \* the responses collected
    result      \* what the caller is answered

notificationVars == <<given, position, messages, responses, result>>

----------------------------------------------------------------------------
TypeOK ==
    /\ given \in BoundedSeq(Devices \cup {Blank}, MaxTokens)
    /\ position \in 0..MaxTokens
    /\ messages \in [Devices -> Nat]
    /\ responses \in Seq([token: Devices, success: BOOLEAN])
    /\ result \in {"none", "refused", "error", "summary"}

Init ==
    /\ given \in BoundedSeq(Devices \cup {Blank}, MaxTokens)
    /\ position = 0
    /\ messages = [d \in Devices |-> 0]
    /\ responses = <<>>
    /\ result = "none"

----------------------------------------------------------------------------
\* Mutant: repetitions are kept.
ValidTokensRepeating == SelectSeq(given, LAMBDA t : t # Blank)

\* Where a token that is not blank is given first.
FirstPlaces ==
    {i \in DOMAIN given : given[i] # Blank /\ \A j \in 1..(i - 1) : given[j] # given[i]}
Rank(i) == Cardinality({j \in FirstPlaces : j <= i})

\* validateTokens: Array.from(new Set(...)) keeps the first of each, in their order.
ValidTokens ==
    [k \in 1..Cardinality(FirstPlaces) |-> given[CHOOSE i \in FirstPlaces : Rank(i) = k]]

\* The next chunk of chunkTokens.
NextBatch == SubSeq(ValidTokens, position + 1,
                    IF position + BatchSize < Len(ValidTokens)
                    THEN position + BatchSize ELSE Len(ValidTokens))

\* Without a token the call is refused.
RefuseCall ==
    /\ result = "none"
    /\ ValidTokens = <<>>
    /\ result' = "refused"
    /\ UNCHANGED <<given, position, messages, responses>>

\* sendEachForMulticast: one response per token of the batch, in its order.
SendBatch ==
    /\ result = "none"
    /\ position < Len(ValidTokens)
    /\ \E delivered \in [1..Len(NextBatch) -> BOOLEAN] :
           responses' = responses \o
               [i \in 1..Len(NextBatch) |-> [token |-> NextBatch[i], success |-> delivered[i]]]
    /\ messages' = [d \in Devices |->
           messages[d] + Cardinality({i \in 1..Len(NextBatch) : NextBatch[i] = d})]
    /\ position' = position + Len(NextBatch)
    /\ UNCHANGED <<given, result>>

BatchThrows ==
    /\ result = "none"
    /\ position < Len(ValidTokens)
    /\ result' = "error"
    /\ UNCHANGED <<given, position, messages, responses>>

AnswerSummary ==
    /\ result = "none"
    /\ ValidTokens # <<>>
    /\ position = Len(ValidTokens)
    /\ result' = "summary"
    /\ UNCHANGED <<given, position, messages, responses>>

Next == RefuseCall \/ SendBatch \/ BatchThrows \/ AnswerSummary

Spec == Init /\ [][Next]_notificationVars

----------------------------------------------------------------------------
NumberOf(success) == Cardinality({i \in DOMAIN responses : responses[i].success = success})

\* A device gets one message however often its token is in the list, and none is
\* sent without an answer that tells: the summary has one response for each device
\* given, delivered and failed add up to them, and an error hides whole batches
\* only, at most all but the last.
PushesReported ==
    /\ \A d \in Devices : messages[d] <= 1
    /\ result = "summary" =>
           /\ {responses[i].token : i \in DOMAIN responses} = ToSet(given) \ {Blank}
           /\ Len(responses) = Cardinality(ToSet(given) \ {Blank})
           /\ NumberOf(TRUE) + NumberOf(FALSE) = Cardinality(ToSet(given) \ {Blank})
    /\ result = "error" =>
           /\ position % BatchSize = 0
           /\ \E d \in ToSet(given) \ {Blank} : messages[d] = 0
=============================================================================
