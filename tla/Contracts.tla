------------------------------- MODULE Contracts -------------------------------
(***************************************************************************)
(* BusinessContractService: signed contracts with consecutive numbers, and *)
(* the two lists the admins work from.                                     *)
(*                                                                         *)
(* An upload checks that the business has no contract, sends the document  *)
(* to S3, counts the contracts, looks for a free number from there on and  *)
(* inserts.  Each is a statement of its own, so uploads interleave; only   *)
(* contract_number is unique in the database, business_id is not.          *)
(***************************************************************************)
EXTENDS Integers, FiniteSets

CONSTANTS Business,   \* ids of the existing businesses
          Calls,      \* uploads that may be in flight
          None        \* no business

VARIABLES
    contracts,  \* the business_contracts table
    verified,   \* the businesses whose verification_status is VERIFIED
    upload,     \* the uploads in flight
    overlapped  \* history: businesses with an insert while another upload of
                \* theirs had passed its check

contractVars == <<contracts, verified, upload, overlapped>>

----------------------------------------------------------------------------
Contract == [business: Business, number: Nat \ {0}]
Idle == [pc |-> "idle", business |-> None, next |-> 0]

TypeOK ==
    /\ contracts \in SUBSET Contract
    /\ IsFiniteSet(contracts)
    /\ verified \in SUBSET Business
    /\ upload \in [Calls -> [pc: {"idle", "send", "count", "probe", "insert"},
                             business: Business \cup {None}, next: Nat]]
    /\ overlapped \in SUBSET Business

Init ==
    /\ contracts = {}
    /\ verified = {}
    /\ upload = [c \in Calls |-> Idle]
    /\ overlapped = {}

Return(c) == upload' = [upload EXCEPT ![c] = Idle]

Numbers == {k.number : k \in contracts}
ContractsOf(b) == {k \in contracts : k.business = b}

----------------------------------------------------------------------------
\* approveBusiness and rejectBusiness, as far as the lists look (Businesses.tla).
Review(b) ==
    /\ verified' = IF b \in verified THEN verified \ {b} ELSE verified \cup {b}
    /\ UNCHANGED <<contracts, upload, overlapped>>

\* Mutant: the check for an existing contract is forgotten.
CheckBusinessOnly(c, b) ==
    /\ upload[c].pc = "idle"
    /\ upload' = [upload EXCEPT ![c] = [pc |-> "send", business |-> b, next |-> 0]]
    /\ UNCHANGED <<contracts, verified, overlapped>>

\* The business exists (verified or not, archived or not) without a contract.
CheckBusiness(c, b) ==
    /\ upload[c].pc = "idle"
    /\ ContractsOf(b) = {}
    /\ upload' = [upload EXCEPT ![c] = [pc |-> "send", business |-> b, next |-> 0]]
    /\ UNCHANGED <<contracts, verified, overlapped>>

SendDocument(c) ==
    /\ upload[c].pc = "send"
    /\ upload' = [upload EXCEPT ![c].pc = "count"]
    /\ UNCHANGED <<contracts, verified, overlapped>>

\* generateNextContractNumber: the count of that moment, then one look per number.
CountContracts(c) ==
    /\ upload[c].pc = "count"
    /\ upload' = [upload EXCEPT ![c].pc = "probe", ![c].next = Cardinality(contracts) + 1]
    /\ UNCHANGED <<contracts, verified, overlapped>>

ProbeNumber(c) ==
    /\ upload[c].pc = "probe"
    /\ upload' = IF upload[c].next \in Numbers
                 THEN [upload EXCEPT ![c].next = @ + 1]
                 ELSE [upload EXCEPT ![c].pc = "insert"]
    /\ UNCHANGED <<contracts, verified, overlapped>>

\* Mutant: contract_number is not unique in the database.
InsertUnguarded(c) ==
    LET b == upload[c].business IN
    /\ upload[c].pc = "insert"
    /\ contracts' = contracts \cup {[business |-> b, number |-> upload[c].next]}
    /\ overlapped' = overlapped \cup
           {x \in {b} : \E d \in Calls \ {c} : upload[d].business = x}
    /\ Return(c)
    /\ UNCHANGED verified

\* The unique contract_number refuses a number that was taken meanwhile: the
\* upload answers an error (Abandon), its document stays in S3.
InsertContract(c) ==
    LET b == upload[c].business
        n == upload[c].next
    IN
    /\ upload[c].pc = "insert"
    /\ n \notin Numbers
    /\ contracts' = contracts \cup {[business |-> b, number |-> n]}
    /\ overlapped' = overlapped \cup
           {x \in {b} : \E d \in Calls \ {c} : upload[d].business = x}
    /\ Return(c)
    /\ UNCHANGED verified

\* The process dies, S3 throws or the insert is refused.
Abandon(c) ==
    /\ upload[c].pc # "idle"
    /\ Return(c)
    /\ UNCHANGED <<contracts, verified, overlapped>>

----------------------------------------------------------------------------
Upload(c) ==
    \/ \E b \in Business : CheckBusiness(c, b)
    \/ SendDocument(c) \/ CountContracts(c) \/ ProbeNumber(c) \/ InsertContract(c)
    \/ Abandon(c)

Next ==
    \/ \E b \in Business : Review(b)
    \/ \E c \in Calls : Upload(c)

Spec == Init /\ [][Next]_contractVars

----------------------------------------------------------------------------
\* getBusinessWithNoContract: verified businesses, archived ones included.
WithoutContract == {b \in verified : ContractsOf(b) = {}}

\* getBusinessWithContract: one entry per contract, verified or not.
WithContract == contracts

\* The contracts are numbered 1, 2, 3, ... without a gap or a repetition,
\* although the number is counted and tried before it is inserted.
NumbersConsecutive == Numbers = 1..Cardinality(contracts)

\* A verified business is in the lists exactly once, as one still to sign or as
\* one that signed, unless two uploads for it overlapped: both may pass the
\* check, and the business is then listed with two contracts.
ListedOnce ==
    \A b \in verified \ overlapped :
        IF b \in WithoutContract
        THEN \A k \in WithContract : k.business # b
        ELSE Cardinality({k \in WithContract : k.business = b}) = 1
=============================================================================
