------------------------------- MODULE Catalogue -------------------------------
(***************************************************************************)
(* Cities, countries and categories, and their removal.                    *)
(*                                                                         *)
(* The three services remove alike in name only: a city is archived and    *)
(* made inactive, a country is archived, and a category is archived by a   *)
(* save of the entity that was read.  Their lists filter differently, too. *)
(* Left out: texts, who changed a row, and a city's country, whose checks  *)
(* (ALREADY_EXISTS, NOT_FOUND) end the call before it writes; the database *)
(* keeps (country_id, name) and the country codes unique in any case.      *)
(***************************************************************************)
EXTENDS Integers

CONSTANTS Entry,   \* ids of the entries that may be created
          Calls    \* handler executions that may be in flight

VARIABLES
    table,    \* which of the three tables the entries are in
    entries,  \* the table
    catCall,  \* the handlers in flight
    gone,     \* history: the entries whose removal was answered
    rewritten \* history: a category save wrote back a column changed since it was read

catalogueVars == <<table, entries, catCall, gone, rewritten>>

----------------------------------------------------------------------------
Table == {"cities", "countries", "categories"}
Row == [exists: BOOLEAN, active: BOOLEAN, archived: BOOLEAN]
NoRow == [exists |-> FALSE, active |-> TRUE, archived |-> FALSE]
Idle == [op |-> "none"]

TypeOK ==
    /\ table \in Table
    /\ entries \in [Entry -> Row]
    /\ catCall \in [Calls -> {Idle} \cup [op: {"update", "remove"}, id: Entry, seen: Row]]
    /\ gone \in SUBSET Entry
    /\ rewritten \in BOOLEAN

Init ==
    /\ table \in Table
    /\ entries = [e \in Entry |-> NoRow]
    /\ catCall = [c \in Calls |-> Idle]
    /\ gone = {}
    /\ rewritten = FALSE

Return(c) == catCall' = [catCall EXCEPT ![c] = Idle]

----------------------------------------------------------------------------
\* create: the checks and the insert, which the unique columns guard.
CreateEntry(e, active) ==
    /\ ~entries[e].exists
    /\ entries' = [entries EXCEPT ![e] = [exists |-> TRUE, active |-> active,
                                          archived |-> FALSE]]
    /\ UNCHANGED <<table, catCall, gone, rewritten>>

\* findOne: only the categories' looks at is_archived.
FindEntry(c, e, op) ==
    /\ catCall[c] = Idle
    /\ entries[e].exists
    /\ table = "categories" => ~entries[e].archived
    /\ catCall' = [catCall EXCEPT ![c] = [op |-> op, id |-> e, seen |-> entries[e]]]
    /\ UNCHANGED <<table, entries, gone, rewritten>>

\* Mutant: a city is made inactive, not archived.
RemovedInactive(row) == [row EXCEPT !.active = FALSE]

Removed(row) ==
    IF table = "cities" THEN [row EXCEPT !.active = FALSE, !.archived = TRUE]
                        ELSE [row EXCEPT !.archived = TRUE]

\* CitiesService and CountriesService: repository.update names the columns.  A
\* city's update may set is_active, a country's too.
WriteEntry(c, active) ==
    LET e == catCall[c].id
        op == catCall[c].op
    IN
    /\ catCall[c] # Idle /\ table # "categories"
    /\ entries' = [entries EXCEPT ![e] =
                      IF op = "remove" THEN Removed(@) ELSE [@ EXCEPT !.active = active]]
    /\ gone' = IF op = "remove" THEN gone \cup {e} ELSE gone
    /\ Return(c)
    /\ UNCHANGED <<table, rewritten>>

\* CategoriesService: save writes the whole entity.
SaveCategory(c, active) ==
    LET e == catCall[c].id
        op == catCall[c].op
        seen == catCall[c].seen
    IN
    /\ catCall[c] # Idle /\ table = "categories"
    /\ entries' = [entries EXCEPT ![e] =
                      IF op = "remove" THEN Removed(seen) ELSE [seen EXCEPT !.active = active]]
    /\ gone' = IF op = "remove" THEN gone \cup {e} ELSE gone
    /\ rewritten' = (rewritten \/ entries[e] # seen)
    /\ Return(c)
    /\ UNCHANGED table

\* The process dies, a check of the names or codes fails, or the write is refused.
Abandon(c) ==
    /\ catCall[c] # Idle
    /\ Return(c)
    /\ UNCHANGED <<table, entries, gone, rewritten>>

Next ==
    \/ \E e \in Entry, active \in BOOLEAN : CreateEntry(e, active)
    \/ \E c \in Calls :
           \/ \E e \in Entry, op \in {"update", "remove"} : FindEntry(c, e, op)
           \/ \E active \in BOOLEAN : WriteEntry(c, active) \/ SaveCategory(c, active)
           \/ Abandon(c)

Spec == Init /\ [][Next]_catalogueVars

----------------------------------------------------------------------------
\* The lists the app and the forms offer: findAll of cities and countries,
\* findAllForApp and getCategoriesDdl.
Listed ==
    LET existing == {e \in Entry : entries[e].exists} IN
    CASE table = "cities"     -> {e \in existing : entries[e].active /\ ~entries[e].archived}
      [] table = "countries"  -> {e \in existing : entries[e].active}
      [] table = "categories" -> {e \in existing : entries[e].active /\ ~entries[e].archived}

\* An entry whose removal was answered is offered no more, although it can still
\* be updated by its id, unless a stale save of a category brought it back.  A
\* country is: its list looks at is_active alone, so that only making it inactive
\* takes it out.
RemovedUnlisted ==
    \A e \in gone \cap Listed : table = "countries" \/ rewritten
=============================================================================
