-------------------------------- MODULE Paging --------------------------------
(***************************************************************************)
(* The paginated lists (offers, businesses, favourites, staff, users):     *)
(* newest first, skip((page - 1) * limit).take(limit), and a lastPage of   *)
(* Math.ceil(total / limit) from a count that is a query of its own.  A    *)
(* client reads page after page while rows come and go.                    *)
(*                                                                         *)
(* The lists for the app count before they read the rows; getManyAndCount, *)
(* which the others use, reads the rows first.                             *)
(***************************************************************************)
EXTENDS Integers, Sequences, SequencesExt

CONSTANTS MaxRows,  \* bound: rows created altogether
          Limit     \* rows on a page

VARIABLES
    rows,       \* the rows the list selects, newest first
    born,       \* rows created so far; row n was the n-th
    countFirst, \* which of the two kinds of list it is
    client,     \* the client: the page it asks for and what it was shown
    grown,      \* history: a row came while the client was reading
    shrunk,     \* history: a row went meanwhile
    overtaken   \* history: a row came between a count and the reading of its rows

pageVars == <<rows, born, countFirst, client, grown, shrunk, overtaken>>

----------------------------------------------------------------------------
RowId == 1..MaxRows

TypeOK ==
    /\ rows \in Seq(RowId)
    /\ born \in 0..MaxRows
    /\ countFirst \in BOOLEAN
    /\ client \in [pc: {"ask", "answer", "done"}, page: Nat \ {0}, total: Nat,
                   part: Seq(RowId), shown: Seq(RowId), start: SUBSET RowId]
    /\ grown \in BOOLEAN /\ shrunk \in BOOLEAN /\ overtaken \in BOOLEAN

\* The list has some rows when the client asks for its first page.
Init ==
    /\ born \in 0..MaxRows
    /\ rows = [i \in 1..born |-> born + 1 - i]
    /\ countFirst \in BOOLEAN
    /\ client = [pc |-> "ask", page |-> 1, total |-> 0, part |-> <<>>, shown |-> <<>>,
                 start |-> 1..born]
    /\ grown = FALSE /\ shrunk = FALSE /\ overtaken = FALSE

----------------------------------------------------------------------------
\* Mutant: skip(page * limit).
PageSkippingOne(page) ==
    SubSeq(rows, page * Limit + 1, IF (page + 1) * Limit < Len(rows) THEN (page + 1) * Limit
                                                                     ELSE Len(rows))

\* skip((page - 1) * limit).take(limit)
Page(page) ==
    SubSeq(rows, (page - 1) * Limit + 1, IF page * Limit < Len(rows) THEN page * Limit
                                                                     ELSE Len(rows))

LastPage(total) == (total + Limit - 1) \div Limit

\* The first of the two queries.
AskPage ==
    /\ client.pc = "ask"
    /\ client' = IF countFirst
                 THEN [client EXCEPT !.pc = "answer", !.total = Len(rows)]
                 ELSE [client EXCEPT !.pc = "answer", !.part = Page(client.page)]
    /\ UNCHANGED <<rows, born, countFirst, grown, shrunk, overtaken>>

\* The second query; the client goes on until the page it got is the last one.
AnswerPage ==
    LET total == IF countFirst THEN client.total ELSE Len(rows)
        part == IF countFirst THEN Page(client.page) ELSE client.part
    IN
    /\ client.pc = "answer"
    /\ client' = [client EXCEPT !.pc = IF client.page < LastPage(total) THEN "ask" ELSE "done",
                                !.page = @ + 1, !.total = 0, !.part = <<>>,
                                !.shown = @ \o part]
    /\ UNCHANGED <<rows, born, countFirst, grown, shrunk, overtaken>>

\* The client has begun to read and is not done.
Reading == client.pc = "answer" \/ (client.pc = "ask" /\ client.page > 1)

\* A row is created: it is the newest.
InsertRow ==
    /\ Reading
    /\ born < MaxRows
    /\ born' = born + 1
    /\ rows' = <<born + 1>> \o rows
    /\ grown' = TRUE
    /\ overtaken' = (overtaken \/ (countFirst /\ client.pc = "answer"))
    /\ UNCHANGED <<countFirst, client, shrunk>>

\* A row is archived, or no longer passes the list's filter.
RemoveRow(i) ==
    /\ Reading
    /\ rows' = RemoveAt(rows, i)
    /\ shrunk' = TRUE
    /\ UNCHANGED <<born, countFirst, client, grown, overtaken>>

Next == AskPage \/ AnswerPage \/ InsertRow \/ \E i \in DOMAIN rows : RemoveRow(i)

Spec == Init /\ [][Next]_pageVars

----------------------------------------------------------------------------
\* A client that reads to the last page was shown every row that was there all
\* the time, and none of them twice: rows are missed only when others went
\* meanwhile, or one came between the count and the reading of its rows; they
\* come twice only when others came meanwhile.
PagesCover ==
    client.pc = "done" =>
        /\ shrunk \/ overtaken \/ client.start \subseteq ToSet(client.shown)
        /\ grown \/ IsInjective(client.shown)
=============================================================================
