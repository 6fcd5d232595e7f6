------------------------------- MODULE Favourites -------------------------------
(***************************************************************************)
(* FavoritesService: one user's favourite row for one business.            *)
(*                                                                         *)
(* Each call reads the row, changes the entity and saves it whole, without *)
(* a transaction, so calls of the same user (a double tap, two phones)     *)
(* interleave between the two.  The pair of user and business is unique.   *)
(* The business is taken to be there; Storefront.tla has which are listed. *)
(***************************************************************************)
CONSTANTS Calls,   \* requests that may be in flight
          Notes,   \* notes a request may carry
          NoNote   \* no note

VARIABLES
    favourite,       \* the row of the favorites table
    favCall,         \* the requests in flight
    shouldShow,      \* history: what the calls would leave listed, each at its save
    shouldNote,      \* history: the note they would leave
    toggleOvertaken, \* history: since the last add or remove, a toggle saved an
                     \* entity that another save had changed meanwhile
    saveOvertaken    \* history: since the last note, some call did

favouriteVars == <<favourite, favCall, shouldShow, shouldNote, toggleOvertaken, saveOvertaken>>

----------------------------------------------------------------------------
NoRow == [kept |-> "none", note |-> NoNote]
Row == [kept: {"none", "kept", "removed"}, note: Notes \cup {NoNote}]
NoCall == [pc |-> "idle", op |-> "none", note |-> NoNote, entity |-> NoRow]

TypeOK ==
    /\ favourite \in Row
    /\ favCall \in [Calls -> [pc: {"idle", "save", "count"},
                              op: {"none", "add", "remove", "toggle"},
                              note: Notes \cup {NoNote}, entity: Row]]
    /\ shouldShow \in BOOLEAN /\ shouldNote \in Notes \cup {NoNote}
    /\ toggleOvertaken \in BOOLEAN /\ saveOvertaken \in BOOLEAN

Init ==
    /\ favourite = NoRow
    /\ favCall = [c \in Calls |-> NoCall]
    /\ shouldShow = FALSE /\ shouldNote = NoNote
    /\ toggleOvertaken = FALSE /\ saveOvertaken = FALSE

----------------------------------------------------------------------------
\* dto.note ?? favorite.note
Noted(given, stored) == IF given = NoNote THEN stored ELSE given

\* Mutant: a removed favourite that is added again stays removed.
WrittenForgetful(op, note, entity) ==
    IF op = "remove" \/ (op = "toggle" /\ entity.kept = "kept")
    THEN [entity EXCEPT !.kept = "removed"]
    ELSE [kept |-> IF op = "add" /\ entity.kept = "removed" THEN "removed" ELSE "kept",
          note |-> Noted(note, entity.note)]

\* The entity as the operation changes it; a toggle carries no note.
Written(op, note, entity) ==
    IF op = "remove" \/ (op = "toggle" /\ entity.kept = "kept")
    THEN [entity EXCEPT !.kept = "removed"]
    ELSE [kept |-> "kept", note |-> Noted(note, entity.note)]

\* findOne; removeBusinessFavorite finds no favourite that is removed.
FindFavourite(c, op, note) ==
    /\ favCall[c].pc = "idle"
    /\ op = "remove" => favourite.kept = "kept"
    /\ op # "add" => note = NoNote
    /\ favCall' = [favCall EXCEPT ![c] = [pc |-> "save", op |-> op, note |-> note,
                                          entity |-> favourite]]
    /\ UNCHANGED <<favourite, shouldShow, shouldNote, toggleOvertaken, saveOvertaken>>

\* An add that stored a new or a revived favourite goes on to increment a column
\* Business does not have: it answers an error, though the favourite is stored.
\* Without a row of its own the entity is inserted, which the unique pair refuses
\* once another call inserted (AbandonFavourite).
SaveFavourite(c) ==
    LET call == favCall[c] IN
    /\ call.pc = "save"
    /\ call.entity.kept = "none" => favourite.kept = "none"
    /\ favourite' = Written(call.op, call.note, call.entity)
    /\ shouldShow' = (call.op = "add" \/ (call.op = "toggle" /\ ~shouldShow))
    /\ shouldNote' = Noted(call.note, shouldNote)
    /\ toggleOvertaken' = (call.op = "toggle" /\ (toggleOvertaken \/ call.entity # favourite))
    /\ saveOvertaken' = (call.note = NoNote /\ (saveOvertaken \/ call.entity # favourite))
    /\ favCall' = [favCall EXCEPT ![c] =
           IF call.op = "add" /\ call.entity.kept # "kept" THEN [call EXCEPT !.pc = "count"]
                                                           ELSE NoCall]

\* increment throws for the unknown column total_favorites.
CountFavourite(c) ==
    /\ favCall[c].pc = "count"
    /\ favCall' = [favCall EXCEPT ![c] = NoCall]
    /\ UNCHANGED <<favourite, shouldShow, shouldNote, toggleOvertaken, saveOvertaken>>

\* The insert is refused, or the process dies before the save.
AbandonFavourite(c) ==
    /\ favCall[c].pc = "save"
    /\ favCall' = [favCall EXCEPT ![c] = NoCall]
    /\ UNCHANGED <<favourite, shouldShow, shouldNote, toggleOvertaken, saveOvertaken>>

Favour(c) ==
    \/ \E op \in {"add", "remove", "toggle"}, note \in Notes \cup {NoNote} :
           FindFavourite(c, op, note)
    \/ SaveFavourite(c) \/ CountFavourite(c) \/ AbandonFavourite(c)

Next == \E c \in Calls : Favour(c)

Spec == Init /\ [][Next]_favouriteVars

----------------------------------------------------------------------------
\* The list and the note are what the calls would leave if each ran alone at the
\* moment of its save: an add that answered an error is still listed, and only a
\* toggle that another save overtook may leave the list the wrong way round, until
\* the next add or remove.  A call of any kind that was overtaken may bring back an
\* old note, until the next one is given.
FavouritesFollow ==
    /\ toggleOvertaken \/ (favourite.kept = "kept") = shouldShow
    /\ saveOvertaken \/ favourite.note = shouldNote
=============================================================================
