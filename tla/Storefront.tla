------------------------------ MODULE Storefront ------------------------------
(***************************************************************************)
(* What the app and the admins are shown of businesses, offers and         *)
(* favourites.  Every list has filters of its own, written in four         *)
(* services; the admin dashboard counts once more with its own, one query  *)
(* per figure, while the tables change.                                    *)
(*                                                                         *)
(* Rows change here as the other modules say, one committed write at a     *)
(* time.  Left out: distance, the columns shown, every search but the one  *)
(* below, and order but for the offers on a business's page; the pages of  *)
(* the lists are in Paging.                                                *)
(***************************************************************************)
EXTENDS Integers, FiniteSets

CONSTANTS Business,   \* businesses
          Offer,      \* offers, numbered in the order they were created
          SoldBy,     \* SoldBy[o]: the business of offer o
          ActiveOffersLimit,   \* how many offers the page of a business shows
          Named,      \* businesses whose name matches what an admin searches
          Described   \* businesses whose description does

VARIABLES
    shops,      \* the businesses table
    offers,     \* the offers table
    favourites, \* the user's favourites: removed or not
    figures,    \* the dashboard's figures counted so far
    changes     \* history: how often a table changed while these were counted

shopVars == <<shops, offers, favourites, figures, changes>>

----------------------------------------------------------------------------
Figure == {"total_businesses", "active_businesses", "pending_business_verifications",
           "total_offers", "published_offers"}
NotCounted == -1

TypeOK ==
    /\ shops \in [Business -> [archived: BOOLEAN, status: {"ACTIVE", "CLOSED"},
                               verification: {"PENDING", "VERIFIED"}]]
    /\ offers \in [Offer -> [archived: BOOLEAN, status: {"DRAFT", "PUBLISHED"}]]
    /\ favourites \in [Business -> {"none", "kept", "removed"}]
    /\ figures \in [Figure -> Nat \cup {NotCounted}]
    /\ changes \in Nat

Init ==
    /\ shops = [b \in Business |-> [archived |-> FALSE, status |-> "ACTIVE",
                                    verification |-> "PENDING"]]
    /\ offers = [o \in Offer |-> [archived |-> FALSE, status |-> "DRAFT"]]
    /\ favourites = [b \in Business |-> "none"]
    /\ figures = [f \in Figure |-> NotCounted]
    /\ changes = 0

----------------------------------------------------------------------------
(* BusinessesService *)

\* findAll, findOne and getBusinessProfile: everything not archived.
AdminBusinesses == {b \in Business : ~shops[b].archived}

\* findAll with a search: the OR of its second condition has no parentheses, so
\* that a match of the description needs nothing else.
SearchedBusinesses == (AdminBusinesses \cap Named) \cup Described

\* findNearby looks at the location alone.
NearbyBusinesses == Business

\* findActiveForApp, findOneActiveForApp
AppBusinesses == {b \in Business : ~shops[b].archived /\ shops[b].status = "ACTIVE"}

\* getBusinessesByVerificationStatus
BusinessesToVerify == {b \in Business : shops[b].verification = "PENDING" /\ ~shops[b].archived}

\* findOneActiveForApp: the offers on a business's page, the newest of them.
ActiveOffers(b) ==
    {o \in Offer : SoldBy[o] = b /\ ~offers[o].archived /\ offers[o].status = "PUBLISHED"}
Newer(b, o) == {x \in ActiveOffers(b) : x > o}
PageOffers(b) == {o \in ActiveOffers(b) : Cardinality(Newer(b, o)) < ActiveOffersLimit}

(* OffersService *)

\* findAll, findOne
AdminOffers == {o \in Offer : ~offers[o].archived}

\* Mutant: the app's list forgets the status.
AppOffersUnfiltered == {o \in Offer : ~offers[o].archived}

\* findAllForApp, findOneForApp: the state of the business does not matter.
AppOffers == {o \in Offer : ~offers[o].archived /\ offers[o].status = "PUBLISHED"}

\* The offers OrdersService.reserve accepts.
ReservableOffers == {o \in Offer : offers[o].status = "PUBLISHED"}

(* FavoritesService *)

\* getFavoriteBusinessesByUser
AppFavourites ==
    {b \in Business : favourites[b] = "kept" /\ ~shops[b].archived /\ shops[b].status = "ACTIVE"}

\* findAll: whatever became of the business.
AllFavourites == {b \in Business : favourites[b] = "kept"}

----------------------------------------------------------------------------
(* AdminService: the counts of getOverview and getOperations *)
Count(f) ==
    CASE f = "total_businesses" ->
             Cardinality({b \in Business : ~shops[b].archived})
      [] f = "active_businesses" ->
             Cardinality({b \in Business : ~shops[b].archived /\ shops[b].status = "ACTIVE"})
      [] f = "pending_business_verifications" ->
             Cardinality({b \in Business : ~shops[b].archived
                                           /\ shops[b].verification = "PENDING"})
      [] f = "total_offers" ->
             Cardinality({o \in Offer : ~offers[o].archived})
      [] f = "published_offers" ->
             Cardinality({o \in Offer : ~offers[o].archived /\ offers[o].status = "PUBLISHED"})

\* Promise.all: the queries run in any order, each on the tables of its moment.
CountFigure(f) ==
    /\ figures[f] = NotCounted
    /\ figures' = [figures EXCEPT ![f] = Count(f)]
    /\ UNCHANGED <<shops, offers, favourites, changes>>

Counting == \E f, g \in Figure : figures[f] # NotCounted /\ figures[g] = NotCounted
Counted == \A f \in Figure : figures[f] # NotCounted

\* A table changes, under the eyes of a dashboard or after it was answered.
Changing ==
    IF Counting
    THEN changes' = changes + 1 /\ UNCHANGED figures
    ELSE changes' = 0 /\ figures' = [f \in Figure |-> NotCounted]

\* Businesses.tla: update, remove and approve.
ChangeBusiness(b) ==
    /\ ~shops[b].archived
    /\ \E row \in {[shops[b] EXCEPT !.status = "CLOSED"], [shops[b] EXCEPT !.status = "ACTIVE"],
                   [shops[b] EXCEPT !.archived = TRUE],
                   [shops[b] EXCEPT !.verification = "VERIFIED"]} :
           row # shops[b] /\ shops' = [shops EXCEPT ![b] = row]
    /\ Changing
    /\ UNCHANGED <<offers, favourites>>

\* OfferAdmin.tla: publish, pause (no longer PUBLISHED) and remove.
ChangeOffer(o) ==
    /\ ~offers[o].archived
    /\ \E row \in {[offers[o] EXCEPT !.status = "PUBLISHED"], [offers[o] EXCEPT !.status = "DRAFT"],
                   [offers[o] EXCEPT !.archived = TRUE]} :
           row # offers[o] /\ offers' = [offers EXCEPT ![o] = row]
    /\ Changing
    /\ UNCHANGED <<shops, favourites>>

\* Favourites.tla: an active business is added, any favourite is removed.
ChangeFavourite(b) ==
    /\ favourites' = [favourites EXCEPT ![b] = IF @ = "kept" THEN "removed" ELSE "kept"]
    /\ favourites[b] # "kept" => b \in AppBusinesses
    /\ UNCHANGED <<shops, offers, figures, changes>>

Next ==
    \/ \E f \in Figure : CountFigure(f)
    \/ \E b \in Business : ChangeBusiness(b) \/ ChangeFavourite(b)
    \/ \E o \in Offer : ChangeOffer(o)

Spec == Init /\ [][Next]_shopVars

----------------------------------------------------------------------------
\* The pages agree: what one list shows, the page it leads to shows too; a
\* business's page has all of its listed offers up to its limit, and beyond it no
\* offer in place of a newer one; the app offers nothing that reserve refuses, and
\* what reserve accepts unseen is a removed offer; favourites lead to businesses of
\* the app; an admin's search leaves the list only for a removed business with a
\* matching description.  Not claimed, since it is false: that a listed offer's
\* business is open, and that findNearby and the plain list of favourites lead to
\* businesses that are.
PagesAgree ==
    /\ AppOffers \subseteq AdminOffers \cap ReservableOffers
    /\ \A o \in ReservableOffers \ AppOffers : offers[o].archived
    /\ \A b \in AppBusinesses :
           LET listed == {o \in AppOffers : SoldBy[o] = b} IN
           /\ PageOffers(b) \subseteq listed
           /\ Cardinality(listed) <= ActiveOffersLimit => PageOffers(b) = listed
           /\ \A o \in PageOffers(b), x \in listed \ PageOffers(b) : x < o
    /\ \A b \in SearchedBusinesses \ AdminBusinesses : shops[b].archived /\ b \in Described
    /\ AppFavourites = AllFavourites \cap AppBusinesses
    /\ AppBusinesses \cup BusinessesToVerify \subseteq AdminBusinesses \cap NearbyBusinesses

\* Each figure of a dashboard is the size of the list it stands for, off by no more
\* than one for each change that came while the dashboard was counted.
FiguresAgree ==
    Counted =>
        \A p \in {<<"total_businesses", AdminBusinesses>>, <<"active_businesses", AppBusinesses>>,
                  <<"pending_business_verifications", BusinessesToVerify>>,
                  <<"total_offers", AdminOffers>>, <<"published_offers", AppOffers>>} :
            /\ figures[p[1]] <= Cardinality(p[2]) + changes
            /\ Cardinality(p[2]) <= figures[p[1]] + changes

\* Lists, pages and figures tell the admins and the customers the same.
ListsAgree == PagesAgree /\ FiguresAgree
=============================================================================
