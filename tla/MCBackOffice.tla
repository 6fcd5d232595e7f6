----------------------------- MODULE MCBackOffice -----------------------------
(***************************************************************************)
(* Small instances of the back office's components for TLC.  No property   *)
(* relates the rows of two of them, so each behaviour moves one, the       *)
(* focus, and the others stay as they begin.                               *)
(***************************************************************************)
EXTENDS Integers, FiniteSets, TLC

CONSTANTS Business, Staff, Accounts, Shops, Offer, Entry, Calls, None,
          Values, Buckets, Folders, ActiveOffersLimit,
          MaxImages, MaxRows, MaxChanges, Limit   \* bounds

\* None stands for NULL, which is no row's id.
ASSUME BackOfficeAssumption ==
    /\ None \notin Business \cup Staff
    /\ IsFiniteSet(Shops) /\ IsFiniteSet(Offer) /\ Offer \subseteq Nat
    /\ {MaxImages, MaxRows, MaxChanges, ActiveOffersLimit} \subseteq Nat /\ Limit \in Nat \ {0}

VARIABLES
    focus,
    biz, home, bizCall, homeCall, review, removed, shared, stale, misplaced,   \* Businesses
    contracts, verified, upload, overlapped,                     \* Contracts
    staff, staffCall, answered, staffStale,                      \* StaffAccounts
    kind, image, objects, imgCall, revived, cutShort, untidy, pasted,   \* ImageRows
    config, url, key, place, deleted, asked,                     \* S3Urls
    shops, offers, favourites, figures, changes,               \* Storefront
    rows, born, countFirst, client, grown, shrunk, overtaken,    \* Paging
    table, entries, catCall, gone, rewritten                     \* Catalogue

\* The offers are one shop's, which matches an admin's search by its name and by
\* its description, too.
SoldBy == [o \in Offer |-> CHOOSE b \in Shops : TRUE]
Named == Shops
Described == {b \in Shops : b = CHOOSE x \in Shops : TRUE}

Biz   == INSTANCE Businesses
Con   == INSTANCE Contracts
Acc   == INSTANCE StaffAccounts WITH Staff <- Accounts
Img   == INSTANCE ImageRows
Urls  == INSTANCE S3Urls
Shop  == INSTANCE Storefront WITH Business <- Shops
Pages == INSTANCE Paging
Cat   == INSTANCE Catalogue

businessVars == <<biz, home, bizCall, homeCall, review, removed, shared, stale, misplaced>>
contractVars == <<contracts, verified, upload, overlapped>>
staffVars == <<staff, staffCall, answered, staffStale>>
imageVars == <<kind, image, objects, imgCall, revived, cutShort, untidy, pasted>>
urlVars == <<config, url, key, place, deleted, asked>>
shopVars == <<shops, offers, favourites, figures, changes>>
pageVars == <<rows, born, countFirst, client, grown, shrunk, overtaken>>
catalogueVars == <<table, entries, catCall, gone, rewritten>>

----------------------------------------------------------------------------
Init ==
    /\ focus \in {"businesses", "contracts", "staff", "images", "urls", "shop", "pages",
                  "catalogue"}
    /\ Biz!Init /\ Con!Init /\ Shop!Init
    /\ Acc!Init /\ (focus # "staff" =>
           staff = [s \in Accounts |-> Acc!NewRow(CHOOSE v \in Values : TRUE)])
    /\ Img!Init /\ (focus # "images" => kind = "user" /\ image = 0)
    /\ Urls!Init /\ (focus # "urls" => /\ config = CHOOSE c \in Urls!Config : c.bucket # Urls!NoBucket
                                      /\ key = CHOOSE k \in Urls!Key : TRUE)
    /\ Pages!Init /\ (focus # "pages" => born = 0 /\ countFirst)
    /\ Cat!Init /\ (focus # "catalogue" => table = "cities")

Next ==
    /\ UNCHANGED focus
    /\ \/ focus = "businesses" /\ Biz!Next
       \/ focus = "contracts" /\ Con!Next
       \/ focus = "staff" /\ Acc!Next
       \/ focus = "images" /\ Img!Next
       \/ focus = "urls" /\ Urls!Next
       \/ focus = "shop" /\ Shop!Next
       \/ focus = "pages" /\ Pages!Next
       \/ focus = "catalogue" /\ Cat!Next
    /\ focus # "businesses" => UNCHANGED businessVars
    /\ focus # "contracts" => UNCHANGED contractVars
    /\ focus # "staff" => UNCHANGED staffVars
    /\ focus # "images" => UNCHANGED imageVars
    /\ focus # "urls" => UNCHANGED urlVars
    /\ focus # "shop" => UNCHANGED shopVars
    /\ focus # "pages" => UNCHANGED pageVars
    /\ focus # "catalogue" => UNCHANGED catalogueVars

vars == <<focus, businessVars, contractVars, staffVars, imageVars, urlVars, shopVars, pageVars,
          catalogueVars>>

Spec == Init /\ [][Next]_vars

----------------------------------------------------------------------------
\* Bounds: what follows a stale save is not explored further, nor what follows three
\* handlers of businesses and staff in flight at a time; a dashboard counts under at
\* most MaxChanges changes.
Undisturbed ==
    /\ ~stale /\ ~misplaced /\ ~staffStale
    /\ Cardinality({s \in Staff : homeCall[s].saves})
           + Cardinality({c \in Calls : bizCall[c].op # "none"}) <= 2
    /\ changes <= MaxChanges

Symmetry == Permutations(Calls) \cup Permutations(Staff) \cup Permutations(Business)
                \cup Permutations(Entry)

----------------------------------------------------------------------------
(* The properties of the components, under their names there. *)

\* Every component's variables keep their types.
TypeOK ==
    /\ Biz!TypeOK /\ Con!TypeOK /\ Acc!TypeOK /\ Img!TypeOK /\ Urls!TypeOK /\ Shop!TypeOK
    /\ Pages!TypeOK /\ Cat!TypeOK

\* Businesses: the two copies of the primary staff agree.
PrimaryBelongs == Biz!PrimaryBelongs

\* Businesses and staff: what a caller was answered still shows, unless a stale
\* save came between.
AnswersKept == Biz!AnswersKept /\ Acc!LastAnswerStands

\* Contracts: the numbers have no gap and no repetition.
NumbersConsecutive == Con!NumbersConsecutive

\* Contracts: a verified business is to sign or has signed once.
ListedOnce == Con!ListedOnce

\* Images: the image a row shows exists.
ImageKept == Img!ImageKept

\* S3 URLs: deleting by URL deletes what was uploaded.
DeletesItsUpload == Urls!DeletesItsUpload

\* Lists, pages and dashboard figures agree.
ListsAgree == Shop!ListsAgree

\* Pagination: reading all pages shows every row once.
PagesCover == Pages!PagesCover

\* Catalogue: what was removed is offered no more.
RemovedUnlisted == Cat!RemovedUnlisted
=============================================================================
