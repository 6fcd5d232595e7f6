------------------------------ MODULE OfferAdmin ------------------------------
(***************************************************************************)
(* OffersService on one offer: update, publish, pause and remove by admins *)
(* while the order handlers move the offer's stock.                        *)
(*                                                                         *)
(* The order handlers lock the offer row; the admin handlers do not.  They *)
(* read it, and later write either the named columns (repository.update)   *)
(* or, with repository.save, every column that differs from what they read *)
(* (save compares the entity with the row of that moment).                 *)
(*                                                                         *)
(* One image stands for the main image and the gallery, which are replaced *)
(* alike: by a file, which is uploaded, or by a URL given as text, which   *)
(* the form may have read long ago.  Left out: the other texts, prices and *)
(* the pickup window, whose check (INVALID_PICKUP_WINDOW) ends update      *)
(* after the upload, as Abandon does; images that belong to other rows.    *)
(***************************************************************************)
EXTENDS Integers, FiniteSets

CONSTANTS Calls,       \* admin handlers that may be in flight
          Units,       \* quantity_total the offer is created with
          MaxImages    \* bound: images uploaded to S3

ASSUME OfferAdminAssumption == Units \in Nat /\ MaxImages \in Nat

VARIABLES
    row,      \* the offers row
    images,   \* S3: the images uploaded so far, the objects that exist
    held,     \* units of the orders that hold stock (Reservations.tla)
    sold,     \* units of the orders that were paid
    call,     \* the admin handlers in flight
    stale,    \* history: a save wrote back a column changed since it was read
    pasted    \* history: the row's image is one that an update's text put back

vars == <<row, images, held, sold, call, stale, pasted>>

----------------------------------------------------------------------------
NoImage == 0
Image == 0..MaxImages

Row == [total: Nat, remaining: Nat, reserved: Nat, archived: BOOLEAN, image: Image,
        status: {"DRAFT", "PUBLISHED", "PAUSED"}]

\* create stores quantity_remaining = quantity_total and the status DRAFT.
NewRow(image) == [total |-> Units, remaining |-> Units, reserved |-> 0,
                  archived |-> FALSE, image |-> image, status |-> "DRAFT"]

Operation == {"update", "publish", "pause", "remove"}
Idle == [pc |-> "idle", op |-> "none", seen |-> NewRow(NoImage), image |-> NoImage]

TypeOK ==
    /\ row \in Row
    /\ images \in [uploaded: Image, stored: SUBSET (1..MaxImages)]
    /\ held \in Nat /\ sold \in Nat
    /\ call \in [Calls -> [pc: {"idle", "upload", "write", "deleteOld"},
                           op: Operation \cup {"none"}, seen: Row, image: Image]]
    /\ stale \in BOOLEAN /\ pasted \in BOOLEAN

\* The offer has been created, with or without an image.
Init ==
    /\ \E n \in {0, 1} :
           /\ n <= MaxImages
           /\ row = NewRow(n)
           /\ images = [uploaded |-> n, stored |-> 1..n]
    /\ held = 0 /\ sold = 0
    /\ call = [c \in Calls |-> Idle]
    /\ stale = FALSE /\ pasted = FALSE

Return(c) == call' = [call EXCEPT ![c] = Idle]

----------------------------------------------------------------------------
(* Every admin handler starts with a findOne that skips archived offers. *)
FindOffer(c, op) ==
    /\ call[c].pc = "idle"
    /\ ~row.archived
    /\ call' = [call EXCEPT ![c] = [pc |-> IF op = "update" THEN "upload" ELSE "write",
                                    op |-> op, seen |-> row, image |-> NoImage]]
    /\ UNCHANGED <<row, images, held, sold, stale, pasted>>

(* update *)

\* buildOfferFileUpdates: the new image goes to S3 under a key of its own.
UploadImage(c) ==
    LET n == images.uploaded + 1 IN
    /\ call[c].pc = "upload"
    /\ n <= MaxImages
    /\ images' = [uploaded |-> n, stored |-> images.stored \cup {n}]
    /\ call' = [call EXCEPT ![c].pc = "write", ![c].image = n]
    /\ UNCHANGED <<row, held, sold, stale, pasted>>

NoUpload(c) ==
    /\ call[c].pc = "upload"
    /\ call' = [call EXCEPT ![c].pc = "write"]
    /\ UNCHANGED <<row, images, held, sold, stale, pasted>>

\* Mutant: update saves the entity it read, as the other handlers do.
UpdatedEntity(c, total, url) ==
    [call[c].seen EXCEPT !.total = total,
                         !.image = IF call[c].image = NoImage THEN url ELSE call[c].image]

\* A file overrides a text; without either the column stays as it is.
Updated(c, total, url) ==
    [row EXCEPT !.total = total,
                !.image = IF call[c].image = NoImage THEN url ELSE call[c].image]

\* The URLs a form may hold: of all images but those no row has shown yet.
Unwritten == {call[d].image : d \in {x \in Calls : call[x].pc = "write"}}
Known == {row.image, NoImage} \cup ((1..images.uploaded) \ Unwritten)

\* repository.update: quantity_total may change, quantity_remaining does not.
\* url is the image without a file: row.image when the form sends no text (or
\* the current URL), an old one when it sends that, NoImage when it clears the
\* field or names an image that is not this offer's.  A text deletes nothing.
UpdateOffer(c) ==
    \E total \in {row.total, Units + 1}, url \in Known :
        /\ call[c].pc = "write" /\ call[c].op = "update"
        /\ row' = Updated(c, total, url)
        /\ pasted' = (/\ row'.image \notin {call[c].image, NoImage}
                      /\ pasted \/ row'.image # row.image)
        /\ IF call[c].image # NoImage /\ call[c].seen.image # NoImage
           THEN call' = [call EXCEPT ![c].pc = "deleteOld"]
           ELSE Return(c)
        /\ UNCHANGED <<images, held, sold, stale>>

\* Mutant: whatever image the row carries now is deleted.
DeleteCurrentImage(c) ==
    /\ call[c].pc = "deleteOld"
    /\ images' = [images EXCEPT !.stored = @ \ {row.image}]
    /\ Return(c)
    /\ UNCHANGED <<row, held, sold, stale, pasted>>

\* oldUrlsToDelete holds the image that was read before the upload.
DeleteOldImage(c) ==
    /\ call[c].pc = "deleteOld"
    /\ images' = [images EXCEPT !.stored = @ \ {call[c].seen.image}]
    /\ Return(c)
    /\ UNCHANGED <<row, held, sold, stale, pasted>>

(* publish, pause, remove *)

Changed(r, op) ==
    CASE op = "publish" -> [r EXCEPT !.status = "PUBLISHED"]
      [] op = "pause"   -> [r EXCEPT !.status = "PAUSED"]
      [] op = "remove"  -> [r EXCEPT !.archived = TRUE]

SaveOffer(c) ==
    /\ call[c].pc = "write" /\ call[c].op # "update"
    /\ row' = Changed(call[c].seen, call[c].op)
    /\ stale' = (stale \/ row # call[c].seen)
    /\ Return(c)
    /\ UNCHANGED <<images, held, sold, pasted>>

\* The process dies, or the handler throws.
Abandon(c) ==
    /\ call[c].pc # "idle"
    /\ Return(c)
    /\ UNCHANGED <<row, images, held, sold, stale, pasted>>

----------------------------------------------------------------------------
(* The order handlers, as far as this offer's row is concerned. *)
Monus(a, b) == IF a > b THEN a - b ELSE 0

\* Mutant: reserve does not look at quantity_remaining.
ReserveUnchecked(q) ==
    /\ row.status = "PUBLISHED"
    /\ row' = [row EXCEPT !.remaining = @ - q, !.reserved = @ + q]
    /\ held' = held + q
    /\ UNCHANGED <<images, sold, call, stale, pasted>>

\* reserve asks for the status PUBLISHED; it does not look at is_archived.
Reserve(q) ==
    /\ row.status = "PUBLISHED"
    /\ q <= row.remaining
    /\ row' = [row EXCEPT !.remaining = @ - q, !.reserved = @ + q]
    /\ held' = held + q
    /\ UNCHANGED <<images, sold, call, stale, pasted>>

\* Cancelled, expired or out of payment attempts.
Release(q) ==
    /\ q <= held
    /\ row' = [row EXCEPT !.remaining = @ + q, !.reserved = Monus(@, q)]
    /\ held' = held - q
    /\ UNCHANGED <<images, sold, call, stale, pasted>>

Sell(q) ==
    /\ q <= held
    /\ row' = [row EXCEPT !.reserved = Monus(@, q)]
    /\ held' = held - q /\ sold' = sold + q
    /\ UNCHANGED <<images, call, stale, pasted>>

\* An admin cancels a paid order.
Unsell(q) ==
    /\ q <= sold
    /\ row' = [row EXCEPT !.remaining = @ + q]
    /\ sold' = sold - q
    /\ UNCHANGED <<images, held, call, stale, pasted>>

----------------------------------------------------------------------------
Admin(c) ==
    \/ \E op \in Operation : FindOffer(c, op)
    \/ UploadImage(c) \/ NoUpload(c) \/ UpdateOffer(c) \/ DeleteOldImage(c)
    \/ SaveOffer(c)
    \/ Abandon(c)

\* Bound: an order takes at most Units units, and at most that many are out.
Order == \E q \in 1..Units :
    \/ held + sold + q <= Units + 1 /\ Reserve(q)
    \/ Release(q) \/ Sell(q) \/ Unsell(q)

Next == Order \/ \E c \in Calls : Admin(c)

Spec == Init /\ [][Next]_vars

----------------------------------------------------------------------------
\* Every unit of the offer is available, held or sold, and those held are the
\* reserved ones: what a released reservation restored stays restored.
StockConserved ==
    /\ row.remaining + held + sold = Units
    /\ row.reserved = held

\* Only a save that writes back stock it read before an order moved it can
\* lose or create units; update, whatever it overlaps with, cannot.
StockKeptUnlessStale == stale \/ StockConserved

\* The image an offer shows exists, however uploads, replacements, cleared
\* fields and resubmitted forms overlap, unless it is one that the text of an
\* update put back after the row had lost it, or a stale save came.
ImageKeptUnlessStale == stale \/ pasted \/ row.image \in images.stored \cup {NoImage}
============================================================================
