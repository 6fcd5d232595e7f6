-------------------------- MODULE OfferAdminProofs --------------------------
(***************************************************************************)
(* Offer administration, for any number of admin handlers, units and       *)
(* images: what overlapping handlers can and cannot do to the stock and to *)
(* the images of an offer.                                                 *)
(***************************************************************************)
EXTENDS OfferAdmin, TLAPS

----------------------------------------------------------------------------
(* The inductive invariant. *)

\* A handler in flight performs an operation; only update handles images, and
\* it has none of its own before the upload.
Wired ==
    \A c \in Calls :
        /\ call[c].pc # "idle" => call[c].op \in Operation
        /\ call[c].pc \in {"upload", "deleteOld"} => call[c].op = "update"
        /\ call[c].pc = "upload" => call[c].image = NoImage

TypeInv == TypeOK /\ Wired

\* S3 keys are never used twice: all that is referred to was uploaded before.
KeysUploaded ==
    /\ row.image <= images.uploaded
    /\ \A n \in images.stored : n <= images.uploaded
    /\ \A c \in Calls : /\ call[c].seen.image <= images.uploaded
                        /\ call[c].image <= images.uploaded

\* An image that is uploaded and not yet written belongs to its call alone:
\* no call deletes it, and no other call writes it.
Pending(c) == call[c].pc = "write" /\ call[c].image # NoImage

PendingIsPrivate ==
    \A c \in Calls : Pending(c) =>
        /\ call[c].image \in images.stored
        /\ call[c].image # row.image
        /\ \A d \in Calls :
               /\ call[d].seen.image # call[c].image
               /\ Pending(d) /\ d # c => call[d].image # call[c].image

\* What a call is about to delete is an image, and not the one the offer shows,
\* unless a text put that back.
DeletesOnlyReplaced ==
    \A c \in Calls : call[c].pc = "deleteOld" =>
        call[c].seen.image # NoImage /\ (pasted \/ call[c].seen.image # row.image)

ImageInv ==
    /\ pasted \/ row.image \in images.stored \cup {NoImage}
    /\ KeysUploaded
    /\ PendingIsPrivate
    /\ DeletesOnlyReplaced

IndInv == TypeInv /\ (stale \/ ImageInv)
----------------------------------------------------------------------------
(* Types, and what each action does to the calls. *)

PC == {"idle", "upload", "write", "deleteOld"}

\* Call c moves, the others stay where they are.
Moves(c, pc, op, seen, image) ==
    /\ call' \in [Calls -> [pc: PC, op: Operation \cup {"none"}, seen: Row, image: Image]]
    /\ call'[c].pc = pc /\ call'[c].op = op
    /\ call'[c].seen = seen /\ call'[c].image = image
    /\ \A d \in Calls \ {c} : call'[d] = call[d]

LEMMA NewRowType == \A n \in Image : NewRow(n) \in Row
BY OfferAdminAssumption DEF NewRow, Row

LEMMA NoImageType == NoImage \in Image
BY OfferAdminAssumption DEF NoImage, Image

LEMMA CallType ==
    ASSUME TypeOK, NEW c \in Calls
    PROVE  /\ call[c].pc \in PC /\ call[c].op \in Operation \cup {"none"}
           /\ call[c].seen \in Row /\ call[c].image \in Image
BY DEF TypeOK, PC

LEMMA ReturnMoves ==
    ASSUME TypeOK, NEW c \in Calls, Return(c)
    PROVE  Moves(c, "idle", "none", NewRow(NoImage), NoImage)
<1> DEFINE seen == NewRow(NoImage)
<1>1. seen \in Row /\ NoImage \in Image
  BY NewRowType, NoImageType
<1>2. call' = [call EXCEPT ![c] = [pc |-> "idle", op |-> "none", seen |-> seen,
                                   image |-> NoImage]]
  BY DEF Return, Idle
<1> HIDE DEF seen
<1>3. Moves(c, "idle", "none", seen, NoImage)
  BY <1>1, <1>2 DEF TypeOK, Moves, PC
<1> QED BY <1>3 DEF seen

LEMMA GotoMoves ==
    ASSUME TypeOK, NEW c \in Calls, NEW pc \in PC,
           call' = [call EXCEPT ![c].pc = pc]
    PROVE  Moves(c, pc, call[c].op, call[c].seen, call[c].image)
BY DEF TypeOK, Moves, PC

LEMMA FindOfferDoes ==
    ASSUME TypeOK, NEW c \in Calls, NEW op \in Operation, FindOffer(c, op)
    PROVE  \E pc \in {"upload", "write"} :
               /\ Moves(c, pc, op, row, NoImage)
               /\ pc = "upload" => op = "update"
<1> DEFINE pc == IF op = "update" THEN "upload" ELSE "write"
<1>1. call' = [call EXCEPT ![c] = [pc |-> pc, op |-> op, seen |-> row, image |-> NoImage]]
  BY DEF FindOffer
<1>2. pc \in {"upload", "write"} /\ (pc = "upload" => op = "update")
  OBVIOUS
<1> HIDE DEF pc
<1>3. Moves(c, pc, op, row, NoImage)
  BY <1>1, <1>2, NoImageType DEF TypeOK, Moves, PC
<1> QED BY <1>2, <1>3

LEMMA UploadImageDoes ==
    ASSUME TypeOK, NEW c \in Calls, UploadImage(c)
    PROVE  /\ images.uploaded + 1 \in 1..MaxImages
           /\ images' = [uploaded |-> images.uploaded + 1,
                         stored |-> images.stored \cup {images.uploaded + 1}]
           /\ Moves(c, "write", call[c].op, call[c].seen, images.uploaded + 1)
<1> DEFINE n == images.uploaded + 1
<1>1. n \in 1..MaxImages /\ n \in Image
  BY OfferAdminAssumption DEF UploadImage, TypeOK, Image
<1>2. images' = [uploaded |-> n, stored |-> images.stored \cup {n}]
  BY DEF UploadImage
<1>3. call' = [call EXCEPT ![c].pc = "write", ![c].image = n]
  BY DEF UploadImage
<1> HIDE DEF n
<1>4. Moves(c, "write", call[c].op, call[c].seen, n)
  BY <1>1, <1>3 DEF TypeOK, Moves, PC
<1> QED BY <1>1, <1>2, <1>4 DEF n

LEMMA NoUploadDoes ==
    ASSUME TypeOK, NEW c \in Calls, NoUpload(c)
    PROVE  Moves(c, "write", call[c].op, call[c].seen, call[c].image)
BY GotoMoves DEF NoUpload, PC

\* The image a step without a file leaves: what it was, nothing, or a pasted one.
KeepsImage ==
    /\ row'.image \in Known
    /\ pasted' \/ row'.image = NoImage \/ (row'.image = row.image /\ ~pasted)

\* The image update writes: the one it uploaded, or else what the form names.
LEMMA UpdateOfferDoes ==
    ASSUME TypeOK, NEW c \in Calls, UpdateOffer(c)
    PROVE  /\ row' \in Row /\ pasted' \in BOOLEAN
           /\ row'.remaining = row.remaining /\ row'.reserved = row.reserved
           /\ call[c].image # NoImage => row'.image = call[c].image
           /\ call[c].image = NoImage => KeepsImage
           /\ \/ /\ call[c].image # NoImage /\ call[c].seen.image # NoImage
                 /\ Moves(c, "deleteOld", call[c].op, call[c].seen, call[c].image)
              \/ Moves(c, "idle", "none", NewRow(NoImage), NoImage)
<1>1. PICK total \in {row.total, Units + 1}, url \in Known :
          /\ row' = Updated(c, total, url)
          /\ pasted' = (/\ row'.image \notin {call[c].image, NoImage}
                        /\ pasted \/ row'.image # row.image)
  BY DEF UpdateOffer
<1>2. total \in Nat /\ call[c].image \in Image /\ url \in Image
  BY OfferAdminAssumption, CallType, NoImageType DEF TypeOK, Row, Image, Known
<1>3. /\ row' \in Row
      /\ row'.remaining = row.remaining /\ row'.reserved = row.reserved
      /\ row'.image = IF call[c].image = NoImage THEN url ELSE call[c].image
  BY <1>1, <1>2 DEF Updated, TypeOK, Row
<1>4. pasted' \in BOOLEAN /\ (call[c].image = NoImage => KeepsImage)
  <2>1. pasted \in BOOLEAN
    BY DEF TypeOK
  <2> HIDE DEF NoImage
  <2> QED BY <1>1, <1>3, <2>1, Zenon DEF KeepsImage
<1>5. CASE call[c].image # NoImage /\ call[c].seen.image # NoImage
  <2>1. call' = [call EXCEPT ![c].pc = "deleteOld"]
    BY <1>5 DEF UpdateOffer
  <2> QED BY <1>3, <1>4, <1>5, <2>1, GotoMoves DEF PC
<1>6. CASE ~(call[c].image # NoImage /\ call[c].seen.image # NoImage)
  <2>1. Return(c)
    BY <1>6 DEF UpdateOffer
  <2> QED BY <1>3, <1>4, <2>1, ReturnMoves
<1> QED BY <1>5, <1>6

LEMMA SaveOfferDoes ==
    ASSUME TypeInv, NEW c \in Calls, SaveOffer(c)
    PROVE  /\ row' \in Row
           /\ Moves(c, "idle", "none", NewRow(NoImage), NoImage)
           /\ ~stale' => /\ row'.remaining = row.remaining
                         /\ row'.reserved = row.reserved
                         /\ row'.image = row.image
<1>1. call[c].op \in {"publish", "pause", "remove"} /\ call[c].seen \in Row
  BY CallType DEF TypeInv, Wired, SaveOffer, Operation
<1>2. /\ row' \in Row
      /\ row'.remaining = call[c].seen.remaining
      /\ row'.reserved = call[c].seen.reserved
      /\ row'.image = call[c].seen.image
  BY <1>1 DEF SaveOffer, Changed, Row
<1>3. ~stale' => row = call[c].seen
  BY DEF SaveOffer
<1> QED BY <1>2, <1>3, ReturnMoves DEF SaveOffer, TypeInv
LEMMA DeleteOldImageDoes ==
    ASSUME TypeOK, NEW c \in Calls, DeleteOldImage(c)
    PROVE  /\ images' \in [uploaded: Image, stored: SUBSET (1..MaxImages)]
           /\ images'.uploaded = images.uploaded
           /\ images'.stored = images.stored \ {call[c].seen.image}
           /\ Moves(c, "idle", "none", NewRow(NoImage), NoImage)
<1>1. images' = [images EXCEPT !.stored = @ \ {call[c].seen.image}]
  BY DEF DeleteOldImage
<1>2. Moves(c, "idle", "none", NewRow(NoImage), NoImage)
  BY ReturnMoves DEF DeleteOldImage
<1> QED BY <1>1, <1>2 DEF TypeOK

LEMMA UnitsMove ==
    ASSUME TypeOK, NEW m \in Nat, NEW n \in Nat,
           row' = [row EXCEPT !.remaining = m, !.reserved = n]
    PROVE  row' \in Row /\ row'.image = row.image
BY DEF TypeOK, Row

\* The order handlers leave everything but the units alone.
LEMMA OrderDoes ==
    ASSUME TypeOK, Order
    PROVE  /\ row' \in Row
           /\ row'.image = row.image
           /\ held' \in Nat /\ sold' \in Nat
           /\ UNCHANGED <<images, call, stale, pasted>>
<1>1. PICK q \in 1..Units : Reserve(q) \/ Release(q) \/ Sell(q) \/ Unsell(q)
  BY DEF Order
<1>2. q \in Nat
  BY OfferAdminAssumption
<1>3. CASE Reserve(q)
  <2>1. row.remaining - q \in Nat /\ row.reserved + q \in Nat /\ held + q \in Nat
    BY <1>2, <1>3 DEF Reserve, TypeOK, Row
  <2>2. row' = [row EXCEPT !.remaining = row.remaining - q, !.reserved = row.reserved + q]
    BY <1>3 DEF Reserve
  <2> QED BY <1>3, <2>1, <2>2, UnitsMove DEF Reserve, TypeOK
<1>4. CASE Release(q)
  <2> DEFINE n == Monus(row.reserved, q)
  <2>1. row.remaining + q \in Nat /\ n \in Nat /\ held - q \in Nat
    BY <1>2, <1>4 DEF Release, Monus, TypeOK, Row
  <2>2. row' = [row EXCEPT !.remaining = row.remaining + q, !.reserved = n]
    BY <1>4 DEF Release
  <2> HIDE DEF n
  <2> QED BY <1>4, <2>1, <2>2, UnitsMove DEF Release, TypeOK
<1>5. CASE Sell(q)
  BY <1>2, <1>5 DEF Sell, Monus, TypeOK, Row
<1>6. CASE Unsell(q)
  BY <1>2, <1>6 DEF Unsell, TypeOK, Row
<1> QED BY <1>1, <1>3, <1>4, <1>5, <1>6

LEMMA WiredMoves ==
    ASSUME Wired, NEW c \in Calls, NEW pc, NEW op, NEW seen, NEW image,
           Moves(c, pc, op, seen, image),
           pc # "idle" => op \in Operation,
           pc \in {"upload", "deleteOld"} => op = "update",
           pc = "upload" => image = NoImage
    PROVE  Wired'
BY DEF Wired, Moves

LEMMA TypeInvInit == Init => TypeInv
<1> SUFFICES ASSUME Init PROVE TypeInv
  OBVIOUS
<1>1. PICK n \in {0, 1} : /\ n <= MaxImages
                          /\ row = NewRow(n)
                          /\ images = [uploaded |-> n, stored |-> 1..n]
  BY DEF Init
<1>2. n \in Image
  BY <1>1, OfferAdminAssumption DEF Image
<1>3. row \in Row
  BY <1>1, <1>2, NewRowType
<1>4. images \in [uploaded: Image, stored: SUBSET (1..MaxImages)]
  BY <1>1, <1>2, OfferAdminAssumption
<1>5. call = [c \in Calls |-> [pc |-> "idle", op |-> "none", seen |-> NewRow(NoImage),
                               image |-> NoImage]]
  BY DEF Init, Idle
<1>6. call \in [Calls -> [pc: PC, op: Operation \cup {"none"}, seen: Row, image: Image]]
  BY <1>5, NewRowType, NoImageType DEF PC
<1>7. held \in Nat /\ sold \in Nat /\ stale \in BOOLEAN /\ pasted \in BOOLEAN
  BY DEF Init
<1>8. Wired
  BY <1>5 DEF Wired
<1> QED BY <1>3, <1>4, <1>6, <1>7, <1>8 DEF TypeInv, TypeOK, PC

LEMMA TypeInvNext == TypeInv /\ [Next]_vars => TypeInv'
<1> SUFFICES ASSUME TypeInv, [Next]_vars PROVE TypeInv'
  OBVIOUS
<1> USE DEF TypeInv
<1>1. CASE Order
  BY <1>1, OrderDoes DEF TypeOK, Wired
<1>2. ASSUME NEW c \in Calls, NEW op \in Operation, FindOffer(c, op)
      PROVE  TypeInv'
  <2>1. PICK pc \in {"upload", "write"} : Moves(c, pc, op, row, NoImage)
                                          /\ (pc = "upload" => op = "update")
    BY <1>2, FindOfferDoes
  <2>2. Wired'
    BY <2>1, WiredMoves
  <2> QED BY <1>2, <2>1, <2>2 DEF FindOffer, TypeOK, Moves, PC
<1>3. ASSUME NEW c \in Calls, UploadImage(c)
      PROVE  TypeInv'
  <2>1. Wired'
    BY <1>3, UploadImageDoes, WiredMoves DEF UploadImage, Wired
  <2>2. images' \in [uploaded: Image, stored: SUBSET (1..MaxImages)]
    BY <1>3, UploadImageDoes, OfferAdminAssumption DEF TypeOK, Image
  <2> QED BY <1>3, <2>1, <2>2, UploadImageDoes DEF UploadImage, TypeOK, Moves, PC
<1>4. ASSUME NEW c \in Calls, NoUpload(c)
      PROVE  TypeInv'
  <2>1. Wired'
    BY <1>4, NoUploadDoes, WiredMoves DEF NoUpload, Wired
  <2> QED BY <1>4, <2>1, NoUploadDoes DEF NoUpload, TypeOK, Moves, PC
<1>5. ASSUME NEW c \in Calls, UpdateOffer(c)
      PROVE  TypeInv'
  <2>1. Wired'
    BY <1>5, UpdateOfferDoes, WiredMoves DEF UpdateOffer, Operation
  <2> QED BY <1>5, <2>1, UpdateOfferDoes DEF UpdateOffer, TypeOK, Moves, PC
<1>6. ASSUME NEW c \in Calls, DeleteOldImage(c)
      PROVE  TypeInv'
  <2>1. Wired'
    BY <1>6, DeleteOldImageDoes, WiredMoves
  <2> QED BY <1>6, <2>1, DeleteOldImageDoes DEF DeleteOldImage, TypeOK, Moves, PC
<1>7. ASSUME NEW c \in Calls, SaveOffer(c)
      PROVE  TypeInv'
  <2>1. Wired'
    BY <1>7, SaveOfferDoes, WiredMoves
  <2>2. stale' \in BOOLEAN
    BY <1>7 DEF SaveOffer, TypeOK
  <2> QED BY <1>7, <2>1, <2>2, SaveOfferDoes DEF SaveOffer, TypeOK, Moves, PC
<1>8. ASSUME NEW c \in Calls, Abandon(c)
      PROVE  TypeInv'
  <2>1. Wired'
    BY <1>8, ReturnMoves, WiredMoves DEF Abandon
  <2> QED BY <1>8, <2>1, ReturnMoves DEF Abandon, TypeOK, Moves, PC
<1>9. CASE UNCHANGED vars
  BY <1>9 DEF vars, TypeOK, Wired
<1> QED BY <1>1, <1>2, <1>3, <1>4, <1>5, <1>6, <1>7, <1>8, <1>9 DEF Next, Admin

\* The rows, the stored images and the handlers keep their types.
THEOREM TypeCorrect == Spec => []TypeOK
<1>1. TypeInv => TypeOK
  BY DEF TypeInv
<1> QED BY <1>1, TypeInvInit, TypeInvNext, PTL DEF Spec

----------------------------------------------------------------------------
(* The stock.  No admin handler that is not stale touches it. *)

LEMMA OrderConserves ==
    ASSUME TypeOK, StockConserved, Order
    PROVE  StockConserved'
<1>1. PICK q \in 1..Units : Reserve(q) \/ Release(q) \/ Sell(q) \/ Unsell(q)
  BY DEF Order
<1>2. q \in Nat /\ Units \in Nat
  BY OfferAdminAssumption
<1> USE DEF StockConserved, TypeOK, Row
<1>3. CASE Reserve(q)
  BY <1>2, <1>3 DEF Reserve
<1>4. CASE Release(q)
  BY <1>2, <1>4 DEF Release, Monus
<1>5. CASE Sell(q)
  BY <1>2, <1>5 DEF Sell, Monus
<1>6. CASE Unsell(q)
  BY <1>2, <1>6 DEF Unsell
<1> QED BY <1>1, <1>3, <1>4, <1>5, <1>6

\* The steps of the admin handlers that leave the units of the row alone.
LEMMA AdminConserves ==
    ASSUME TypeInv, NEW c \in Calls, Admin(c)
    PROVE  /\ UNCHANGED <<held, sold>>
           /\ stale => stale'
           /\ stale' \/ (row'.remaining = row.remaining /\ row'.reserved = row.reserved)
<1> USE DEF TypeInv
<1>1. CASE UpdateOffer(c)
  BY <1>1, UpdateOfferDoes DEF UpdateOffer
<1>2. CASE SaveOffer(c)
  BY <1>2, SaveOfferDoes DEF SaveOffer, TypeOK
<1>3. CASE \/ \E op \in Operation : FindOffer(c, op)
           \/ UploadImage(c) \/ NoUpload(c) \/ DeleteOldImage(c) \/ Abandon(c)
  BY <1>3 DEF FindOffer, UploadImage, NoUpload, DeleteOldImage, Abandon
<1> QED BY <1>1, <1>2, <1>3 DEF Admin

LEMMA StockNext == TypeInv /\ StockKeptUnlessStale /\ [Next]_vars => StockKeptUnlessStale'
<1> SUFFICES ASSUME TypeInv, StockKeptUnlessStale, [Next]_vars
             PROVE  StockKeptUnlessStale'
  OBVIOUS
<1> USE DEF StockKeptUnlessStale
<1>1. CASE Order
  BY <1>1, OrderConserves, OrderDoes DEF TypeInv
<1>2. ASSUME NEW c \in Calls, Admin(c)
      PROVE  StockKeptUnlessStale'
  BY <1>2, AdminConserves DEF StockConserved
<1>3. CASE UNCHANGED vars
  BY <1>3 DEF vars, StockConserved
<1> QED BY <1>1, <1>2, <1>3 DEF Next

\* However admin and order handlers overlap, only a save that writes back a
\* column changed since it was read can lose or create units of the offer.
THEOREM OnlyStaleSavesMoveStock == Spec => []StockKeptUnlessStale
<1>1. Init => StockKeptUnlessStale
  BY OfferAdminAssumption DEF Init, StockKeptUnlessStale, StockConserved, NewRow
<1> QED BY <1>1, StockNext, TypeInvInit, TypeInvNext, PTL DEF Spec
----------------------------------------------------------------------------
(* The images. *)

\* The images a form may name are no call's own.
LEMMA KnownImages ==
    ASSUME TypeInv, ImageInv, NEW n \in Known
    PROVE  /\ n \in Image /\ n <= images.uploaded
           /\ \A c \in Calls : Pending(c) => n # call[c].image
<1>1. n \in Image /\ n <= images.uploaded
  BY OfferAdminAssumption
     DEF Known, TypeInv, TypeOK, Row, Image, NoImage, ImageInv, KeysUploaded
<1>2. ASSUME NEW c \in Calls, Pending(c)
      PROVE  n # call[c].image
  <2>1. call[c].image \in Unwritten /\ call[c].image \notin {row.image, NoImage}
    BY <1>2 DEF Unwritten, Pending, ImageInv, PendingIsPrivate
  <2> QED BY <2>1 DEF Known
<1> QED BY <1>1, <1>2

\* A call that goes on without an upload keeps what it refers to, or drops it.
LEMMA ImageKeeps ==
    ASSUME TypeInv, ImageInv, NEW c \in Calls, NEW pc, NEW op, NEW seen, NEW image,
           Moves(c, pc, op, seen, image),
           seen.image \in {call[c].seen.image, row.image, NoImage},
           image \in {call[c].image, NoImage},
           NoImage \in Image, images.uploaded \in Image,
           pc = "write" /\ image # NoImage => Pending(c),
           pc # "deleteOld",
           KeepsImage, UNCHANGED images
    PROVE  ImageInv'
<1> USE DEF ImageInv, Moves
<1>1. /\ row'.image <= images.uploaded
      /\ \A d \in Calls : Pending(d) => row'.image # call[d].image
      /\ pasted' \/ row'.image = NoImage \/ (row'.image = row.image /\ ~pasted)
  BY KnownImages DEF KeepsImage
<1>2. pasted' \/ row'.image \in images'.stored \cup {NoImage}
  BY <1>1
<1>3. NoImage <= images.uploaded
  BY DEF NoImage, Image
<1>4. KeysUploaded'
  BY <1>1, <1>3 DEF KeysUploaded
<1>5. \A d \in Calls : Pending(d)' => Pending(d) /\ call'[d].image = call[d].image
  BY DEF Pending
<1>6. \A d \in Calls : call'[d].seen.image \in {call[d].seen.image, row.image, NoImage}
  OBVIOUS
<1>7. PendingIsPrivate'
  BY <1>1, <1>5, <1>6 DEF PendingIsPrivate, Pending
<1>8. DeletesOnlyReplaced'
  BY <1>1 DEF DeletesOnlyReplaced
<1> QED BY <1>2, <1>4, <1>7, <1>8

LEMMA ImageInvInit == Init => ImageInv
<1> SUFFICES ASSUME Init PROVE ImageInv
  OBVIOUS
<1>1. PICK n \in {0, 1} : /\ n <= MaxImages
                          /\ row = NewRow(n)
                          /\ images = [uploaded |-> n, stored |-> 1..n]
  BY DEF Init
<1>2. row.image = n /\ images.uploaded = n /\ images.stored = 1..n
  BY <1>1 DEF NewRow
<1>3. \A c \in Calls : /\ call[c].pc = "idle" /\ call[c].image = NoImage
                       /\ call[c].seen.image = NoImage
  BY DEF Init, Idle, NewRow
<1>4. row.image \in images.stored \cup {NoImage}
  BY <1>2 DEF NoImage
<1>5. KeysUploaded
  BY <1>2, <1>3 DEF KeysUploaded, NoImage
<1>6. PendingIsPrivate /\ DeletesOnlyReplaced
  BY <1>3 DEF PendingIsPrivate, Pending, DeletesOnlyReplaced
<1> QED BY <1>4, <1>5, <1>6 DEF ImageInv

LEMMA UploadImageKeeps ==
    ASSUME TypeInv, ImageInv, NEW c \in Calls, UploadImage(c)
    PROVE  ImageInv'
<1> DEFINE n == images.uploaded + 1
<1>1. n \in 1..MaxImages /\ n # NoImage
  BY UploadImageDoes DEF TypeInv, NoImage
<1>2. images'.uploaded = n /\ images'.stored = images.stored \cup {n}
  BY UploadImageDoes DEF TypeInv
<1>3. Moves(c, "write", call[c].op, call[c].seen, n)
  BY UploadImageDoes DEF TypeInv
<1>4. UNCHANGED <<row, pasted>>
  BY DEF UploadImage
<1>5. \A m \in Int : m <= images.uploaded => m # n /\ m <= n
  BY DEF TypeInv, TypeOK, Image
<1>6. /\ row.image \in Int /\ \A m \in images.stored : m \in Int
      /\ \A d \in Calls : call[d].seen.image \in Int /\ call[d].image \in Int
  BY CallType, OfferAdminAssumption DEF TypeInv, TypeOK, Row, Image
<1>7. n <= n
  BY <1>1
<1> HIDE DEF n
<1>8. pasted' \/ row'.image \in images'.stored \cup {NoImage}
  BY <1>2, <1>4 DEF ImageInv
<1>9. KeysUploaded'
  <2>1. row'.image <= n /\ \A m \in images'.stored : m <= n
    BY <1>2, <1>4, <1>5, <1>6, <1>7 DEF ImageInv, KeysUploaded
  <2>2. \A d \in Calls : call'[d].seen.image <= n /\ call'[d].image <= n
    BY <1>3, <1>5, <1>6, <1>7 DEF ImageInv, KeysUploaded, Moves
  <2> QED BY <1>2, <2>1, <2>2 DEF KeysUploaded
<1>10. PendingIsPrivate'
  <2>1. /\ row.image # n
        /\ \A d \in Calls : call[d].seen.image # n /\ call[d].image # n
    BY <1>5, <1>6 DEF ImageInv, KeysUploaded
  <2> QED BY <1>2, <1>3, <1>4, <2>1 DEF ImageInv, PendingIsPrivate, Pending, Moves
<1>11. DeletesOnlyReplaced'
  BY <1>3, <1>4 DEF ImageInv, DeletesOnlyReplaced, Moves
<1> QED BY <1>8, <1>9, <1>10, <1>11 DEF ImageInv

LEMMA UpdateOfferKeeps ==
    ASSUME TypeInv, ImageInv, NEW c \in Calls, UpdateOffer(c)
    PROVE  ImageInv'
<1>1. UNCHANGED images /\ call[c].pc = "write"
  BY DEF UpdateOffer
<1>2. CASE call[c].image = NoImage
  <2>1. Moves(c, "idle", "none", NewRow(NoImage), NoImage) /\ KeepsImage
    BY <1>2, UpdateOfferDoes DEF TypeInv
  <2>2. NewRow(NoImage).image = NoImage
    BY DEF NewRow
  <2>3. NoImage \in Image /\ images.uploaded \in Image
    BY NoImageType DEF TypeInv, TypeOK
  <2> HIDE DEF NoImage
  <2> QED BY <1>1, <2>1, <2>2, <2>3, ImageKeeps
<1>3. CASE call[c].image # NoImage
  <2> DEFINE n == call[c].image
  <2>1. row'.image = n
    BY <1>3, UpdateOfferDoes DEF TypeInv
  <2>2. \/ /\ call[c].seen.image # NoImage
            /\ Moves(c, "deleteOld", call[c].op, call[c].seen, n)
         \/ Moves(c, "idle", "none", NewRow(NoImage), NoImage)
    BY UpdateOfferDoes DEF TypeInv
  <2>3. \/ Moves(c, "deleteOld", call[c].op, call[c].seen, n)
        \/ Moves(c, "idle", "none", NewRow(NoImage), NoImage)
    BY <2>2
  <2>4. Pending(c)
    BY <1>1, <1>3 DEF Pending
  <2>5. /\ n \in images.stored
        /\ \A d \in Calls : /\ call[d].seen.image # n
                            /\ Pending(d) /\ d # c => call[d].image # n
    BY <2>4 DEF ImageInv, PendingIsPrivate
  <2>6. NewRow(NoImage).image = NoImage /\ NoImage <= images.uploaded
    BY DEF NewRow, NoImage, TypeInv, TypeOK, Image
  <2>7. \A d \in Calls : /\ call'[d].seen.image \in {call[d].seen.image, NoImage}
                         /\ call'[d].image \in {call[d].image, NoImage}
                         /\ Pending(d)' => Pending(d) /\ d # c /\ call'[d] = call[d]
                         /\ call'[d].pc = "deleteOld" =>
                                call'[d].seen.image = call[d].seen.image
    BY <2>3, <2>6 DEF Moves, Pending
  <2>8. KeysUploaded'
    BY <1>1, <2>1, <2>6, <2>7 DEF ImageInv, KeysUploaded
  <2>9. PendingIsPrivate'
    BY <1>1, <2>1, <2>5, <2>7 DEF ImageInv, PendingIsPrivate, Pending
  <2>10. \A d \in Calls : call'[d].pc = "deleteOld" => call'[d].seen.image # NoImage
    BY <2>2 DEF ImageInv, DeletesOnlyReplaced, Moves
  <2>11. DeletesOnlyReplaced'
    BY <2>1, <2>5, <2>7, <2>10 DEF ImageInv, DeletesOnlyReplaced
  <2> QED BY <1>1, <2>1, <2>5, <2>8, <2>9, <2>11 DEF ImageInv
<1> QED BY <1>2, <1>3

LEMMA DeleteOldImageKeeps ==
    ASSUME TypeInv, ImageInv, NEW c \in Calls, DeleteOldImage(c)
    PROVE  ImageInv'
<1> DEFINE old == call[c].seen.image
<1>1. /\ Moves(c, "idle", "none", NewRow(NoImage), NoImage)
      /\ images'.uploaded = images.uploaded
      /\ images'.stored = images.stored \ {old}
  BY DeleteOldImageDoes DEF TypeInv
<1>2. UNCHANGED <<row, pasted>> /\ call[c].pc = "deleteOld"
  BY DEF DeleteOldImage
<1>3. NewRow(NoImage).image = NoImage /\ NoImage <= images.uploaded
  BY DEF NewRow, NoImage, TypeInv, TypeOK, Image
<1>4. pasted \/ row.image # old
  BY <1>2 DEF ImageInv, DeletesOnlyReplaced
<1>5. \A d \in Calls : Pending(d)' => Pending(d) /\ d # c /\ call'[d] = call[d]
  BY <1>1 DEF Moves, Pending
<1>6. \A d \in Calls : /\ call'[d].seen.image \in {call[d].seen.image, NoImage}
                       /\ call'[d].image \in {call[d].image, NoImage}
  BY <1>1, <1>3 DEF Moves
<1>7. pasted' \/ row'.image \in images'.stored \cup {NoImage}
  BY <1>1, <1>2, <1>4 DEF ImageInv
<1>8. KeysUploaded'
  BY <1>1, <1>2, <1>3, <1>6 DEF ImageInv, KeysUploaded
<1>9. PendingIsPrivate'
  BY <1>1, <1>2, <1>5, <1>6 DEF ImageInv, PendingIsPrivate, Pending
<1>10. DeletesOnlyReplaced'
  BY <1>1, <1>2 DEF ImageInv, DeletesOnlyReplaced, Moves
<1> QED BY <1>7, <1>8, <1>9, <1>10 DEF ImageInv

LEMMA ImageNext == IndInv /\ [Next]_vars => (stale \/ ImageInv)'
<1> SUFFICES ASSUME IndInv, [Next]_vars, ~stale' PROVE ImageInv'
  OBVIOUS
<1>a. TypeInv /\ TypeOK /\ NoImage \in Image /\ images.uploaded \in Image
  BY NoImageType DEF IndInv, TypeInv, TypeOK
<1>b. NewRow(NoImage).image = NoImage
  BY DEF NewRow
<1>c. ImageInv
  <2>1. stale => stale'
    BY <1>a, OrderDoes, AdminConserves DEF Next, vars
  <2> QED BY <2>1 DEF IndInv
<1>d. UNCHANGED pasted /\ row'.image = row.image => KeepsImage
  <2>1. row.image \in Known /\ pasted \in BOOLEAN
    BY <1>a DEF Known, TypeOK
  <2> QED BY <2>1 DEF KeepsImage
<1>1. CASE Order
  <2>1. row'.image = row.image /\ UNCHANGED <<images, call, pasted>>
    BY <1>a, <1>1, OrderDoes
  <2> QED BY <1>c, <2>1 DEF ImageInv, KeysUploaded, PendingIsPrivate, Pending,
                            DeletesOnlyReplaced
<1>2. ASSUME NEW c \in Calls, NEW op \in Operation, FindOffer(c, op)
      PROVE  ImageInv'
  <2>1. PICK pc \in {"upload", "write"} : Moves(c, pc, op, row, NoImage)
    BY <1>a, <1>2, FindOfferDoes
  <2>2. UNCHANGED <<row, images, pasted>>
    BY <1>2 DEF FindOffer
  <2> QED BY <1>a, <1>c, <1>d, <2>1, <2>2, ImageKeeps
<1>3. ASSUME NEW c \in Calls, UploadImage(c)
      PROVE  ImageInv'
  BY <1>a, <1>c, <1>3, UploadImageKeeps
<1>4. ASSUME NEW c \in Calls, NoUpload(c)
      PROVE  ImageInv'
  <2>1. /\ Moves(c, "write", call[c].op, call[c].seen, NoImage)
        /\ UNCHANGED <<row, images, pasted>>
    BY <1>a, <1>4, NoUploadDoes DEF NoUpload, TypeInv, Wired
  <2> QED BY <1>a, <1>c, <1>d, <2>1, ImageKeeps
<1>5. ASSUME NEW c \in Calls, UpdateOffer(c)
      PROVE  ImageInv'
  BY <1>a, <1>c, <1>5, UpdateOfferKeeps
<1>6. ASSUME NEW c \in Calls, DeleteOldImage(c)
      PROVE  ImageInv'
  BY <1>a, <1>c, <1>6, DeleteOldImageKeeps
<1>7. ASSUME NEW c \in Calls, SaveOffer(c)
      PROVE  ImageInv'
  <2>1. Moves(c, "idle", "none", NewRow(NoImage), NoImage) /\ row'.image = row.image
    BY <1>a, <1>7, SaveOfferDoes
  <2>2. UNCHANGED <<images, pasted>>
    BY <1>7 DEF SaveOffer
  <2> QED BY <1>a, <1>b, <1>c, <1>d, <2>1, <2>2, ImageKeeps
<1>8. ASSUME NEW c \in Calls, Abandon(c)
      PROVE  ImageInv'
  <2>1. /\ Moves(c, "idle", "none", NewRow(NoImage), NoImage)
        /\ UNCHANGED <<row, images, pasted>>
    BY <1>a, <1>8, ReturnMoves DEF Abandon
  <2> QED BY <1>a, <1>b, <1>c, <1>d, <2>1, ImageKeeps
<1>9. CASE UNCHANGED vars
  BY <1>c, <1>9 DEF vars, ImageInv, KeysUploaded, PendingIsPrivate, Pending,
                    DeletesOnlyReplaced
<1> QED BY <1>1, <1>2, <1>3, <1>4, <1>5, <1>6, <1>7, <1>8, <1>9 DEF Next, Admin

\* The image an offer shows is there, however uploads, replacements, cleared
\* fields and resubmitted forms overlap, unless it is one that the text of an
\* update put back after the row had lost it, or a stale save came.
THEOREM OnlyStaleUrlsLoseImages == Spec => []ImageKeptUnlessStale
<1>1. Init => IndInv
  BY TypeInvInit, ImageInvInit DEF IndInv
<1>2. IndInv /\ [Next]_vars => IndInv'
  BY TypeInvNext, ImageNext DEF IndInv
<1>3. IndInv => ImageKeptUnlessStale
  BY DEF IndInv, ImageInv, ImageKeptUnlessStale
<1> QED BY <1>1, <1>2, <1>3, PTL DEF Spec
=============================================================================
