------------------------------- MODULE ImageRows -------------------------------
(***************************************************************************)
(* The image of one row and the objects in S3, for the four services that  *)
(* replace images, each in its own way:                                    *)
(*                                                                         *)
(*   business  find, upload, save the entity, delete the old image         *)
(*             (BusinessesService.updateBusinessSettings)                  *)
(*   category  the same (CategoriesService.update)                         *)
(*   staff     find, upload, write the named columns, delete the old image *)
(*             (StaffService.update)                                       *)
(*   user      find, upload, delete the old image, write the named columns *)
(*             (UsersService.updateProfileFromApp)                         *)
(*                                                                         *)
(* The other handlers of the first three save the entity they read, its    *)
(* image included.  The updates of category and staff also take the image  *)
(* as text: a URL, which they write without an upload or a deletion.       *)
(* Offers are in OfferAdmin.                                               *)
(***************************************************************************)
EXTENDS Integers, FiniteSets

CONSTANTS Calls,       \* handler executions that may be in flight
          MaxImages    \* bound: images uploaded to S3

VARIABLES
    kind,     \* whose image it is
    image,    \* the row's image column
    objects,  \* S3: how many images were uploaded, which of them exist
    imgCall,  \* the handlers in flight
    revived,  \* history: a save without an upload wrote back a replaced image
    cutShort, \* history: the old images of handlers that ended before their write
    untidy,   \* history: a handler was cut short, or two replaced one image,
              \* or a text did
    pasted    \* history: the row's image is one that a text put back

imageVars == <<kind, image, objects, imgCall, revived, cutShort, untidy, pasted>>

----------------------------------------------------------------------------
NoImage == 0
Image == 0..MaxImages
Kind == {"business", "category", "staff", "user"}

Idle == [pc |-> "idle", seen |-> NoImage, new |-> NoImage]

TypeOK ==
    /\ kind \in Kind
    /\ image \in Image
    /\ objects \in [uploaded: Image, stored: SUBSET (1..MaxImages)]
    /\ imgCall \in [Calls -> [pc: {"idle", "upload", "deleteEarly", "write", "save", "deleteOld"},
                              seen: Image, new: Image]]
    /\ revived \in BOOLEAN /\ untidy \in BOOLEAN /\ pasted \in BOOLEAN
    /\ cutShort \in SUBSET Image

\* The row was created with or without an image.
Init ==
    /\ kind \in Kind
    /\ \E n \in {0, 1} :
           /\ n <= MaxImages
           /\ image = n
           /\ objects = [uploaded |-> n, stored |-> 1..n]
    /\ imgCall = [c \in Calls |-> Idle]
    /\ revived = FALSE /\ untidy = FALSE /\ pasted = FALSE
    /\ cutShort = {}

Return(c) == imgCall' = [imgCall EXCEPT ![c] = Idle]
Goto(c, pc) == imgCall' = [imgCall EXCEPT ![c].pc = pc]

----------------------------------------------------------------------------
\* findOne, with a new image in the request.
FindForUpload(c) ==
    /\ imgCall[c].pc = "idle"
    /\ imgCall' = [imgCall EXCEPT ![c] = [pc |-> "upload", seen |-> image, new |-> NoImage]]
    /\ UNCHANGED <<kind, image, objects, revived, cutShort, untidy, pasted>>

\* findOne by a handler that uploads no image and saves the entity or a text.
FindForSave(c) ==
    /\ imgCall[c].pc = "idle"
    /\ kind # "user"
    /\ imgCall' = [imgCall EXCEPT ![c] = [pc |-> "save", seen |-> image, new |-> NoImage]]
    /\ UNCHANGED <<kind, image, objects, revived, cutShort, untidy, pasted>>

\* Mutant: every old image is deleted before the row is written.
AfterUploadDeleting(c) == "deleteEarly"

\* Only the user's old image is deleted before the row is written.
AfterUpload(c) ==
    IF kind = "user" /\ imgCall[c].seen # NoImage THEN "deleteEarly" ELSE "write"

UploadImage(c) ==
    LET n == objects.uploaded + 1 IN
    /\ imgCall[c].pc = "upload"
    /\ n <= MaxImages
    /\ objects' = [uploaded |-> n, stored |-> objects.stored \cup {n}]
    /\ imgCall' = [imgCall EXCEPT ![c].pc = AfterUpload(c), ![c].new = n]
    /\ UNCHANGED <<kind, image, revived, cutShort, untidy, pasted>>

DeleteEarly(c) ==
    /\ imgCall[c].pc = "deleteEarly"
    /\ objects' = [objects EXCEPT !.stored = @ \ {imgCall[c].seen}]
    /\ Goto(c, "write")
    /\ UNCHANGED <<kind, image, revived, cutShort, untidy, pasted>>

OldImageGoes(c) == kind # "user" /\ imgCall[c].seen # NoImage

\* save and update alike set the image column: the new image is in either.
WriteImage(c) ==
    /\ imgCall[c].pc = "write"
    /\ image' = imgCall[c].new
    /\ untidy' = (untidy \/ image # imgCall[c].seen)
    /\ pasted' = FALSE
    /\ IF OldImageGoes(c) THEN Goto(c, "deleteOld") ELSE Return(c)
    /\ UNCHANGED <<kind, objects, revived, cutShort>>

DeleteOldImage(c) ==
    /\ imgCall[c].pc = "deleteOld"
    /\ objects' = [objects EXCEPT !.stored = @ \ {imgCall[c].seen}]
    /\ Return(c)
    /\ UNCHANGED <<kind, image, revived, cutShort, untidy, pasted>>

\* save writes the image column when it differs from the one that was read.
SaveEntity(c) ==
    /\ imgCall[c].pc = "save"
    /\ image' = imgCall[c].seen
    /\ revived' = (revived \/ image # imgCall[c].seen)
    /\ Return(c)
    /\ UNCHANGED <<kind, objects, cutShort, untidy, pasted>>

\* The URLs a form may hold: of all images but those no row has shown yet.
Unwritten == {imgCall[d].new : d \in {x \in Calls : imgCall[x].pc \in {"deleteEarly", "write"}}}
Known == {image, NoImage} \cup ((1..objects.uploaded) \ Unwritten)

\* An update of a category (merged into the entity) or a staff user (a named
\* column) that brings the image as text: the current URL, an old one, or none.
WriteText(c) ==
    /\ imgCall[c].pc = "save"
    /\ kind \in {"category", "staff"}
    /\ image' \in Known
    /\ pasted' = (image' # NoImage /\ (pasted \/ image' # image))
    /\ untidy' = (untidy \/ image' # image)
    /\ Return(c)
    /\ UNCHANGED <<kind, objects, revived, cutShort>>

\* The process dies, S3 throws or the database refuses the write.
Abandon(c) ==
    /\ imgCall[c].pc # "idle"
    /\ cutShort' = IF imgCall[c].pc = "write" THEN cutShort \cup {imgCall[c].seen} ELSE cutShort
    /\ untidy' = TRUE
    /\ Return(c)
    /\ UNCHANGED <<kind, image, objects, revived, pasted>>

----------------------------------------------------------------------------
Handler(c) ==
    \/ FindForUpload(c) \/ FindForSave(c)
    \/ UploadImage(c) \/ DeleteEarly(c) \/ WriteImage(c) \/ DeleteOldImage(c)
    \/ SaveEntity(c) \/ WriteText(c)
    \/ Abandon(c)

Next == \E c \in Calls : Handler(c)

Spec == Init /\ [][Next]_imageVars

----------------------------------------------------------------------------
\* A user's image is deleted before the row stops showing it.
BetweenDeleteAndWrite ==
    kind = "user" /\ \/ \E c \in Calls : imgCall[c].pc = "write" /\ imgCall[c].seen = image
                     \/ image \in cutShort

\* The image a business, category or staff user shows exists, however uploads
\* overlap or fail, unless a save that brought no image wrote back a deleted one,
\* or it is one that the text of an update put back after the row had lost it.
\* A user's image may be missing too: while an update has deleted it and not yet
\* written the new one, and for good when it fails in between.
ImageExists ==
    image \in objects.stored \cup {NoImage} \/ revived \/ pasted \/ BetweenDeleteAndWrite

\* As long as no handler fails, no two replace the same image and no text does,
\* S3 holds no image but the one shown and those of handlers still at work.
NoOrphans ==
    \/ untidy \/ revived
    \/ objects.stored \subseteq
           {image} \cup {imgCall[c].new : c \in Calls}
                   \cup {imgCall[c].seen : c \in {d \in Calls : imgCall[d].pc = "deleteOld"}}

\* Nothing shown is deleted, nothing unused is kept, with those exceptions.
ImageKept == ImageExists /\ NoOrphans
=============================================================================
