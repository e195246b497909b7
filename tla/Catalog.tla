------------------------------- MODULE Catalog -------------------------------
(***************************************************************************)
(* Products with their images and their contract template.                 *)
(*                                                                         *)
(* A product is registered by one request, then updated and deleted by     *)
(* others.  No request is a transaction: every save, insert and bulk       *)
(* update commits alone.  A request keeps the Product it read first (open  *)
(* session in view): later strategies of the request ask the database      *)
(* whether the product is live but go on with the entity they have, and    *)
(* saving it writes every column, mainImage and deletedAt included.        *)
(*                                                                         *)
(* An image is one uploaded file, its URL and the row that refers to it.   *)
(***************************************************************************)
EXTENDS Naturals

CONSTANTS
    Products,    \* products, each named by the request that registers it
    Images,
    Requests,    \* PATCH and DELETE requests
    None         \* no product, no image

ASSUME CatalogAssumption == None \notin Products /\ None \notin Images

VARIABLES
    reg,         \* each product's registration request
    product,     \* the row, and whether its deletedAt is set
    mainImage,   \* Product.mainImage
    owner,       \* Image.product of each image row, None without a row
    main,        \* images whose row has Image.main
    template,    \* products with a ContractTemplate row
    stored,      \* files in the S3 bucket
    saved,       \* images whose row was ever inserted
    removed,     \* products whose deletion ran to its end after their registration
    req          \* each PATCH or DELETE request

imageVars == <<owner, main, saved>>
rowVars  == <<product, mainImage>>
vars == <<reg, rowVars, imageVars, template, stored, removed, req>>

Registration == [pc   : {"new", "uploaded", "product", "images", "main", "done"},
                 imgs : SUBSET Images,
                 main : Images \cup {None}]

\* The strategies of an update, in the order Spring lists them.
Rank == [content |-> 1, delete |-> 2, upload |-> 3, mainFile |-> 4, mainUrl |-> 5]
Strategies == DOMAIN Rank

UpdatePc == {"next", "uploaded", "row", "insert", "clear", "set"} \cup Strategies
DeletePc == {"softDelete", "dropTemplate"}
Request == [pc   : {"new", "done"} \cup UpdatePc \cup DeletePc,
            todo : SUBSET Strategies,
            p    : Products \cup {None},
            seen : Images \cup {None},   \* mainImage of the entity the session holds
            held : Images \cup {None}]   \* the image a strategy works on
NewRequest == [pc |-> "new", todo |-> {}, p |-> None, seen |-> None, held |-> None]

TypeOK ==
    /\ reg \in [Products -> Registration]
    /\ product \in [Products -> {"none", "live", "deleted"}]
    /\ mainImage \in [Products -> Images \cup {None}]
    /\ owner \in [Images -> Products \cup {None}]
    /\ main \subseteq {i \in Images : owner[i] # None}   \* only a row has the flag
    /\ template \subseteq Products
    /\ stored \subseteq Images
    /\ saved \subseteq Images
    /\ removed \subseteq Products
    /\ req \in [Requests -> Request]

Init ==
    /\ reg = [p \in Products |-> [pc |-> "new", imgs |-> {}, main |-> None]]
    /\ product = [p \in Products |-> "none"]
    /\ mainImage = [p \in Products |-> None]
    /\ owner = [i \in Images |-> None]
    /\ main = {}
    /\ template = {}
    /\ stored = {}
    /\ saved = {}
    /\ removed = {}
    /\ req = [r \in Requests |-> NewRequest]

RowsOf(p) == {i \in Images : owner[i] = p}
Fresh(i) == i \notin stored

\* INSERT of image rows, none of them or all of them main.
InsertImages(S, p, isMain) ==
    /\ owner' = [i \in Images |-> IF i \in S THEN p ELSE owner[i]]
    /\ main' = IF isMain THEN main \cup S ELSE main
    /\ saved' = saved \cup S

\* DELETE of image rows.
RemoveImages(S) ==
    /\ owner' = [i \in Images |-> IF i \in S THEN None ELSE owner[i]]
    /\ main' = main \ S
    /\ UNCHANGED saved

-----------------------------------------------------------------------------
(* ProductRegistrationServiceImpl.registerProduct                           *)

RegStep(p, from, to) ==
    /\ reg[p].pc = from
    /\ reg' = [reg EXCEPT ![p].pc = to]

\* The files are sent first; a main image is required, others are optional.
UploadFiles(p, S, m) ==
    /\ reg[p].pc = "new"
    /\ m \notin S /\ \A i \in S \cup {m} : Fresh(i)
    /\ reg' = [reg EXCEPT ![p] = [pc |-> "uploaded", imgs |-> S, main |-> m]]
    /\ stored' = stored \cup S \cup {m}
    /\ UNCHANGED <<rowVars, imageVars, template, removed, req>>

\* From here on the product is listed and can be updated and deleted.
SaveProduct(p) ==
    /\ RegStep(p, "uploaded", "product")
    /\ product' = [product EXCEPT ![p] = "live"]
    /\ mainImage' = [mainImage EXCEPT ![p] = reg[p].main]
    /\ UNCHANGED <<imageVars, template, stored, removed, req>>

SaveImages(p) ==
    /\ RegStep(p, "product", "images")
    /\ InsertImages(reg[p].imgs, p, FALSE)
    /\ UNCHANGED <<rowVars, template, stored, removed, req>>

SaveMainImage(p) ==
    /\ RegStep(p, "images", "main")
    /\ InsertImages({reg[p].main}, p, TRUE)
    /\ UNCHANGED <<rowVars, template, stored, removed, req>>

\* Mutant: the template is saved as soon as the product is.
SaveTemplateEarly(p) ==
    /\ \/ RegStep(p, "product", "done")
       \/ RegStep(p, "main", "done")
    /\ template' = template \cup {p}
    /\ UNCHANGED <<rowVars, imageVars, stored, removed, req>>

SaveTemplate(p) ==
    /\ RegStep(p, "main", "done")
    /\ template' = template \cup {p}
    /\ UNCHANGED <<rowVars, imageVars, stored, removed, req>>

\* S3 or MySQL fails, or the server dies: what was committed stays.
RegistrationFails(p) ==
    /\ reg[p].pc \notin {"new", "done"}
    /\ reg' = [reg EXCEPT ![p].pc = "done"]
    /\ UNCHANGED <<rowVars, imageVars, template, stored, removed, req>>

-----------------------------------------------------------------------------
(* ProductUpdateServiceImpl.updateProductInfo                               *)

Active(r) == req[r].pc \notin {"new", "done"}

\* The client knows the product, which may be deleted by now.
StartUpdate(r, p, todo) ==
    /\ req[r].pc = "new"
    /\ product[p] # "none"
    /\ todo # {}
    /\ req' = [req EXCEPT ![r] = [NewRequest EXCEPT !.pc = "next", !.todo = todo, !.p = p]]
    /\ UNCHANGED <<reg, rowVars, imageVars, template, stored, removed>>

Turn(r, s) ==
    /\ req[r].pc = "next" /\ s \in req[r].todo
    /\ \A o \in req[r].todo : Rank[s] <= Rank[o]

\* Mutant: a product the session has already is not asked for again.
ReadOnce(r, to) ==
    /\ product[req[r].p] = "live" \/ req[r].seen # None
    /\ req' = [req EXCEPT ![r].pc = to,
                          ![r].seen = IF @ = None THEN mainImage[req[r].p] ELSE @]

\* findById: the row must be live, the entity is the one the session has, if any.
Read(r, to) ==
    /\ product[req[r].p] = "live"
    /\ req' = [req EXCEPT ![r].pc = to,
                          ![r].seen = IF @ = None THEN mainImage[req[r].p] ELSE @]

Finish(r, s) ==
    req' = [req EXCEPT ![r].todo = @ \ {s},
                       ![r].pc = IF req[r].todo = {s} THEN "done" ELSE "next"]

\* The entity was live when it was read, and is written whole.
WriteRow(r, u) ==
    /\ product' = [product EXCEPT ![req[r].p] = "live"]
    /\ mainImage' = [mainImage EXCEPT ![req[r].p] = u]

ReadProduct(r, s) ==
    /\ s # "upload" /\ Turn(r, s)
    /\ Read(r, s)
    /\ UNCHANGED <<reg, rowVars, imageVars, template, stored, removed>>

\* Mutant: saving a product also saves the images it was read with.
SaveContentAndImages(r) ==
    /\ req[r].pc = "content"
    /\ WriteRow(r, req[r].seen)
    /\ InsertImages({req[r].seen}, req[r].p, FALSE)
    /\ Finish(r, "content")
    /\ UNCHANGED <<reg, template, stored, removed>>

\* Texts or categories; those that change nothing are not written.
SaveContent(r) ==
    /\ req[r].pc = "content"
    /\ WriteRow(r, req[r].seen) \/ UNCHANGED rowVars
    /\ Finish(r, "content")
    /\ UNCHANGED <<reg, imageVars, template, stored, removed>>

\* Neither the product of the rows nor their main flag is looked at.
DeleteImages(r, S) ==
    /\ req[r].pc = "delete"
    /\ S # {}
    /\ RemoveImages(S)
    /\ Finish(r, "delete")
    /\ UNCHANGED <<reg, rowVars, template, stored, removed>>

\* New images are sent before the product is looked up...
UploadImage(r, i) ==
    /\ Turn(r, "upload") /\ Fresh(i)
    /\ stored' = stored \cup {i}
    /\ req' = [req EXCEPT ![r].pc = "uploaded", ![r].held = i]
    /\ UNCHANGED <<reg, rowVars, imageVars, template, removed>>

ReadAfterUpload(r) ==
    /\ req[r].pc = "uploaded"
    /\ Read(r, "upload")
    /\ UNCHANGED <<reg, rowVars, imageVars, template, stored, removed>>

SaveNewImage(r) ==
    /\ req[r].pc = "upload"
    /\ InsertImages({req[r].held}, req[r].p, FALSE)
    /\ Finish(r, "upload")
    /\ UNCHANGED <<reg, rowVars, template, stored, removed>>

\* Mutant: the image is chosen and recorded, its file is sent by the client later.
UploadMainLater(r, i) ==
    /\ req[r].pc = "mainFile" /\ Fresh(i)
    /\ req' = [req EXCEPT ![r].pc = "row", ![r].held = i]
    /\ UNCHANGED <<reg, rowVars, imageVars, template, stored, removed>>

\* ...a new main image after it.
UploadMain(r, i) ==
    /\ req[r].pc = "mainFile" /\ Fresh(i)
    /\ stored' = stored \cup {i}
    /\ req' = [req EXCEPT ![r].pc = "row", ![r].held = i]
    /\ UNCHANGED <<reg, rowVars, imageVars, template, removed>>

SaveMainFile(r) ==
    /\ req[r].pc = "row"
    /\ WriteRow(r, req[r].held)
    /\ req' = [req EXCEPT ![r].pc = "insert", ![r].seen = req[r].held]
    /\ UNCHANGED <<reg, imageVars, template, stored, removed>>

InsertMain(r) ==
    /\ req[r].pc = "insert"
    /\ InsertImages({req[r].held}, req[r].p, TRUE)
    /\ req' = [req EXCEPT ![r].pc = "clear"]
    /\ UNCHANGED <<reg, rowVars, template, stored, removed>>

\* A URL the client has seen.  An entity that does not change is not written.
SaveMainUrl(r, u) ==
    /\ req[r].pc = "mainUrl" /\ u \in stored
    /\ \/ u = req[r].seen /\ UNCHANGED rowVars
       \/ u # req[r].seen /\ WriteRow(r, u)
    /\ req' = [req EXCEPT ![r].pc = "clear", ![r].seen = u, ![r].held = u]
    /\ UNCHANGED <<reg, imageVars, template, stored, removed>>

\* ImageServiceImpl.changeMainImage: one UPDATE for the product's rows...
ClearMain(r) ==
    /\ req[r].pc = "clear"
    /\ main' = main \ RowsOf(req[r].p)
    /\ req' = [req EXCEPT ![r].pc = "set"]
    /\ UNCHANGED <<reg, rowVars, owner, saved, template, stored, removed>>

\* ...and one for the row with the URL, whatever product it is of.
SetMain(r) ==
    /\ req[r].pc = "set"
    /\ main' = main \cup {i \in {req[r].held} : owner[i] # None}
    /\ Finish(r, IF "mainFile" \in req[r].todo THEN "mainFile" ELSE "mainUrl")
    /\ UNCHANGED <<reg, rowVars, owner, saved, template, stored, removed>>

-----------------------------------------------------------------------------
(* ProductDeleteServiceImpl.deleteProductInfo                               *)

StartDelete(r, p) ==
    /\ req[r].pc = "new"
    /\ product[p] = "live"
    /\ req' = [req EXCEPT ![r] = [NewRequest EXCEPT !.pc = "softDelete", !.p = p,
                                                    !.seen = mainImage[p]]]
    /\ UNCHANGED <<reg, rowVars, imageVars, template, stored, removed>>

\* The transaction that deletes the images also flushes the product.
SoftDelete(r) ==
    /\ req[r].pc = "softDelete"
    /\ product' = [product EXCEPT ![req[r].p] = "deleted"]
    /\ mainImage' = [mainImage EXCEPT ![req[r].p] = req[r].seen]
    /\ RemoveImages(RowsOf(req[r].p))
    /\ req' = [req EXCEPT ![r].pc = "dropTemplate"]
    /\ UNCHANGED <<reg, template, stored, removed>>

\* Mutant: like the image rows, the template is removed only if the product is deleted.
DropTemplateOfDeleted(r) ==
    LET p == req[r].p IN
    /\ req[r].pc = "dropTemplate"
    /\ template' = IF product[p] = "deleted" THEN template \ {p} ELSE template
    /\ removed' = IF reg[p].pc = "done" THEN removed \cup {p} ELSE removed
    /\ req' = [req EXCEPT ![r].pc = "done"]
    /\ UNCHANGED <<reg, rowVars, imageVars, stored>>

DropTemplate(r) ==
    LET p == req[r].p IN
    /\ req[r].pc = "dropTemplate"
    /\ template' = template \ {p}
    /\ removed' = IF reg[p].pc = "done" THEN removed \cup {p} ELSE removed
    /\ req' = [req EXCEPT ![r].pc = "done"]
    /\ UNCHANGED <<reg, rowVars, imageVars, stored>>

-----------------------------------------------------------------------------
\* The product is not found, S3 or MySQL fails, or the server dies: what was
\* committed stays.  A crash is all requests failing one after the other.
RequestFails(r) ==
    /\ Active(r)
    /\ req' = [req EXCEPT ![r].pc = "done"]
    /\ UNCHANGED <<reg, rowVars, imageVars, template, stored, removed>>

RegistrationStep(p) ==
    \/ \E S \in SUBSET Images, m \in Images : UploadFiles(p, S, m)
    \/ SaveProduct(p)
    \/ SaveImages(p)
    \/ SaveMainImage(p)
    \/ SaveTemplate(p)
    \/ RegistrationFails(p)

UpdateStep(r) ==
    \/ \E p \in Products, todo \in SUBSET Strategies : StartUpdate(r, p, todo)
    \/ \E s \in Strategies : ReadProduct(r, s)
    \/ SaveContent(r)
    \/ \E S \in SUBSET Images : DeleteImages(r, S)
    \/ \E i \in Images : UploadImage(r, i) \/ UploadMain(r, i) \/ SaveMainUrl(r, i)
    \/ ReadAfterUpload(r)
    \/ SaveNewImage(r)
    \/ SaveMainFile(r)
    \/ InsertMain(r)
    \/ ClearMain(r)
    \/ SetMain(r)

DeleteStep(r) ==
    \/ \E p \in Products : StartDelete(r, p)
    \/ SoftDelete(r)
    \/ DropTemplate(r)

Next ==
    \/ \E p \in Products : RegistrationStep(p)
    \/ \E r \in Requests : UpdateStep(r) \/ DeleteStep(r) \/ RequestFails(r)

Spec == Init /\ [][Next]_vars

-----------------------------------------------------------------------------
(* Properties                                                               *)

\* A product that can be applied for was registered to its end: whatever step of
\* the registration fails, the template is there only if every image row was
\* saved before it (ProductRegistrationServiceImpl 80-98).
BookableIsWhole ==
    \A p \in template : reg[p].imgs \cup {reg[p].main} \subseteq saved

\* A deletion that ran to its end after the registration takes the product off
\* the market for good: an overlapping update may bring the row back (SaveContent),
\* but nobody can apply for it again (ProductDeleteServiceImpl 21-35).
RemovedForGood == removed \cap template = {}

\* An image row that was deleted never comes back, whatever entity an overlapping
\* request read before still refers to it (ImageRepoJpaService 59-87).
ImagesNeverReturn ==
    [][\A i \in saved : owner[i] = None => owner'[i] = None]_vars

\* No row points to a file that was not sent, in any order of uploads, stale
\* saves, failures and crashes (MainImageFileUpdateStrategy 37-58).
FilesBeforeRows ==
    /\ \A i \in Images : owner[i] # None => i \in stored
    /\ \A p \in Products : product[p] # "none" => mainImage[p] \in stored

\* Requests that have found the product live and will write its row.
WritesRow == {"content", "mainFile", "row", "mainUrl", "softDelete"}
Writers(p) == {r \in Requests : req[r].p = p /\ req[r].pc \in WritesRow}

\* A deletion is undone only by a request that had found the product live before it and
\* was about to write: no request comes to that point after the deletion, not even
\* one whose session has had the product all along (ProductRepoJpaService 50,
\* ProductTextInfoUpdateStrategy 35).
RevivedByEarlierReaders ==
    [][\A p \in Products : product[p] = "deleted" =>
          /\ Writers(p)' \subseteq Writers(p)
          /\ product'[p] # "deleted" => Writers(p) # {}]_vars

\* ProductDeleteServiceImpl 24: the soft deletion of a product, once the request
\* is over, has deleted it.
DeletionLasts == \A p \in removed : product[p] = "deleted"

\* ImageServiceImpl 57-59: the product's main flags are reset before the new one
\* is set, so once all requests are over a product has one main image at most.
OneMainImage ==
    \A p \in Products :
        reg[p].pc = "done" /\ (\A r \in Requests : ~Active(r)) =>
            \A i, j \in main : owner[i] = p /\ owner[j] = p => i = j
-----------------------------------------------------------------------------
(* The inductive invariant                                                  *)

\* How far a registration is shows in what it has committed.
RegistrationsSound ==
    \A p \in Products :
        /\ reg[p].pc \in {"new", "uploaded"} => product[p] = "none"
        /\ reg[p].pc # "new" => reg[p].main \in Images /\ reg[p].imgs \cup {reg[p].main} \subseteq stored
        /\ reg[p].pc \in {"images", "main"} => reg[p].imgs \subseteq saved
        /\ reg[p].pc = "main" => reg[p].main \in saved
        /\ p \in template \cup removed => reg[p].pc = "done"

HoldsEntity(r) == req[r].pc \in {"softDelete", "row", "insert"} \cup Strategies
HoldsImage(r) == req[r].pc \in {"uploaded", "upload", "row", "insert", "clear", "set"}

\* What a request has read or sent is in the bucket.
RequestsSound ==
    \A r \in Requests :
        /\ Active(r) => req[r].p \in Products /\ product[req[r].p] # "none"
        /\ req[r].seen # None => req[r].seen \in stored
        /\ HoldsEntity(r) => req[r].seen # None
        /\ HoldsImage(r) => req[r].held \in stored

\* Images sent whose row is still to be inserted, by a registration or a request.
Unsaved(p) ==
    CASE reg[p].pc \in {"uploaded", "product"} -> reg[p].imgs \cup {reg[p].main}
      [] reg[p].pc = "images" -> {reg[p].main}
      [] OTHER -> {}
Sending(r) == req[r].pc \in {"uploaded", "upload", "row", "insert"}

\* Each of them will be inserted once, by the one who sent it.
InsertedOnce ==
    /\ saved \subseteq stored
    /\ \A i \in Images : owner[i] # None => i \in saved
    /\ \A p \in Products :
          /\ Unsaved(p) \cap saved = {}
          /\ reg[p].pc # "new" => reg[p].main \notin reg[p].imgs
          /\ \A q \in Products \ {p} : Unsaved(p) \cap Unsaved(q) = {}
    /\ \A r \in Requests : Sending(r) =>
          /\ req[r].held \notin saved
          /\ \A p \in Products : req[r].held \notin Unsaved(p)
          /\ \A q \in Requests \ {r} : Sending(q) => req[r].held # req[q].held

CatalogInv ==
    /\ TypeOK
    /\ RegistrationsSound
    /\ RequestsSound
    /\ InsertedOnce
    /\ BookableIsWhole
    /\ RemovedForGood
    /\ FilesBeforeRows
=============================================================================
