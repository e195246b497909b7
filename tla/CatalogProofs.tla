---------------------------- MODULE CatalogProofs ----------------------------
(* Theorems about Catalog, for any number of products, images and requests. *)
EXTENDS Catalog, TLAPS

USE CatalogAssumption

-----------------------------------------------------------------------------
(* What a request becomes                                                   *)

Pcs == {"new", "done"} \cup UpdatePc \cup DeletePc

LEMMA FinishTyped ==
    ASSUME TypeOK, NEW r \in Requests, NEW s \in Strategies, Finish(r, s)
    PROVE  req' \in [Requests -> Request]
<1> DEFINE todo == req[r].todo \ {s}
           pc == IF req[r].todo = {s} THEN "done" ELSE "next"
           h == [req[r] EXCEPT !.todo = todo, !.pc = pc]
<1>1. req[r] \in Request
  BY DEF TypeOK
<1>2. todo \in SUBSET Strategies /\ pc \in Pcs
  BY <1>1 DEF Pcs, UpdatePc, Request
<1>3. req' = [req EXCEPT ![r] = h]
  BY DEF Finish, TypeOK
<1> HIDE DEF todo, pc
<1>4. h \in Request
  BY <1>1, <1>2 DEF Request, Pcs
<1> QED
  BY <1>3, <1>4 DEF TypeOK

LEMMA ReadTyped ==
    ASSUME TypeOK, NEW r \in Requests, req[r].p \in Products, NEW pc \in UpdatePc, Read(r, pc)
    PROVE  req' \in [Requests -> Request]
<1> DEFINE seen == IF req[r].seen = None THEN mainImage[req[r].p] ELSE req[r].seen
           h == [req[r] EXCEPT !.pc = pc, !.seen = seen]
<1>1. req[r] \in Request
  BY DEF TypeOK
<1>2. seen \in Images \cup {None}
  BY <1>1 DEF TypeOK, Request
<1>3. req' = [req EXCEPT ![r] = h]
  BY DEF Read, TypeOK
<1> HIDE DEF seen
<1>4. h \in Request
  BY <1>1, <1>2 DEF Request
<1> QED
  BY <1>3, <1>4 DEF TypeOK

LEMMA HeldTyped ==
    ASSUME TypeOK, NEW r \in Requests, NEW pc \in UpdatePc, NEW i \in Images,
           \/ req' = [req EXCEPT ![r].pc = pc, ![r].held = i]
           \/ req' = [req EXCEPT ![r].pc = pc, ![r].seen = i]
           \/ req' = [req EXCEPT ![r].pc = pc, ![r].seen = i, ![r].held = i]
    PROVE  req' \in [Requests -> Request]
<1>1. req[r] \in Request
  BY DEF TypeOK
<1>2. /\ [req[r] EXCEPT !.pc = pc, !.held = i] \in Request
      /\ [req[r] EXCEPT !.pc = pc, !.seen = i] \in Request
      /\ [req[r] EXCEPT !.pc = pc, !.seen = i, !.held = i] \in Request
  BY <1>1 DEF Request
<1>3. PICK h \in Request : req' = [req EXCEPT ![r] = h]
  BY <1>2 DEF TypeOK
<1> QED
  BY <1>3 DEF TypeOK

LEMMA PcTyped ==
    ASSUME TypeOK, NEW r \in Requests, NEW pc \in Pcs, req' = [req EXCEPT ![r].pc = pc]
    PROVE  req' \in [Requests -> Request]
<1> DEFINE h == [req[r] EXCEPT !.pc = pc]
<1>1. req[r] \in Request
  BY DEF TypeOK
<1>2. h \in Request
  BY <1>1 DEF Request, Pcs
<1>3. req' = [req EXCEPT ![r] = h]
  BY DEF TypeOK
<1> QED
  BY <1>2, <1>3 DEF TypeOK

-----------------------------------------------------------------------------
(* Who inserts which image                                                  *)

\* The images of S, which nobody else is to insert, get their rows.
LEMMA Inserted ==
    ASSUME InsertedOnce, NEW S \in SUBSET stored, saved' = saved \cup S,
           stored \subseteq stored',
           \A i \in Images : owner'[i] # None => owner[i] # None \/ i \in S,
           \A p \in Products : Unsaved(p)' \subseteq Unsaved(p) \ S,
           \A p \in Products : reg'[p].pc # "new" => reg'[p].main \notin reg'[p].imgs,
           \A r \in Requests : Sending(r)' =>
               Sending(r) /\ req'[r].held = req[r].held /\ req[r].held \notin S
    PROVE  InsertedOnce'
<1>1. saved' \subseteq stored'
  BY DEF InsertedOnce
<1>2. \A i \in Images : owner'[i] # None => i \in saved'
  BY DEF InsertedOnce
<1>3. \A p \in Products : Unsaved(p)' \cap saved' = {}
  BY DEF InsertedOnce
<1>4. \A p \in Products : \A q \in Products \ {p} : Unsaved(p)' \cap Unsaved(q)' = {}
  BY DEF InsertedOnce
<1>5. \A r \in Requests : Sending(r)' =>
          /\ req'[r].held \notin saved'
          /\ \A p \in Products : req'[r].held \notin Unsaved(p)'
          /\ \A q \in Requests \ {r} : Sending(q)' => req'[r].held # req'[q].held
  BY DEF InsertedOnce
<1> QED
  BY <1>1, <1>2, <1>3, <1>4, <1>5 DEF InsertedOnce

LEMMA NoneInserted ==
    ASSUME InsertedOnce, saved' = saved, stored \subseteq stored',
           \A i \in Images : owner'[i] # None => owner[i] # None,
           \A p \in Products : Unsaved(p)' \subseteq Unsaved(p),
           \A p \in Products : reg'[p].pc # "new" => reg'[p].main \notin reg'[p].imgs,
           \A r \in Requests : Sending(r)' => Sending(r) /\ req'[r].held = req[r].held
    PROVE  InsertedOnce'
<1> DEFINE S == {}
<1>1. /\ S \subseteq stored /\ saved' = saved \cup S
      /\ \A i \in Images : owner'[i] # None => owner[i] # None \/ i \in S
      /\ \A p \in Products : Unsaved(p)' \subseteq Unsaved(p) \ S
      /\ \A r \in Requests : Sending(r)' =>
             Sending(r) /\ req'[r].held = req[r].held /\ req[r].held \notin S
  OBVIOUS
<1> HIDE DEF S
<1> QED
  BY <1>1, Inserted

\* An image some request or registration is still to insert was sent.
LEMMA UnsavedStored ==
    ASSUME CatalogInv
    PROVE  /\ \A p \in Products : Unsaved(p) \subseteq stored
           /\ \A r \in Requests : Sending(r) => req[r].held \in stored
BY DEF CatalogInv, RegistrationsSound, RequestsSound, Unsaved, Sending, HoldsImage

\* Request r sends image i, which was not there.
LEMMA Sent ==
    ASSUME CatalogInv, NEW r \in Requests, NEW i \in Images, i \notin stored,
           stored' = stored \cup {i}, UNCHANGED <<reg, owner, saved>>,
           req'[r].held = i, \A q \in Requests : q # r => req'[q] = req[q]
    PROVE  InsertedOnce'
<1>1. \A p \in Products : Unsaved(p)' = Unsaved(p) /\ i \notin Unsaved(p)
  BY UnsavedStored DEF Unsaved
<1>2. \A q \in Requests : q # r => (Sending(q)' <=> Sending(q)) /\ (Sending(q) => req[q].held # i)
  BY UnsavedStored DEF Sending
<1>3. i \notin saved
  BY DEF CatalogInv, InsertedOnce
<1>4. saved' \subseteq stored' /\ \A j \in Images : owner'[j] # None => j \in saved'
  BY DEF CatalogInv, InsertedOnce
<1>5. \A p \in Products :
          /\ Unsaved(p)' \cap saved' = {}
          /\ reg'[p].pc # "new" => reg'[p].main \notin reg'[p].imgs
          /\ \A q \in Products \ {p} : Unsaved(p)' \cap Unsaved(q)' = {}
  BY <1>1 DEF CatalogInv, InsertedOnce
<1>6. \A q \in Requests : Sending(q)' =>
          /\ req'[q].held \notin saved'
          /\ \A p \in Products : req'[q].held \notin Unsaved(p)'
          /\ \A t \in Requests \ {q} : Sending(t)' => req'[q].held # req'[t].held
  BY <1>1, <1>2, <1>3 DEF CatalogInv, InsertedOnce
<1> QED
  BY <1>4, <1>5, <1>6 DEF InsertedOnce

-----------------------------------------------------------------------------
(* Each step keeps the invariant                                            *)

LEMMA InitInv == Init => CatalogInv
<1> SUFFICES ASSUME Init PROVE CatalogInv
  OBVIOUS
<1>1. TypeOK
  BY DEF Init, TypeOK, Registration, NewRequest, Request
<1>2. RegistrationsSound /\ BookableIsWhole /\ RemovedForGood /\ FilesBeforeRows
  BY DEF Init, RegistrationsSound, BookableIsWhole, RemovedForGood, FilesBeforeRows
<1>3. \A r \in Requests : req[r].pc = "new" /\ req[r].seen = None
  BY DEF Init, NewRequest
<1>4. RequestsSound
  BY <1>3 DEF RequestsSound, Active, HoldsEntity, HoldsImage, Strategies, Rank
<1>5. InsertedOnce
  BY <1>3 DEF Init, InsertedOnce, Unsaved, Sending
<1> QED
  BY <1>1, <1>2, <1>4, <1>5 DEF CatalogInv

\* A step that only moves a request.
LEMMA RequestOnly ==
    ASSUME CatalogInv, UNCHANGED <<reg, rowVars, imageVars, template, stored, removed>>,
           req' \in [Requests -> Request], RequestsSound',
           \A r \in Requests : Sending(r)' => Sending(r) /\ req'[r].held = req[r].held
    PROVE  CatalogInv'
<1> USE DEF CatalogInv, rowVars, imageVars
<1>1. TypeOK' /\ RegistrationsSound'
  BY DEF TypeOK, RegistrationsSound
<1>2. \A p \in Products : Unsaved(p)' = Unsaved(p)
  BY DEF Unsaved
<1>3. InsertedOnce'
  <2>1. \A p \in Products : reg'[p].pc # "new" => reg'[p].main \notin reg'[p].imgs
    BY DEF InsertedOnce
  <2> QED
    BY <1>2, <2>1, NoneInserted
<1>4. BookableIsWhole' /\ RemovedForGood' /\ FilesBeforeRows'
  BY DEF BookableIsWhole, RemovedForGood, FilesBeforeRows
<1> QED
  BY <1>1, <1>3, <1>4

LEMMA UploadFilesKeeps ==
    ASSUME CatalogInv, NEW p \in Products, NEW S \in SUBSET Images, NEW m \in Images,
           UploadFiles(p, S, m)
    PROVE  CatalogInv'
<1> USE DEF UploadFiles, rowVars, imageVars
<1>1. TypeOK'
  BY DEF CatalogInv, TypeOK, Registration
<1>2. RegistrationsSound'
  BY DEF CatalogInv, RegistrationsSound
<1>3. RequestsSound'
  BY DEF CatalogInv, RequestsSound, Active, HoldsEntity, HoldsImage
<1>4. InsertedOnce'
  <2>1. /\ \A q \in Products : q # p => Unsaved(q)' = Unsaved(q)
        /\ Unsaved(p)' = S \cup {m} /\ Unsaved(p)' \cap stored = {}
        /\ reg'[p].main \notin reg'[p].imgs
    BY DEF CatalogInv, TypeOK, Unsaved, Fresh
  <2>2. \A q \in Products : q # p => reg'[q] = reg[q]
    BY DEF CatalogInv, TypeOK
  <2>3. \A r \in Requests : Sending(r)' <=> Sending(r)
    BY DEF Sending
  <2>4. saved' \subseteq stored' /\ \A i \in Images : owner'[i] # None => i \in saved'
    BY DEF CatalogInv, InsertedOnce
  <2>5. \A q \in Products :
            /\ Unsaved(q)' \cap saved' = {}
            /\ reg'[q].pc # "new" => reg'[q].main \notin reg'[q].imgs
    BY <2>1, <2>2 DEF CatalogInv, InsertedOnce
  <2>6. \A q \in Products : \A t \in Products \ {q} : Unsaved(q)' \cap Unsaved(t)' = {}
    BY <2>1, UnsavedStored DEF CatalogInv, InsertedOnce
  <2>7. \A r \in Requests : Sending(r)' =>
            /\ req'[r].held \notin saved'
            /\ \A q \in Products : req'[r].held \notin Unsaved(q)'
            /\ \A t \in Requests \ {r} : Sending(t)' => req'[r].held # req'[t].held
    BY <2>1, <2>3, UnsavedStored DEF CatalogInv, InsertedOnce
  <2> QED
    BY <2>4, <2>5, <2>6, <2>7 DEF InsertedOnce
<1>5. BookableIsWhole' /\ RemovedForGood' /\ FilesBeforeRows'
  BY DEF CatalogInv, RegistrationsSound, BookableIsWhole, RemovedForGood, FilesBeforeRows
<1> QED
  BY <1>1, <1>2, <1>3, <1>4, <1>5 DEF CatalogInv

LEMMA SaveProductKeeps ==
    ASSUME CatalogInv, NEW p \in Products, SaveProduct(p)
    PROVE  CatalogInv'
<1> USE DEF SaveProduct, RegStep, rowVars, imageVars
<1>1. TypeOK'
  BY DEF CatalogInv, TypeOK, Registration
<1>2. RegistrationsSound'
  BY DEF CatalogInv, TypeOK, RegistrationsSound
<1>3. RequestsSound'
  BY DEF CatalogInv, RequestsSound, Active, HoldsEntity, HoldsImage
<1>4. InsertedOnce'
  <2>1. /\ saved' = saved /\ stored \subseteq stored'
        /\ \A i \in Images : owner'[i] # None => owner[i] # None
    OBVIOUS
  <2>2. \A q \in Products :
            /\ Unsaved(q)' \subseteq Unsaved(q)
            /\ reg'[q].pc # "new" => reg'[q].main \notin reg'[q].imgs
    BY DEF CatalogInv, InsertedOnce, Unsaved
  <2>3. \A r \in Requests : Sending(r)' =>
            Sending(r) /\ req'[r].held = req[r].held
    BY DEF Sending
  <2> QED
    BY <2>1, <2>2, <2>3, NoneInserted DEF CatalogInv
<1>5. BookableIsWhole' /\ RemovedForGood' /\ FilesBeforeRows'
  BY DEF CatalogInv, TypeOK, RegistrationsSound, BookableIsWhole, RemovedForGood, FilesBeforeRows
<1> QED
  BY <1>1, <1>2, <1>3, <1>4, <1>5 DEF CatalogInv

LEMMA SaveImagesKeeps ==
    ASSUME CatalogInv, NEW p \in Products, SaveImages(p)
    PROVE  CatalogInv'
<1> USE DEF SaveImages, RegStep, rowVars, imageVars
<1>1. TypeOK'
  BY DEF CatalogInv, TypeOK, Registration, InsertImages
<1>2. RegistrationsSound'
  BY DEF CatalogInv, RegistrationsSound, InsertImages
<1>3. RequestsSound'
  BY DEF CatalogInv, RequestsSound, Active, HoldsEntity, HoldsImage
<1>4. InsertedOnce'
  <2>1. /\ reg[p].imgs \subseteq stored /\ saved' = saved \cup reg[p].imgs /\ stored \subseteq stored'
        /\ \A i \in Images : owner'[i] # None => owner[i] # None \/ i \in reg[p].imgs
    BY DEF CatalogInv, RegistrationsSound, InsertImages
  <2>2. \A q \in Products :
            /\ Unsaved(q)' \subseteq Unsaved(q) \ reg[p].imgs
            /\ reg'[q].pc # "new" => reg'[q].main \notin reg'[q].imgs
    BY DEF CatalogInv, TypeOK, InsertedOnce, Unsaved
  <2>3. \A r \in Requests : Sending(r)' =>
            Sending(r) /\ req'[r].held = req[r].held /\ req[r].held \notin reg[p].imgs
    BY DEF CatalogInv, InsertedOnce, Unsaved, Sending
  <2> QED
    BY <2>1, <2>2, <2>3, Inserted DEF CatalogInv
<1>5. BookableIsWhole' /\ RemovedForGood' /\ FilesBeforeRows'
  BY DEF CatalogInv, RegistrationsSound, BookableIsWhole, RemovedForGood, FilesBeforeRows,
     InsertImages
<1> QED
  BY <1>1, <1>2, <1>3, <1>4, <1>5 DEF CatalogInv

LEMMA SaveMainImageKeeps ==
    ASSUME CatalogInv, NEW p \in Products, SaveMainImage(p)
    PROVE  CatalogInv'
<1> USE DEF SaveMainImage, RegStep, rowVars, imageVars
<1>1. TypeOK'
  BY DEF CatalogInv, TypeOK, Registration, InsertImages, RegistrationsSound
<1>2. RegistrationsSound'
  BY DEF CatalogInv, RegistrationsSound, InsertImages
<1>3. RequestsSound'
  BY DEF CatalogInv, RequestsSound, Active, HoldsEntity, HoldsImage
<1>4. InsertedOnce'
  <2>1. /\ {reg[p].main} \subseteq stored /\ saved' = saved \cup {reg[p].main} /\ stored \subseteq stored'
        /\ \A i \in Images : owner'[i] # None => owner[i] # None \/ i \in {reg[p].main}
    BY DEF CatalogInv, RegistrationsSound, InsertImages
  <2>2. \A q \in Products :
            /\ Unsaved(q)' \subseteq Unsaved(q) \ {reg[p].main}
            /\ reg'[q].pc # "new" => reg'[q].main \notin reg'[q].imgs
    BY DEF CatalogInv, TypeOK, InsertedOnce, Unsaved
  <2>3. \A r \in Requests : Sending(r)' =>
            Sending(r) /\ req'[r].held = req[r].held /\ req[r].held \notin {reg[p].main}
    BY DEF CatalogInv, InsertedOnce, Unsaved, Sending
  <2> QED
    BY <2>1, <2>2, <2>3, Inserted DEF CatalogInv
<1>5. BookableIsWhole' /\ RemovedForGood' /\ FilesBeforeRows'
  BY DEF CatalogInv, RegistrationsSound, BookableIsWhole, RemovedForGood, FilesBeforeRows,
     InsertImages
<1> QED
  BY <1>1, <1>2, <1>3, <1>4, <1>5 DEF CatalogInv

LEMMA SaveTemplateKeeps ==
    ASSUME CatalogInv, NEW p \in Products, SaveTemplate(p)
    PROVE  CatalogInv'
<1> USE DEF SaveTemplate, RegStep, rowVars, imageVars
<1>1. TypeOK'
  BY DEF CatalogInv, TypeOK, Registration
<1>2. RegistrationsSound'
  BY DEF CatalogInv, TypeOK, RegistrationsSound
<1>3. RequestsSound'
  BY DEF CatalogInv, RequestsSound, Active, HoldsEntity, HoldsImage
<1>4. InsertedOnce'
  <2>1. /\ saved' = saved /\ stored \subseteq stored'
        /\ \A i \in Images : owner'[i] # None => owner[i] # None
    OBVIOUS
  <2>2. \A q \in Products :
            /\ Unsaved(q)' \subseteq Unsaved(q)
            /\ reg'[q].pc # "new" => reg'[q].main \notin reg'[q].imgs
    BY DEF CatalogInv, InsertedOnce, Unsaved
  <2>3. \A r \in Requests : Sending(r)' =>
            Sending(r) /\ req'[r].held = req[r].held
    BY DEF Sending
  <2> QED
    BY <2>1, <2>2, <2>3, NoneInserted DEF CatalogInv
<1>5. BookableIsWhole' /\ RemovedForGood' /\ FilesBeforeRows'
  BY DEF CatalogInv, RegistrationsSound, BookableIsWhole, RemovedForGood, FilesBeforeRows
<1> QED
  BY <1>1, <1>2, <1>3, <1>4, <1>5 DEF CatalogInv

LEMMA RegistrationFailsKeeps ==
    ASSUME CatalogInv, NEW p \in Products, RegistrationFails(p)
    PROVE  CatalogInv'
<1> USE DEF RegistrationFails, RegStep, rowVars, imageVars
<1>1. TypeOK'
  BY DEF CatalogInv, TypeOK, Registration
<1>2. RegistrationsSound'
  BY DEF CatalogInv, RegistrationsSound
<1>3. RequestsSound'
  BY DEF CatalogInv, RequestsSound, Active, HoldsEntity, HoldsImage
<1>4. InsertedOnce'
  <2>1. /\ saved' = saved /\ stored \subseteq stored'
        /\ \A i \in Images : owner'[i] # None => owner[i] # None
    OBVIOUS
  <2>2. \A q \in Products :
            /\ Unsaved(q)' \subseteq Unsaved(q)
            /\ reg'[q].pc # "new" => reg'[q].main \notin reg'[q].imgs
    BY DEF CatalogInv, InsertedOnce, Unsaved
  <2>3. \A r \in Requests : Sending(r)' =>
            Sending(r) /\ req'[r].held = req[r].held
    BY DEF Sending
  <2> QED
    BY <2>1, <2>2, <2>3, NoneInserted DEF CatalogInv
<1>5. BookableIsWhole' /\ RemovedForGood' /\ FilesBeforeRows'
  BY DEF CatalogInv, BookableIsWhole, RemovedForGood, FilesBeforeRows
<1> QED
  BY <1>1, <1>2, <1>3, <1>4, <1>5 DEF CatalogInv

LEMMA StartUpdateKeeps ==
    ASSUME CatalogInv, NEW r \in Requests, NEW p \in Products,
           NEW todo \in SUBSET Strategies, StartUpdate(r, p, todo)
    PROVE  CatalogInv'
<1> USE DEF StartUpdate
<1>1. req' \in [Requests -> Request]
  BY DEF CatalogInv, TypeOK, NewRequest, Request, UpdatePc
<1>2. RequestsSound'
  BY DEF CatalogInv, RequestsSound, Active, HoldsEntity, HoldsImage, Strategies, Rank, NewRequest,
     rowVars
<1>3. \A q \in Requests : Sending(q)' => Sending(q) /\ req'[q].held = req[q].held
  BY DEF Sending
<1> QED
  BY <1>1, <1>2, <1>3, RequestOnly

LEMMA ReadProductKeeps ==
    ASSUME CatalogInv, NEW r \in Requests, NEW s \in Strategies, ReadProduct(r, s)
    PROVE  CatalogInv'
<1> USE DEF ReadProduct, Turn
<1>0. req[r].p \in Products
  BY DEF CatalogInv, RequestsSound, Active
<1>1. req' \in [Requests -> Request]
  BY <1>0, ReadTyped DEF CatalogInv, UpdatePc
<1>2. RequestsSound'
  BY DEF CatalogInv, TypeOK, RequestsSound, Active, HoldsEntity, HoldsImage, FilesBeforeRows,
     Strategies, Rank, Read, rowVars
<1>3. \A q \in Requests : Sending(q)' => Sending(q) /\ req'[q].held = req[q].held
  BY DEF CatalogInv, TypeOK, Sending, Strategies, Rank, Read
<1> QED
  BY <1>1, <1>2, <1>3, RequestOnly

LEMMA ReadAfterUploadKeeps ==
    ASSUME CatalogInv, NEW r \in Requests, ReadAfterUpload(r)
    PROVE  CatalogInv'
<1> USE DEF ReadAfterUpload
<1>0. req[r].p \in Products
  BY DEF CatalogInv, RequestsSound, Active
<1>1. req' \in [Requests -> Request]
  BY <1>0, ReadTyped DEF CatalogInv, UpdatePc, Strategies, Rank
<1>2. RequestsSound'
  BY DEF CatalogInv, TypeOK, RequestsSound, Active, HoldsEntity, HoldsImage, FilesBeforeRows,
     Read, rowVars
<1>3. \A q \in Requests : Sending(q)' => Sending(q) /\ req'[q].held = req[q].held
  BY DEF CatalogInv, TypeOK, Sending, Read
<1> QED
  BY <1>1, <1>2, <1>3, RequestOnly

LEMMA StartDeleteKeeps ==
    ASSUME CatalogInv, NEW r \in Requests, NEW p \in Products, StartDelete(r, p)
    PROVE  CatalogInv'
<1> USE DEF StartDelete
<1>1. req' \in [Requests -> Request]
  BY DEF CatalogInv, TypeOK, NewRequest, Request, DeletePc
<1>2. RequestsSound'
  BY DEF CatalogInv, TypeOK, RequestsSound, Active, HoldsEntity, HoldsImage, FilesBeforeRows,
     rowVars
<1>3. \A q \in Requests : Sending(q)' => Sending(q) /\ req'[q].held = req[q].held
  BY DEF Sending
<1> QED
  BY <1>1, <1>2, <1>3, RequestOnly

LEMMA RequestFailsKeeps ==
    ASSUME CatalogInv, NEW r \in Requests, RequestFails(r)
    PROVE  CatalogInv'
<1> USE DEF RequestFails
<1>1. req' \in [Requests -> Request]
  BY PcTyped DEF CatalogInv, Pcs
<1>2. RequestsSound'
  BY DEF CatalogInv, RequestsSound, Active, HoldsEntity, HoldsImage, Strategies, Rank, rowVars
<1>3. \A q \in Requests : Sending(q)' => Sending(q) /\ req'[q].held = req[q].held
  BY DEF Sending
<1> QED
  BY <1>1, <1>2, <1>3, RequestOnly

LEMMA SaveContentKeeps ==
    ASSUME CatalogInv, NEW r \in Requests, SaveContent(r)
    PROVE  CatalogInv'
<1> USE DEF SaveContent, WriteRow, rowVars, imageVars
<1>1. TypeOK'
  <2>1. req' \in [Requests -> Request]
    BY FinishTyped DEF CatalogInv, Strategies, Rank
  <2> QED
    BY <2>1 DEF CatalogInv, TypeOK, RequestsSound
<1>2. RegistrationsSound'
  BY DEF CatalogInv, TypeOK, RegistrationsSound, RequestsSound, Active
<1>3. RequestsSound'
  BY DEF CatalogInv, TypeOK, Request, Finish
<1>4. InsertedOnce'
  <2>1. /\ saved' = saved /\ stored \subseteq stored'
        /\ \A i \in Images : owner'[i] # None => owner[i] # None
    OBVIOUS
  <2>2. \A p \in Products :
            /\ Unsaved(p)' \subseteq Unsaved(p)
            /\ reg'[p].pc # "new" => reg'[p].main \notin reg'[p].imgs
    BY DEF CatalogInv, InsertedOnce, Unsaved
  <2>3. \A q \in Requests : Sending(q)' =>
            Sending(q) /\ req'[q].held = req[q].held
    BY DEF CatalogInv, TypeOK, Sending, Finish
  <2> QED
    BY <2>1, <2>2, <2>3, NoneInserted DEF CatalogInv
<1>5. BookableIsWhole' /\ RemovedForGood' /\ FilesBeforeRows'
  BY DEF CatalogInv, TypeOK, BookableIsWhole, RemovedForGood, FilesBeforeRows, RequestsSound,
     HoldsEntity, Strategies, Rank
<1> QED
  BY <1>1, <1>2, <1>3, <1>4, <1>5 DEF CatalogInv

LEMMA DeleteImagesKeeps ==
    ASSUME CatalogInv, NEW r \in Requests, NEW S \in SUBSET Images, DeleteImages(r, S)
    PROVE  CatalogInv'
<1> USE DEF DeleteImages, RemoveImages, rowVars, imageVars
<1>1. TypeOK'
  <2>1. req' \in [Requests -> Request]
    BY FinishTyped DEF CatalogInv, Strategies, Rank
  <2> QED
    BY <2>1 DEF CatalogInv, TypeOK
<1>2. RegistrationsSound'
  BY DEF CatalogInv, RegistrationsSound
<1>3. RequestsSound'
  BY DEF CatalogInv, TypeOK, Request, Finish
<1>4. InsertedOnce'
  <2>1. /\ saved' = saved /\ stored \subseteq stored'
        /\ \A i \in Images : owner'[i] # None => owner[i] # None
    OBVIOUS
  <2>2. \A p \in Products :
            /\ Unsaved(p)' \subseteq Unsaved(p)
            /\ reg'[p].pc # "new" => reg'[p].main \notin reg'[p].imgs
    BY DEF CatalogInv, InsertedOnce, Unsaved
  <2>3. \A q \in Requests : Sending(q)' =>
            Sending(q) /\ req'[q].held = req[q].held
    BY DEF CatalogInv, TypeOK, Sending, Finish
  <2> QED
    BY <2>1, <2>2, <2>3, NoneInserted DEF CatalogInv
<1>5. BookableIsWhole' /\ RemovedForGood' /\ FilesBeforeRows'
  BY DEF CatalogInv, BookableIsWhole, RemovedForGood, FilesBeforeRows
<1> QED
  BY <1>1, <1>2, <1>3, <1>4, <1>5 DEF CatalogInv

LEMMA UploadImageKeeps ==
    ASSUME CatalogInv, NEW r \in Requests, NEW i \in Images, UploadImage(r, i)
    PROVE  CatalogInv'
<1> USE DEF UploadImage, Turn, rowVars, imageVars
<1>1. TypeOK'
  <2>1. req' \in [Requests -> Request]
    BY HeldTyped DEF CatalogInv, UpdatePc
  <2> QED
    BY <2>1 DEF CatalogInv, TypeOK
<1>2. RegistrationsSound'
  BY DEF CatalogInv, RegistrationsSound
<1>3. RequestsSound'
  BY DEF CatalogInv, TypeOK, RequestsSound, Active, HoldsEntity, HoldsImage, Strategies, Rank
<1>4. InsertedOnce'
  BY Sent DEF CatalogInv, TypeOK, Fresh
<1>5. BookableIsWhole' /\ RemovedForGood' /\ FilesBeforeRows'
  BY DEF CatalogInv, BookableIsWhole, RemovedForGood, FilesBeforeRows
<1> QED
  BY <1>1, <1>2, <1>3, <1>4, <1>5 DEF CatalogInv

LEMMA SaveNewImageKeeps ==
    ASSUME CatalogInv, NEW r \in Requests, SaveNewImage(r)
    PROVE  CatalogInv'
<1> USE DEF SaveNewImage, InsertImages, rowVars, imageVars
<1>0. /\ req[r].p \in Products /\ req[r].held \in Images \cap stored
      /\ \A p \in Products : req[r].held \notin Unsaved(p)
  BY DEF CatalogInv, TypeOK, RequestsSound, Active, HoldsImage, InsertedOnce, Sending
<1>1. TypeOK'
  <2>1. req' \in [Requests -> Request]
    BY FinishTyped DEF CatalogInv, Strategies, Rank
  <2> QED
    BY <1>0, <2>1 DEF CatalogInv, TypeOK
<1>2. RegistrationsSound'
  BY DEF CatalogInv, RegistrationsSound
<1>3. RequestsSound'
  BY DEF CatalogInv, TypeOK, Request, Finish
<1>4. InsertedOnce'
  <2>1. /\ {req[r].held} \subseteq stored /\ saved' = saved \cup {req[r].held} /\ stored \subseteq stored'
        /\ \A i \in Images : owner'[i] # None => owner[i] # None \/ i \in {req[r].held}
    BY DEF CatalogInv, RequestsSound, HoldsImage
  <2>2. \A p \in Products :
            /\ Unsaved(p)' \subseteq Unsaved(p) \ {req[r].held}
            /\ reg'[p].pc # "new" => reg'[p].main \notin reg'[p].imgs
    <3>1. \A p \in Products : Unsaved(p)' = Unsaved(p)
      BY DEF Unsaved
    <3> QED
      BY <1>0, <3>1 DEF CatalogInv, InsertedOnce
  <2>3. \A q \in Requests : Sending(q)' =>
            Sending(q) /\ req'[q].held = req[q].held /\ req[q].held \notin {req[r].held}
    BY DEF CatalogInv, TypeOK, InsertedOnce, Sending, Finish
  <2> QED
    BY <2>1, <2>2, <2>3, Inserted DEF CatalogInv
<1>5. BookableIsWhole' /\ RemovedForGood' /\ FilesBeforeRows'
  BY DEF CatalogInv, BookableIsWhole, RemovedForGood, FilesBeforeRows, RequestsSound, HoldsImage
<1> QED
  BY <1>1, <1>2, <1>3, <1>4, <1>5 DEF CatalogInv

LEMMA UploadMainKeeps ==
    ASSUME CatalogInv, NEW r \in Requests, NEW i \in Images, UploadMain(r, i)
    PROVE  CatalogInv'
<1> USE DEF UploadMain, rowVars, imageVars
<1>1. TypeOK'
  <2>1. req' \in [Requests -> Request]
    BY HeldTyped DEF CatalogInv, UpdatePc
  <2> QED
    BY <2>1 DEF CatalogInv, TypeOK
<1>2. RegistrationsSound'
  BY DEF CatalogInv, RegistrationsSound
<1>3. RequestsSound'
  BY DEF CatalogInv, TypeOK, RequestsSound, Active, HoldsEntity, HoldsImage, Strategies, Rank
<1>4. InsertedOnce'
  BY Sent DEF CatalogInv, TypeOK, Fresh
<1>5. BookableIsWhole' /\ RemovedForGood' /\ FilesBeforeRows'
  BY DEF CatalogInv, BookableIsWhole, RemovedForGood, FilesBeforeRows
<1> QED
  BY <1>1, <1>2, <1>3, <1>4, <1>5 DEF CatalogInv

LEMMA SaveMainFileKeeps ==
    ASSUME CatalogInv, NEW r \in Requests, SaveMainFile(r)
    PROVE  CatalogInv'
<1> USE DEF SaveMainFile, WriteRow, rowVars, imageVars
<1>1. TypeOK'
  <2>1. req' \in [Requests -> Request]
    BY HeldTyped DEF CatalogInv, TypeOK, UpdatePc, RequestsSound, HoldsImage
  <2> QED
    BY <2>1 DEF CatalogInv, TypeOK, RequestsSound, HoldsImage, Active
<1>2. RegistrationsSound'
  BY DEF CatalogInv, RegistrationsSound, RequestsSound, Active
<1>3. RequestsSound'
  BY DEF CatalogInv, TypeOK, RequestsSound, Active, HoldsEntity, HoldsImage
<1>4. InsertedOnce'
  <2>1. /\ saved' = saved /\ stored \subseteq stored'
        /\ \A i \in Images : owner'[i] # None => owner[i] # None
    OBVIOUS
  <2>2. \A p \in Products :
            /\ Unsaved(p)' \subseteq Unsaved(p)
            /\ reg'[p].pc # "new" => reg'[p].main \notin reg'[p].imgs
    BY DEF CatalogInv, InsertedOnce, Unsaved
  <2>3. \A q \in Requests : Sending(q)' =>
            Sending(q) /\ req'[q].held = req[q].held
    BY DEF CatalogInv, TypeOK, Sending
  <2> QED
    BY <2>1, <2>2, <2>3, NoneInserted DEF CatalogInv
<1>5. BookableIsWhole' /\ RemovedForGood' /\ FilesBeforeRows'
  BY DEF CatalogInv, BookableIsWhole, RemovedForGood, FilesBeforeRows, RequestsSound, Active,
     HoldsImage
<1> QED
  BY <1>1, <1>2, <1>3, <1>4, <1>5 DEF CatalogInv

LEMMA InsertMainKeeps ==
    ASSUME CatalogInv, NEW r \in Requests, InsertMain(r)
    PROVE  CatalogInv'
<1> USE DEF InsertMain, InsertImages, rowVars, imageVars
<1>0. /\ req[r].p \in Products /\ req[r].held \in Images \cap stored
      /\ \A p \in Products : req[r].held \notin Unsaved(p)
  BY DEF CatalogInv, TypeOK, RequestsSound, Active, HoldsImage, InsertedOnce, Sending
<1>1. TypeOK'
  <2>1. req' \in [Requests -> Request]
    BY PcTyped DEF CatalogInv, Pcs, UpdatePc
  <2> QED
    BY <1>0, <2>1 DEF CatalogInv, TypeOK
<1>2. RegistrationsSound'
  BY DEF CatalogInv, RegistrationsSound
<1>3. RequestsSound'
  BY DEF CatalogInv, RequestsSound, Active, HoldsEntity, HoldsImage
<1>4. InsertedOnce'
  <2>1. /\ {req[r].held} \subseteq stored /\ saved' = saved \cup {req[r].held} /\ stored \subseteq stored'
        /\ \A i \in Images : owner'[i] # None => owner[i] # None \/ i \in {req[r].held}
    BY DEF CatalogInv, RequestsSound, HoldsImage
  <2>2. \A p \in Products :
            /\ Unsaved(p)' \subseteq Unsaved(p) \ {req[r].held}
            /\ reg'[p].pc # "new" => reg'[p].main \notin reg'[p].imgs
    <3>1. \A p \in Products : Unsaved(p)' = Unsaved(p)
      BY DEF Unsaved
    <3> QED
      BY <1>0, <3>1 DEF CatalogInv, InsertedOnce
  <2>3. \A q \in Requests : Sending(q)' =>
            Sending(q) /\ req'[q].held = req[q].held /\ req[q].held \notin {req[r].held}
    BY DEF CatalogInv, TypeOK, InsertedOnce, Sending
  <2> QED
    BY <2>1, <2>2, <2>3, Inserted DEF CatalogInv
<1>5. BookableIsWhole' /\ RemovedForGood' /\ FilesBeforeRows'
  BY DEF CatalogInv, BookableIsWhole, RemovedForGood, FilesBeforeRows, RequestsSound, HoldsImage
<1> QED
  BY <1>1, <1>2, <1>3, <1>4, <1>5 DEF CatalogInv

LEMMA SaveMainUrlKeeps ==
    ASSUME CatalogInv, NEW r \in Requests, NEW u \in Images, SaveMainUrl(r, u)
    PROVE  CatalogInv'
<1> USE DEF SaveMainUrl, WriteRow, rowVars, imageVars
<1>1. TypeOK'
  <2>1. req' \in [Requests -> Request]
    BY HeldTyped DEF CatalogInv, UpdatePc
  <2> QED
    BY <2>1 DEF CatalogInv, TypeOK
<1>2. RegistrationsSound'
  BY DEF CatalogInv, TypeOK, RegistrationsSound, RequestsSound, Active
<1>3. RequestsSound'
  BY DEF CatalogInv, TypeOK, RequestsSound, Active, HoldsEntity, HoldsImage
<1>4. InsertedOnce'
  <2>1. /\ saved' = saved /\ stored \subseteq stored'
        /\ \A i \in Images : owner'[i] # None => owner[i] # None
    OBVIOUS
  <2>2. \A p \in Products :
            /\ Unsaved(p)' \subseteq Unsaved(p)
            /\ reg'[p].pc # "new" => reg'[p].main \notin reg'[p].imgs
    BY DEF CatalogInv, InsertedOnce, Unsaved
  <2>3. \A q \in Requests : Sending(q)' =>
            Sending(q) /\ req'[q].held = req[q].held
    BY DEF CatalogInv, TypeOK, Sending
  <2> QED
    BY <2>1, <2>2, <2>3, NoneInserted DEF CatalogInv
<1>5. BookableIsWhole' /\ RemovedForGood' /\ FilesBeforeRows'
  BY DEF CatalogInv, TypeOK, BookableIsWhole, RemovedForGood, FilesBeforeRows
<1> QED
  BY <1>1, <1>2, <1>3, <1>4, <1>5 DEF CatalogInv

LEMMA ClearMainKeeps ==
    ASSUME CatalogInv, NEW r \in Requests, ClearMain(r)
    PROVE  CatalogInv'
<1> USE DEF ClearMain, rowVars, imageVars
<1>1. TypeOK'
  <2>1. req' \in [Requests -> Request]
    BY PcTyped DEF CatalogInv, Pcs, UpdatePc
  <2> QED
    BY <2>1 DEF CatalogInv, TypeOK
<1>2. RegistrationsSound'
  BY DEF CatalogInv, RegistrationsSound
<1>3. RequestsSound'
  BY DEF CatalogInv, RequestsSound, Active, HoldsEntity, HoldsImage, Strategies, Rank
<1>4. InsertedOnce'
  <2>1. /\ saved' = saved /\ stored \subseteq stored'
        /\ \A i \in Images : owner'[i] # None => owner[i] # None
    OBVIOUS
  <2>2. \A p \in Products :
            /\ Unsaved(p)' \subseteq Unsaved(p)
            /\ reg'[p].pc # "new" => reg'[p].main \notin reg'[p].imgs
    BY DEF CatalogInv, InsertedOnce, Unsaved
  <2>3. \A q \in Requests : Sending(q)' =>
            Sending(q) /\ req'[q].held = req[q].held
    BY DEF Sending
  <2> QED
    BY <2>1, <2>2, <2>3, NoneInserted DEF CatalogInv
<1>5. BookableIsWhole' /\ RemovedForGood' /\ FilesBeforeRows'
  BY DEF CatalogInv, BookableIsWhole, RemovedForGood, FilesBeforeRows
<1> QED
  BY <1>1, <1>2, <1>3, <1>4, <1>5 DEF CatalogInv

LEMMA SetMainKeeps ==
    ASSUME CatalogInv, NEW r \in Requests, SetMain(r)
    PROVE  CatalogInv'
<1> USE DEF SetMain, rowVars, imageVars
<1>1. TypeOK'
  <2>1. req' \in [Requests -> Request]
    BY FinishTyped DEF CatalogInv, Strategies, Rank
  <2>2. main' \subseteq {i \in Images : owner'[i] # None}
    BY DEF CatalogInv, TypeOK, RequestsSound, HoldsImage
  <2> QED
    BY <2>1, <2>2 DEF CatalogInv, TypeOK
<1>2. RegistrationsSound'
  BY DEF CatalogInv, RegistrationsSound
<1>3. RequestsSound'
  BY DEF CatalogInv, TypeOK, Request, Finish
<1>4. InsertedOnce'
  <2>1. /\ saved' = saved /\ stored \subseteq stored'
        /\ \A i \in Images : owner'[i] # None => owner[i] # None
    OBVIOUS
  <2>2. \A p \in Products :
            /\ Unsaved(p)' \subseteq Unsaved(p)
            /\ reg'[p].pc # "new" => reg'[p].main \notin reg'[p].imgs
    BY DEF CatalogInv, InsertedOnce, Unsaved
  <2>3. \A q \in Requests : Sending(q)' =>
            Sending(q) /\ req'[q].held = req[q].held
    BY DEF CatalogInv, TypeOK, Sending, Finish
  <2> QED
    BY <2>1, <2>2, <2>3, NoneInserted DEF CatalogInv
<1>5. BookableIsWhole' /\ RemovedForGood' /\ FilesBeforeRows'
  BY DEF CatalogInv, BookableIsWhole, RemovedForGood, FilesBeforeRows
<1> QED
  BY <1>1, <1>2, <1>3, <1>4, <1>5 DEF CatalogInv

LEMMA SoftDeleteKeeps ==
    ASSUME CatalogInv, NEW r \in Requests, SoftDelete(r)
    PROVE  CatalogInv'
<1> USE DEF SoftDelete, RemoveImages, rowVars, imageVars
<1>1. TypeOK'
  <2>1. req' \in [Requests -> Request]
    BY PcTyped DEF CatalogInv, Pcs, DeletePc
  <2> QED
    BY <2>1 DEF CatalogInv, TypeOK, RequestsSound, Active
<1>2. RegistrationsSound'
  BY DEF CatalogInv, RegistrationsSound, RequestsSound, Active
<1>3. RequestsSound'
  BY DEF CatalogInv, RequestsSound, Active, HoldsEntity, HoldsImage
<1>4. InsertedOnce'
  <2>1. /\ saved' = saved /\ stored \subseteq stored'
        /\ \A i \in Images : owner'[i] # None => owner[i] # None
    OBVIOUS
  <2>2. \A p \in Products :
            /\ Unsaved(p)' \subseteq Unsaved(p)
            /\ reg'[p].pc # "new" => reg'[p].main \notin reg'[p].imgs
    BY DEF CatalogInv, InsertedOnce, Unsaved
  <2>3. \A q \in Requests : Sending(q)' =>
            Sending(q) /\ req'[q].held = req[q].held
    BY DEF Sending
  <2> QED
    BY <2>1, <2>2, <2>3, NoneInserted DEF CatalogInv
<1>5. BookableIsWhole' /\ RemovedForGood' /\ FilesBeforeRows'
  BY DEF CatalogInv, BookableIsWhole, RemovedForGood, FilesBeforeRows, RequestsSound, Active,
     HoldsEntity
<1> QED
  BY <1>1, <1>2, <1>3, <1>4, <1>5 DEF CatalogInv

LEMMA DropTemplateKeeps ==
    ASSUME CatalogInv, NEW r \in Requests, DropTemplate(r)
    PROVE  CatalogInv'
<1> USE DEF DropTemplate, rowVars, imageVars
<1>1. TypeOK'
  <2>1. req' \in [Requests -> Request]
    BY PcTyped DEF CatalogInv, Pcs, DeletePc
  <2> QED
    BY <2>1 DEF CatalogInv, TypeOK, RequestsSound, Active
<1>2. RegistrationsSound'
  BY DEF CatalogInv, RegistrationsSound
<1>3. RequestsSound'
  BY DEF CatalogInv, RequestsSound, Active, HoldsEntity, HoldsImage, Strategies, Rank
<1>4. InsertedOnce'
  <2>1. /\ saved' = saved /\ stored \subseteq stored'
        /\ \A i \in Images : owner'[i] # None => owner[i] # None
    OBVIOUS
  <2>2. \A p \in Products :
            /\ Unsaved(p)' \subseteq Unsaved(p)
            /\ reg'[p].pc # "new" => reg'[p].main \notin reg'[p].imgs
    BY DEF CatalogInv, InsertedOnce, Unsaved
  <2>3. \A q \in Requests : Sending(q)' =>
            Sending(q) /\ req'[q].held = req[q].held
    BY DEF Sending
  <2> QED
    BY <2>1, <2>2, <2>3, NoneInserted DEF CatalogInv
<1>5. BookableIsWhole' /\ RemovedForGood' /\ FilesBeforeRows'
  BY DEF CatalogInv, BookableIsWhole, RemovedForGood, FilesBeforeRows
<1> QED
  BY <1>1, <1>2, <1>3, <1>4, <1>5 DEF CatalogInv

-----------------------------------------------------------------------------
(* Every step                                                               *)

LEMMA RegistrationKeeps ==
    ASSUME CatalogInv, NEW p \in Products, RegistrationStep(p)
    PROVE  CatalogInv'
BY UploadFilesKeeps, SaveProductKeeps, SaveImagesKeeps, SaveMainImageKeeps, SaveTemplateKeeps,
   RegistrationFailsKeeps DEF RegistrationStep

LEMMA UpdateKeeps ==
    ASSUME CatalogInv, NEW r \in Requests, UpdateStep(r)
    PROVE  CatalogInv'
<1>1. CASE \E p \in Products, todo \in SUBSET Strategies : StartUpdate(r, p, todo)
  BY <1>1, StartUpdateKeeps
<1>2. CASE \E s \in Strategies : ReadProduct(r, s)
  BY <1>2, ReadProductKeeps
<1>3. CASE \E S \in SUBSET Images : DeleteImages(r, S)
  BY <1>3, DeleteImagesKeeps
<1>4. CASE \E i \in Images : UploadImage(r, i) \/ UploadMain(r, i) \/ SaveMainUrl(r, i)
  BY <1>4, UploadImageKeeps, UploadMainKeeps, SaveMainUrlKeeps
<1>5. CASE \/ SaveContent(r) \/ ReadAfterUpload(r) \/ SaveNewImage(r) \/ SaveMainFile(r)
           \/ InsertMain(r) \/ ClearMain(r) \/ SetMain(r)
  BY <1>5, SaveContentKeeps, ReadAfterUploadKeeps, SaveNewImageKeeps, SaveMainFileKeeps,
     InsertMainKeeps, ClearMainKeeps, SetMainKeeps
<1> QED
  BY <1>1, <1>2, <1>3, <1>4, <1>5 DEF UpdateStep

LEMMA DeleteKeeps ==
    ASSUME CatalogInv, NEW r \in Requests, DeleteStep(r)
    PROVE  CatalogInv'
BY StartDeleteKeeps, SoftDeleteKeeps, DropTemplateKeeps DEF DeleteStep

LEMMA StutterKeeps == CatalogInv /\ UNCHANGED vars => CatalogInv'
<1> SUFFICES ASSUME CatalogInv, UNCHANGED vars PROVE CatalogInv'
  OBVIOUS
<1>1. RequestsSound'
  BY DEF CatalogInv, RequestsSound, Active, HoldsEntity, HoldsImage, vars, rowVars
<1>2. \A r \in Requests : Sending(r)' => Sending(r) /\ req'[r].held = req[r].held
  BY DEF Sending, vars
<1> QED
  BY <1>1, <1>2, RequestOnly DEF CatalogInv, TypeOK, vars

LEMMA NextInv == CatalogInv /\ [Next]_vars => CatalogInv'
BY RegistrationKeeps, UpdateKeeps, DeleteKeeps, RequestFailsKeeps, StutterKeeps DEF Next

-----------------------------------------------------------------------------
\* The invariant holds in every state: whoever sent an image is the only one to
\* insert its row, and every request holds what it read and sent.
THEOREM Inductive == Spec => []CatalogInv
BY InitInv, NextInv, PTL DEF Spec

\* Every variable keeps its type, and only an image with a row is a main image.
THEOREM TypeCorrect == Spec => []TypeOK
<1>1. CatalogInv => TypeOK
  BY DEF CatalogInv
<1> QED
  BY <1>1, Inductive, PTL

\* Wherever a registration fails, a product that can be applied for is whole
\* (ProductRegistrationServiceImpl 43-101).
THEOREM Whole == Spec => []BookableIsWhole
<1>1. CatalogInv => BookableIsWhole
  BY DEF CatalogInv
<1> QED
  BY <1>1, Inductive, PTL

\* However requests overlap, nobody can apply for a product once its deletion has
\* ended (ProductDeleteServiceImpl 21-35).
THEOREM Gone == Spec => []RemovedForGood
<1>1. CatalogInv => RemovedForGood
  BY DEF CatalogInv
<1> QED
  BY <1>1, Inductive, PTL

\* A row never refers to a file that was not sent.
THEOREM FilesFirst == Spec => []FilesBeforeRows
<1>1. CatalogInv => FilesBeforeRows
  BY DEF CatalogInv
<1> QED
  BY <1>1, Inductive, PTL

\* A row is only ever inserted for an image that never had one.
LEMMA NewRowsOnly ==
    ASSUME CatalogInv, [Next]_vars, NEW i \in saved, owner[i] = None
    PROVE  owner'[i] = None
<1> SUFFICES ASSUME Next PROVE owner'[i] = None
  BY DEF vars, imageVars
<1> USE DEF CatalogInv, TypeOK, imageVars
<1>1. i \in Images
  OBVIOUS
<1>2. CASE \E p \in Products : SaveImages(p) \/ SaveMainImage(p)
  BY <1>1, <1>2 DEF SaveImages, SaveMainImage, RegStep, InsertImages, InsertedOnce, Unsaved
<1>3. CASE \E r \in Requests : SaveNewImage(r) \/ InsertMain(r)
  BY <1>1, <1>3 DEF SaveNewImage, InsertMain, InsertImages, InsertedOnce, Sending
<1>4. CASE \E r \in Requests : SoftDelete(r) \/ \E S \in SUBSET Images : DeleteImages(r, S)
  BY <1>1, <1>4 DEF SoftDelete, DeleteImages, RemoveImages
<1>5. CASE owner' = owner
  BY <1>5
<1> QED
  <2>1. CASE \E p \in Products : RegistrationStep(p)
    BY <1>2, <1>5, <2>1 DEF RegistrationStep, UploadFiles, SaveProduct, SaveTemplate,
       RegistrationFails
  <2>2. CASE \E r \in Requests : UpdateStep(r)
    BY <1>3, <1>4, <1>5, <2>2 DEF UpdateStep, StartUpdate, ReadProduct, SaveContent,
       UploadImage, UploadMain, SaveMainUrl, ReadAfterUpload, SaveMainFile, ClearMain, SetMain
  <2>3. CASE \E r \in Requests : DeleteStep(r) \/ RequestFails(r)
    BY <1>4, <1>5, <2>3 DEF DeleteStep, StartDelete, DropTemplate, RequestFails
  <2> QED
    BY <2>1, <2>2, <2>3 DEF Next

\* A deleted image row never comes back, whatever an overlapping request has read
\* (ImageRepoJpaService 59-87).
THEOREM NoReturn == Spec => ImagesNeverReturn
<1>1. CatalogInv /\ [Next]_vars => [\A i \in saved : owner[i] = None => owner'[i] = None]_vars
  BY NewRowsOnly
<1> QED
  BY <1>1, Inductive, PTL DEF Spec, ImagesNeverReturn

\* A step of one request that is not about to write p's row afterwards, or was before.
LEMMA OneWriter ==
    ASSUME NEW q \in Requests, NEW p \in Products,
           \A o \in Requests \ {q} : req'[o] = req[o],
           q \in Writers(p)' => q \in Writers(p)
    PROVE  Writers(p)' \subseteq Writers(p)
BY DEF Writers

\* Nobody gets to write the row of a deleted product who was not about to.
LEMMA WritersShrink ==
    ASSUME CatalogInv, [Next]_vars, NEW p \in Products, product[p] = "deleted"
    PROVE  Writers(p)' \subseteq Writers(p)
<1> USE DEF CatalogInv, TypeOK
<1>1. CASE UNCHANGED req
  BY <1>1 DEF Writers
<1>2. ASSUME NEW q \in Requests, \E o \in Products, todo \in SUBSET Strategies : StartUpdate(q, o, todo)
      PROVE  Writers(p)' \subseteq Writers(p)
  BY <1>2, OneWriter DEF StartUpdate, NewRequest, Writers, WritesRow
<1>3. ASSUME NEW q \in Requests, \E o \in Products : StartDelete(q, o)
      PROVE  Writers(p)' \subseteq Writers(p)
  BY <1>3, OneWriter DEF StartDelete, NewRequest, Writers
<1>4. ASSUME NEW q \in Requests, NEW h, req' = [req EXCEPT ![q] = h], h.p = req[q].p,
             h.pc \in WritesRow => req[q].pc \in WritesRow \/ product[req[q].p] = "live"
      PROVE  Writers(p)' \subseteq Writers(p)
  BY <1>4, OneWriter DEF Writers
<1>5. ASSUME NEW q \in Requests, NEW c \in Strategies, Read(q, c)
      PROVE  Writers(p)' \subseteq Writers(p)
  <2> DEFINE h == [req[q] EXCEPT !.pc = c,
                                 !.seen = IF req[q].seen = None THEN mainImage[req[q].p] ELSE req[q].seen]
  <2>1. req[q] \in Request
    OBVIOUS
  <2>2. h.p = req[q].p /\ product[req[q].p] = "live"
    BY <1>5, <2>1 DEF Read, Request
  <2>3. req' = [req EXCEPT ![q] = h]
    BY <1>5 DEF Read
  <2> HIDE DEF h
  <2> QED
    BY <1>4, <2>2, <2>3
<1>6. ASSUME NEW q \in Requests, NEW s \in Strategies, Finish(q, s)
      PROVE  Writers(p)' \subseteq Writers(p)
  <2> DEFINE h == [req[q] EXCEPT !.todo = req[q].todo \ {s},
                                 !.pc = IF req[q].todo = {s} THEN "done" ELSE "next"]
  <2>1. req[q] \in Request
    OBVIOUS
  <2>2. h.p = req[q].p /\ h.pc \notin WritesRow
    BY <2>1 DEF Request, WritesRow
  <2>3. req' = [req EXCEPT ![q] = h]
    BY <1>6 DEF Finish
  <2> HIDE DEF h
  <2> QED
    BY <1>4, <2>2, <2>3
<1>7. ASSUME NEW q \in Requests, NEW i, NEW c,
             \/ req' = [req EXCEPT ![q].pc = c]
             \/ req' = [req EXCEPT ![q].pc = c, ![q].held = i]
             \/ req' = [req EXCEPT ![q].pc = c, ![q].seen = i]
             \/ req' = [req EXCEPT ![q].pc = c, ![q].seen = i, ![q].held = i],
             c \in WritesRow => req[q].pc \in WritesRow
      PROVE  Writers(p)' \subseteq Writers(p)
  <2>1. req[q] \in Request
    OBVIOUS
  <2>2. PICK h \in {[req[q] EXCEPT !.pc = c], [req[q] EXCEPT !.pc = c, !.held = i],
                    [req[q] EXCEPT !.pc = c, !.seen = i],
                    [req[q] EXCEPT !.pc = c, !.seen = i, !.held = i]} :
           req' = [req EXCEPT ![q] = h]
    BY <1>7
  <2>3. h.p = req[q].p /\ h.pc = c
    BY <2>1, <2>2 DEF Request
  <2> QED
    BY <1>4, <1>7, <2>2, <2>3
<1>8. ASSUME NEW q \in Requests,
             ReadAfterUpload(q) \/ \E s \in Strategies : ReadProduct(q, s)
      PROVE  Writers(p)' \subseteq Writers(p)
  BY <1>5, <1>8 DEF ReadAfterUpload, ReadProduct, Strategies, Rank
<1>9. ASSUME NEW q \in Requests,
             \/ SaveContent(q) \/ SaveNewImage(q) \/ SetMain(q)
             \/ \E S \in SUBSET Images : DeleteImages(q, S)
      PROVE  Writers(p)' \subseteq Writers(p)
  <2>1. PICK s \in Strategies : Finish(q, s)
    BY <1>9 DEF SaveContent, SaveNewImage, SetMain, DeleteImages, Strategies, Rank
  <2> QED
    BY <1>6, <2>1
<1>10. ASSUME NEW q \in Requests, NEW i \in Images,
              UploadImage(q, i) \/ UploadMain(q, i) \/ SaveMainUrl(q, i)
       PROVE  Writers(p)' \subseteq Writers(p)
  <2>1. PICK c \in {"uploaded", "row", "clear"} :
           /\ \/ req' = [req EXCEPT ![q].pc = c, ![q].held = i]
              \/ req' = [req EXCEPT ![q].pc = c, ![q].seen = i, ![q].held = i]
           /\ c = "row" => req[q].pc = "mainFile"
    BY <1>10 DEF UploadImage, UploadMain, SaveMainUrl
  <2>2. c \in WritesRow => req[q].pc \in WritesRow
    BY <2>1 DEF WritesRow
  <2> QED
    BY <1>7, <2>1, <2>2
<1>11. ASSUME NEW q \in Requests,
              \/ SaveMainFile(q) \/ InsertMain(q) \/ ClearMain(q)
              \/ SoftDelete(q) \/ DropTemplate(q) \/ RequestFails(q)
       PROVE  Writers(p)' \subseteq Writers(p)
  <2>1. PICK c \in Pcs \ WritesRow : \/ req' = [req EXCEPT ![q].pc = c]
                                     \/ req' = [req EXCEPT ![q].pc = c, ![q].seen = req[q].held]
    BY <1>11 DEF SaveMainFile, InsertMain, ClearMain, SoftDelete, DropTemplate, RequestFails,
                 WritesRow, Pcs, UpdatePc, DeletePc
  <2> QED
    BY <1>7, <2>1
<1> QED
  <2>1. ASSUME NEW o \in Products, RegistrationStep(o) PROVE UNCHANGED req
    BY <2>1 DEF RegistrationStep, UploadFiles, SaveProduct, SaveImages, SaveMainImage,
                SaveTemplate, RegistrationFails
  <2> QED
    BY <1>1, <1>2, <1>3, <1>8, <1>9, <1>10, <1>11, <2>1 DEF Next, UpdateStep, DeleteStep, vars

\* Only a save of the entity changes deletedAt back.
LEMMA WritersRevive ==
    ASSUME CatalogInv, [Next]_vars, NEW p \in Products, product[p] = "deleted", product'[p] # "deleted"
    PROVE  Writers(p) # {}
<1> USE DEF CatalogInv, TypeOK
<1>1. ASSUME NEW q \in Requests, NEW u, WriteRow(q, u), req[q].pc \in WritesRow
      PROVE  q \in Writers(p)
  BY <1>1 DEF WriteRow, Writers
<1>2. ASSUME NEW o \in Products, RegistrationStep(o) PROVE FALSE
  BY <1>2 DEF RegistrationStep, UploadFiles, SaveProduct, SaveImages, SaveMainImage, SaveTemplate,
              RegistrationFails, RegStep, RegistrationsSound, rowVars
<1>3. ASSUME NEW q \in Requests,
             SaveContent(q) \/ SaveMainFile(q) \/ \E i \in Images : SaveMainUrl(q, i)
      PROVE  Writers(p) # {}
  BY <1>1, <1>3 DEF SaveContent, SaveMainFile, SaveMainUrl, WritesRow, rowVars
<1>4. ASSUME NEW q \in Requests, DeleteStep(q) \/ RequestFails(q) PROVE FALSE
  BY <1>4 DEF DeleteStep, StartDelete, SoftDelete, DropTemplate, RequestFails, rowVars
<1>5. ASSUME NEW q \in Requests, UpdateStep(q), product' # product PROVE Writers(p) # {}
  BY <1>3, <1>5 DEF UpdateStep, StartUpdate, ReadProduct, DeleteImages, UploadImage, UploadMain,
                    ReadAfterUpload, SaveNewImage, InsertMain, ClearMain, SetMain, rowVars
<1> QED
  BY <1>2, <1>4, <1>5 DEF Next, vars, rowVars

\* What the overlap that undoes a deletion needs, for any requests: a writer that was
\* past its read when the deletion came.
THEOREM RevivedEarlier == Spec => RevivedByEarlierReaders
<1>1. CatalogInv /\ [Next]_vars =>
        [\A p \in Products : product[p] = "deleted" =>
            /\ Writers(p)' \subseteq Writers(p)
            /\ product'[p] # "deleted" => Writers(p) # {}]_vars
  BY WritersShrink, WritersRevive
<1> QED
  BY <1>1, Inductive, PTL DEF Spec, RevivedByEarlierReaders
=============================================================================
