----------------------------- MODULE PagingProofs -----------------------------
(* Theorems about Paging, for any number of products and any page sizes.   *)
EXTENDS Paging, TLAPS

USE PagingAssumption

\* A product and a cursor taken at it: Below and Newer say the same.
LEMMA CursorAt == \A p, q : Below(createdAt[p], id[p], q) <=> Newer(p, q)
BY DEF Below, Newer

LEMMA Keys ==
    ASSUME TypeOK
    PROVE  /\ \A p \in Products : createdAt[p] \in Nat /\ id[p] \in Nat
           /\ walk.lastTime \in Nat /\ walk.lastId \in Nat
BY DEF TypeOK, Walk

LEMMA NewerAsymmetric ==
    ASSUME TypeOK, NEW p \in Products, NEW q \in Products, Newer(p, q)
    PROVE  ~Newer(q, p)
BY Keys DEF Newer

\* What is below a product that is below the cursor is below the cursor.
LEMMA BelowTransitive ==
    ASSUME TypeOK, NEW p \in Products, NEW q \in Products,
           Below(walk.lastTime, walk.lastId, p), Newer(p, q)
    PROVE  Below(walk.lastTime, walk.lastId, q)
BY Keys DEF Newer, Below

LEMMA InitInv == Init => PagingInv
<1> SUFFICES ASSUME Init PROVE PagingInv
  OBVIOUS
<1>1. TypeOK
  BY DEF Init, TypeOK, Walk
<1>2. IdsUnique
  BY DEF Init, IdsUnique, HasId
<1>3. walk.pc = "first"
  BY DEF Init
<1>4. CursorDivides /\ ShownOnce /\ NothingSkipped /\ ShownWereThere
  BY <1>3 DEF Init, CursorDivides, ShownOnce, NothingSkipped, ShownWereThere
<1> QED
  BY <1>1, <1>2, <1>4 DEF PagingInv

-----------------------------------------------------------------------------
(* Each step keeps the invariant                                            *)

\* What a seller's step leaves of the walk.
LEMMA WalkUntouched ==
    ASSUME PagingInv, UNCHANGED <<walk, times>>,
           kept' \subseteq kept, kept' \subseteq listed' \cap There',
           There \subseteq There',
           \A p \in There : createdAt'[p] = createdAt[p] /\ id'[p] = id[p]
    PROVE  CursorDivides' /\ ShownWereThere' /\ ShownOnce' /\ NothingSkipped'
<1> USE DEF PagingInv, TypeOK
<1>1. ShownWereThere'
  BY DEF ShownWereThere
<1>2. ShownOnce' /\ NothingSkipped'
  BY DEF ShownOnce, NothingSkipped
<1>3. \A p \in There : Below(walk.lastTime, walk.lastId, p)' <=> Below(walk.lastTime, walk.lastId, p)
  BY DEF Below
<1>4. \A p \in Products : times[p] # 0 \/ p \in kept => p \in There
  BY DEF ShownWereThere
<1>5. CursorDivides'
  BY <1>3, <1>4 DEF CursorDivides
<1> QED
  BY <1>1, <1>2, <1>5

LEMMA TickKeeps == PagingInv /\ Tick => PagingInv'
<1> SUFFICES ASSUME PagingInv, Tick PROVE PagingInv'
  OBVIOUS
<1> USE DEF Tick, rowVars
<1>1. TypeOK'
  BY DEF PagingInv, TypeOK
<1>2. IdsUnique'
  BY DEF PagingInv, IdsUnique, HasId
<1>3. There' = There
  BY DEF There
<1>4. CursorDivides' /\ ShownWereThere' /\ ShownOnce' /\ NothingSkipped'
  BY <1>3, WalkUntouched DEF PagingInv, ShownWereThere
<1> QED
  BY <1>1, <1>2, <1>4 DEF PagingInv

LEMMA RowKeeps ==
    ASSUME PagingInv, NEW p \in Products, Stamp(p) \/ InsertRow(p) \/ Commit(p) \/ SaveFails(p)
    PROVE  PagingInv'
<1> USE DEF Stamp, InsertRow, Commit, SaveFails
<1>1. TypeOK'
  BY DEF PagingInv, TypeOK
<1>2. IdsUnique'
  BY DEF PagingInv, TypeOK, IdsUnique, HasId
<1>3. There \subseteq There'
  BY DEF PagingInv, TypeOK, There
<1>4. \A q \in There : createdAt'[q] = createdAt[q] /\ id'[q] = id[q]
  BY DEF PagingInv, TypeOK, There
<1>5. UNCHANGED <<walk, times, kept, listed>>
  OBVIOUS
<1>6. CursorDivides' /\ ShownWereThere' /\ ShownOnce' /\ NothingSkipped'
  BY <1>3, <1>4, <1>5, WalkUntouched DEF PagingInv, ShownWereThere
<1> QED
  BY <1>1, <1>2, <1>6 DEF PagingInv

LEMMA EditKeeps ==
    ASSUME PagingInv, NEW p \in Products, Edit(p)
    PROVE  PagingInv'
<1> USE DEF Edit, rowVars
<1>1. TypeOK'
  BY DEF PagingInv, TypeOK
<1>2. IdsUnique'
  BY DEF PagingInv, IdsUnique, HasId
<1>3. There' = There
  BY DEF There
<1>4. kept' \subseteq listed' \cap There'
  BY <1>3 DEF PagingInv, ShownWereThere
<1>5. CursorDivides' /\ ShownWereThere' /\ ShownOnce' /\ NothingSkipped'
  BY <1>3, <1>4, WalkUntouched DEF PagingInv
<1> QED
  BY <1>1, <1>2, <1>5 DEF PagingInv

\* A page of the newest candidates, and the cursor taken at its last.
LEMMA NewestPage ==
    ASSUME PagingInv, NEW n \in Sizes, NEW S \in SUBSET Products, NEW l \in Products,
           ReadPage(n, S, l), walk.sort = "newest"
    PROVE  /\ \A p \in S : times[p] = 0 /\ times'[p] = 1
           /\ \A p \in Products \ S : times'[p] = times[p]
           /\ \A p \in Products : times'[p] # 0 => ~Newer(l, p)
           /\ \A p \in kept' : (~Newer(l, p) \/ S = Candidates) => times'[p] = 1
<1> USE DEF PagingInv, TypeOK, ReadPage
<1>1. \A p \in S : p \in Candidates /\ times[p] = 0
  BY DEF Candidates, CursorDivides, ShownWereThere
<1>2. \A p \in S : times'[p] = 1
  BY <1>1
<1>3. \A p \in Products \ S : times'[p] = times[p]
  OBVIOUS
<1>4. ASSUME NEW p \in Products, times'[p] # 0 PROVE ~Newer(l, p)
  <2>1. CASE p \in S
    BY <2>1, NewerAsymmetric, Keys DEF Leads, Newer
  <2>2. CASE p \notin S
    <3>1. times[p] # 0 /\ walk.pc = "more"
      BY <1>3, <1>4, <2>2 DEF ShownWereThere
    <3>2. ~Below(walk.lastTime, walk.lastId, p)
      BY <3>1 DEF CursorDivides
    <3>3. Below(walk.lastTime, walk.lastId, l)
      BY <1>1, <3>1 DEF Candidates
    <3> QED
      BY <3>2, <3>3, BelowTransitive
  <2> QED
    BY <2>1, <2>2
<1>5. ASSUME NEW p \in kept', ~Newer(l, p) \/ S = Candidates PROVE times'[p] = 1
  <2>1. p \in Products /\ p \in listed \cap There
    BY DEF ShownWereThere
  <2>2. CASE p \in S
    BY <1>2, <2>2
  <2>3. CASE p \notin S
    <3>1. p \notin Candidates
      BY <1>5, <2>3 DEF Leads
    <3>2. walk.pc = "more" /\ ~Below(walk.lastTime, walk.lastId, p)
      BY <2>1, <3>1 DEF Candidates
    <3>3. times[p] = 1
      BY <2>1, <3>2 DEF CursorDivides
    <3> QED
      BY <1>3, <2>1, <2>3, <3>3
  <2> QED
    BY <2>2, <2>3
<1> QED
  BY <1>1, <1>2, <1>3, <1>4, <1>5

LEMMA PageKeeps ==
    ASSUME PagingInv, NEW n \in Sizes, NEW S \in SUBSET Products, NEW l \in Products,
           ReadPage(n, S, l)
    PROVE  PagingInv'
<1>1. walk' \in Walk /\ walk'.sort = walk.sort /\ walk'.pc = (IF S = Candidates THEN "done" ELSE "more")
      /\ walk'.lastTime = createdAt[l] /\ walk'.lastId = id[l]
  BY Keys DEF PagingInv, TypeOK, Walk, ReadPage
<1>2. TypeOK'
  BY <1>1 DEF PagingInv, TypeOK, ReadPage, rowVars
<1>3. IdsUnique' /\ There' = There
  BY DEF PagingInv, IdsUnique, HasId, ReadPage, rowVars, There
<1>4. ShownWereThere'
  <2>1. \A p \in Products : times'[p] # 0 => p \in There
    BY DEF PagingInv, TypeOK, ShownWereThere, ReadPage, Candidates
  <2>2. kept' \subseteq listed' \cap There
    BY DEF PagingInv, ShownWereThere, ReadPage
  <2> QED
    BY <1>1, <1>3, <2>1, <2>2 DEF ShownWereThere
<1>5. CASE walk.sort # "newest"
  BY <1>1, <1>2, <1>3, <1>4, <1>5 DEF PagingInv, CursorDivides, ShownOnce, NothingSkipped
<1>6. CASE walk.sort = "newest"
  <2>1. ShownOnce'
    BY <1>6, NewestPage DEF PagingInv, ShownOnce
  <2>2. NothingSkipped'
    BY <1>1, <1>6, NewestPage DEF NothingSkipped
  <2>3. \A p \in Products : Below(walk.lastTime, walk.lastId, p)' <=> Newer(l, p)
    BY <1>1 DEF ReadPage, rowVars, Below, Newer
  <2>4. CursorDivides'
    BY <1>6, <2>3, NewestPage DEF CursorDivides
  <2> QED
    BY <1>2, <1>3, <1>4, <2>1, <2>2, <2>4 DEF PagingInv
<1> QED
  BY <1>5, <1>6

LEMMA NotFoundKeeps == PagingInv /\ NotFound => PagingInv'
<1> SUFFICES ASSUME PagingInv, NotFound PROVE PagingInv'
  OBVIOUS
<1> USE DEF PagingInv, NotFound, rowVars
<1>1. walk' \in Walk /\ walk'.sort = walk.sort /\ walk'.pc = "notFound"
  BY DEF TypeOK, Walk
<1>2. TypeOK' /\ IdsUnique' /\ There' = There
  BY <1>1 DEF TypeOK, IdsUnique, HasId, There
<1>3. ShownWereThere' /\ ShownOnce' /\ CursorDivides'
  BY <1>1, <1>2 DEF ShownWereThere, ShownOnce, CursorDivides
<1>4. NothingSkipped'
  <2>1. ASSUME walk.sort = "newest", NEW p \in kept PROVE times[p] = 1
    <3>1. p \in Products /\ p \in listed \cap There /\ walk.pc = "more"
      BY DEF TypeOK, ShownWereThere
    <3>2. ~Below(walk.lastTime, walk.lastId, p)
      BY <3>1 DEF Candidates
    <3> QED
      BY <2>1, <3>1, <3>2 DEF CursorDivides
  <2> QED
    BY <1>1, <2>1 DEF NothingSkipped
<1> QED
  BY <1>2, <1>3, <1>4

LEMMA StutterKeeps == PagingInv /\ UNCHANGED vars => PagingInv'
BY DEF PagingInv, TypeOK, IdsUnique, HasId, CursorDivides, Below, ShownWereThere, There,
       ShownOnce, NothingSkipped, vars, rowVars

LEMMA NextInv == PagingInv /\ [Next]_vars => PagingInv'
BY TickKeeps, RowKeeps, EditKeeps, PageKeeps, NotFoundKeeps, StutterKeeps DEF Next

-----------------------------------------------------------------------------
\* The invariant holds in every state: the cursor divides the products the walk
\* has shown from those it has not.
THEOREM Inductive == Spec => []PagingInv
BY InitInv, NextInv, PTL DEF Spec

\* Every variable keeps its type; no createdAt is ahead of the clock.
THEOREM TypeCorrect == Spec => []TypeOK
<1>1. PagingInv => TypeOK
  BY DEF PagingInv
<1> QED
  BY <1>1, Inductive, PTL

\* A walk in the cursor's order shows nothing twice (ProductCustomRepositoryImpl 35-80).
THEOREM Once == Spec => []ShownOnce
<1>1. PagingInv => ShownOnce
  BY DEF PagingInv
<1> QED
  BY <1>1, Inductive, PTL

\* And at its end it has shown all that was there throughout.
THEOREM Complete == Spec => []NothingSkipped
<1>1. PagingInv => NothingSkipped
  BY DEF PagingInv
<1> QED
  BY <1>1, Inductive, PTL

\* Only a page shows products, each of them older than all shown before.
LEMMA PageIsOlder ==
    ASSUME PagingInv, Next, walk.sort = "newest", NEW p \in Products, NEW q \in Products,
           times[p] = 0, times'[p] # 0, times[q] # 0
    PROVE  Newer(q, p)
<1>1. PICK n \in Sizes, S \in SUBSET Products, l \in Products : ReadPage(n, S, l)
  BY DEF Next, Tick, Stamp, InsertRow, Commit, SaveFails, Edit, NotFound
<1>2. p \in Candidates /\ walk.pc = "more"
  BY <1>1 DEF PagingInv, TypeOK, ShownWereThere, ReadPage
<1>3. Below(walk.lastTime, walk.lastId, p) /\ ~Below(walk.lastTime, walk.lastId, q)
  BY <1>2 DEF PagingInv, CursorDivides, Candidates
<1> QED
  BY <1>3, Keys DEF PagingInv, Below, Newer

\* The pages of a walk are one list, newest first.
THEOREM OneList == Spec => OlderAndOlder
<1>1. PagingInv /\ [Next]_vars =>
        [walk.sort = "newest" =>
            \A p, q \in Products :
                times[p] = 0 /\ times'[p] # 0 /\ times[q] # 0 => Newer(q, p)]_vars
  BY PageIsOlder
<1> QED
  BY <1>1, Inductive, PTL DEF Spec, OlderAndOlder

-----------------------------------------------------------------------------
(* A walk in the cursor's order implements Browse                           *)

Match == listed \cap There

kindBar == [p \in Products |-> IF p \in listed \cap There THEN {"match"} ELSE {}]
pcBar   == IF ~InOrder \/ walk.pc = "first" THEN "idle"
           ELSE IF walk.pc = "more" THEN "walking" ELSE "over"
seenBar == [p \in Products |-> IF InOrder THEN times[p] ELSE 0]
owedBar == {p \in kept : InOrder /\ times[p] = 0}

barVars == <<kindBar, pcBar, seenBar, owedBar, {}>>

LEMMA BrowseInitially == Init => List!BrowseInit
<1> SUFFICES ASSUME Init PROVE List!BrowseInit
  OBVIOUS
<1>1. kindBar \in [Products -> {{}} \cup {{k} : k \in {"match"}}]
  BY DEF kindBar
<1>2. pcBar = "idle" /\ seenBar = [p \in Products |-> 0] /\ owedBar = {}
  BY DEF Init, pcBar, seenBar, owedBar
<1> QED
  BY <1>1, <1>2 DEF List!BrowseInit, kindBar, pcBar, seenBar, owedBar

LEMMA Matching == List!Matching({"match"}) = Products \cap Match
BY DEF List!Matching, Match

\* A seller's step changes the kind of one product at most.
LEMMA SellerBrowses ==
    ASSUME PagingInv,
           Tick \/ \E p \in Products : Stamp(p) \/ InsertRow(p) \/ Commit(p) \/ SaveFails(p) \/ Edit(p)
    PROVE  [List!BrowseNext]_barVars
<1> USE DEF PagingInv
<1>1. UNCHANGED <<walk, times>>
  BY DEF Tick, Stamp, InsertRow, Commit, SaveFails, Edit
<1>2. UNCHANGED <<InOrder, pcBar, seenBar>>
  BY <1>1 DEF InOrder, pcBar, seenBar
<1>3. ASSUME NEW p \in Products, NEW k \in {{}, {"match"}}, kindBar' = [kindBar EXCEPT ![p] = k],
             kept' = kept \ {p}
      PROVE  [List!BrowseNext]_barVars
  <2>1. owedBar' = owedBar \ {p}
    BY <1>1, <1>3 DEF owedBar, InOrder
  <2>2. k \in {{}} \cup {{j} : j \in {"match"}}
    OBVIOUS
  <2>3. List!Become(p, k)
    BY <1>2, <1>3, <2>1 DEF List!Become, kindBar, pcBar, seenBar, owedBar
  <2> QED
    BY <2>2, <2>3 DEF List!BrowseNext
<1>4. CASE Tick \/ \E p \in Products : Stamp(p) \/ InsertRow(p) \/ SaveFails(p)
  <2>1. UNCHANGED <<listed, There, kept>>
    BY <1>4 DEF Tick, Stamp, InsertRow, SaveFails, TypeOK, There, rowVars
  <2> QED
    BY <1>1, <1>2, <2>1 DEF barVars, kindBar, owedBar, InOrder
<1>5. ASSUME NEW p \in Products, Commit(p) PROVE [List!BrowseNext]_barVars
  <2>1. There' = There \cup {p} /\ p \notin There /\ UNCHANGED <<listed, kept>>
    BY <1>5 DEF Commit, TypeOK, There
  <2>2. kept' = kept \ {p}
    BY <2>1 DEF ShownWereThere
  <2>3. PICK k \in {{}, {"match"}} : k = IF p \in listed THEN {"match"} ELSE {}
    OBVIOUS
  <2>4. kindBar' = [kindBar EXCEPT ![p] = k]
    BY <2>1, <2>3 DEF kindBar
  <2> QED
    BY <1>3, <2>2, <2>4
<1>6. ASSUME NEW p \in Products, Edit(p) PROVE [List!BrowseNext]_barVars
  <2>1. There' = There /\ p \in There /\ kept' = kept \ {p}
    BY <1>6 DEF Edit, There, rowVars
  <2>2. /\ p \in listed' <=> p \notin listed
        /\ \A q \in Products : q # p => (q \in listed' <=> q \in listed)
    BY <1>6 DEF Edit
  <2>3. PICK k \in {{}, {"match"}} : k = IF p \in listed THEN {} ELSE {"match"}
    OBVIOUS
  <2>4. kindBar' = [kindBar EXCEPT ![p] = k]
    BY <2>1, <2>2, <2>3 DEF kindBar
  <2> QED
    BY <1>3, <2>1, <2>4
<1> QED
  BY <1>4, <1>5, <1>6

\* A page, and what it leaves to be shown.
LEMMA PageBrowses ==
    ASSUME PagingInv, NEW n \in Sizes, NEW S \in SUBSET Products, NEW l \in Products,
           ReadPage(n, S, l)
    PROVE  [List!BrowseNext]_barVars
<1> USE DEF PagingInv
<1>1. PagingInv'
  BY PageKeeps
<1>2. walk'.sort = walk.sort /\ walk'.pc = (IF S = Candidates THEN "done" ELSE "more")
  BY DEF ReadPage, TypeOK, Walk
<1>3. UNCHANGED <<kindBar, InOrder>> /\ S \subseteq Match
  BY <1>2 DEF ReadPage, kindBar, There, rowVars, InOrder, Candidates, Match
<1>4. CASE ~InOrder
  <2>1. UNCHANGED <<pcBar, seenBar, owedBar>>
    BY <1>3, <1>4 DEF pcBar, seenBar, owedBar
  <2> QED
    BY <1>3, <2>1 DEF barVars
<1>5. CASE InOrder
  <2>1. \A p \in S : times[p] = 0 /\ times'[p] = 1
    BY <1>5, NewestPage DEF InOrder
  <2>2. \A p \in Products \ S : times'[p] = times[p]
    BY <1>5, NewestPage DEF InOrder
  <2>3. seenBar' = [p \in Products |-> IF p \in S /\ seenBar[p] < 2 THEN seenBar[p] + 1 ELSE seenBar[p]]
    BY <1>3, <1>5, <2>1, <2>2 DEF seenBar
  <2>4. \/ pcBar' = "walking"
        \/ pcBar' = "over" /\ owedBar' = {}
    <3>1. CASE S # Candidates
      BY <1>2, <1>3, <1>5, <3>1 DEF pcBar
    <3>2. CASE S = Candidates
      <4>1. pcBar' = "over" /\ walk'.pc = "done"
        BY <1>2, <1>3, <1>5, <3>2 DEF pcBar
      <4>2. \A p \in kept' : times'[p] = 1
        BY <1>1, <1>2, <1>5, <4>1 DEF NothingSkipped, InOrder
      <4> QED
        BY <4>1, <4>2 DEF owedBar
    <3> QED
      BY <3>1, <3>2
  <2>5. CASE walk.pc = "first"
    <3>1. kept' = Match /\ (\A p \in Products : times[p] = 0) /\ Match \subseteq Products
      BY <2>5 DEF ReadPage, ShownWereThere, Match, TypeOK
    <3>2. owedBar' = Match \ S
      BY <1>3, <1>5, <2>1, <2>2, <3>1 DEF owedBar
    <3>3. pcBar = "idle"
      BY <2>5 DEF pcBar
    <3>4. List!Matching({"match"}) = Match
      BY <3>1, Matching
    <3>5. List!Show(S, List!Matching({"match"}))
      BY <2>3, <2>4, <3>2, <3>4 DEF List!Show, seenBar, pcBar, owedBar
    <3>6. List!Begin({"match"}, S)
      BY <1>3, <3>3, <3>4, <3>5 DEF List!Begin, kindBar, pcBar
    <3> QED
      BY <3>6 DEF List!BrowseNext
  <2>6. CASE walk.pc = "more"
    <3>1. kept' = kept
      BY <2>6 DEF ReadPage
    <3>2. owedBar' = owedBar \ S
      BY <1>3, <1>5, <2>1, <2>2, <3>1 DEF owedBar, TypeOK
    <3>3. pcBar = "walking"
      BY <1>5, <2>6 DEF pcBar
    <3>4. \A p \in S : kindBar[p] # {} /\ seenBar[p] = 0
      BY <1>3, <1>5, <2>1 DEF kindBar, seenBar, Match
    <3>5. List!Show(S, owedBar)
      BY <2>3, <2>4, <3>2 DEF List!Show, seenBar, pcBar, owedBar
    <3>6. List!Page(S)
      BY <1>3, <3>3, <3>4, <3>5 DEF List!Page, kindBar, pcBar, seenBar, owedBar
    <3> QED
      BY <3>6 DEF List!BrowseNext
  <2> QED
    BY <2>5, <2>6 DEF ReadPage
<1> QED
  BY <1>4, <1>5

\* An empty page ends the walk: nothing is owed.
LEMMA NotFoundBrowses == PagingInv /\ NotFound => [List!BrowseNext]_barVars
<1> SUFFICES ASSUME PagingInv, NotFound PROVE [List!BrowseNext]_barVars
  OBVIOUS
<1> USE DEF PagingInv
<1>1. PagingInv'
  BY NotFoundKeeps
<1>2. walk'.sort = walk.sort /\ walk'.pc = "notFound" /\ UNCHANGED <<times, kept, listed, There>>
  BY DEF NotFound, TypeOK, Walk, rowVars, There
<1>3. UNCHANGED <<kindBar, InOrder, seenBar>>
  BY <1>2 DEF kindBar, InOrder, seenBar
<1>4. CASE ~InOrder
  <2>1. UNCHANGED <<pcBar, owedBar>>
    BY <1>3, <1>4 DEF pcBar, owedBar
  <2> QED
    BY <1>3, <2>1 DEF barVars
<1>5. CASE InOrder
  <2>1. \A p \in kept : times[p] = 1
    BY <1>1, <1>2, <1>5 DEF NothingSkipped, InOrder
  <2>2. owedBar = {} /\ owedBar' = {} /\ pcBar' = "over"
    BY <1>2, <1>3, <1>5, <2>1 DEF owedBar, pcBar
  <2>3. seenBar' = [p \in Products |-> IF p \in {} /\ seenBar[p] < 2 THEN seenBar[p] + 1 ELSE seenBar[p]]
    BY <1>3 DEF seenBar
  <2>4. CASE walk.pc = "first"
    <3>1. List!Matching({"match"}) = {}
      BY <2>4, Matching DEF NotFound, Candidates, Match
    <3>2. pcBar = "idle"
      BY <2>4 DEF pcBar
    <3>3. List!Begin({"match"}, {})
      BY <1>3, <2>2, <2>3, <3>1, <3>2
         DEF List!Begin, List!Show, kindBar, pcBar, seenBar, owedBar
    <3> QED
      BY <3>3 DEF List!BrowseNext
  <2>5. CASE walk.pc = "more"
    <3>1. pcBar = "walking"
      BY <1>5, <2>5 DEF pcBar
    <3>2. List!Page({})
      BY <1>3, <2>2, <2>3, <3>1
         DEF List!Page, List!Show, kindBar, pcBar, seenBar, owedBar
    <3> QED
      BY <3>2 DEF List!BrowseNext
  <2> QED
    BY <2>4, <2>5 DEF NotFound
<1> QED
  BY <1>4, <1>5

\* For any products and page sizes, each page is one Browse allows: nothing again,
\* and no end while anything is owed.
THEOREM BrowseRefinement == Spec => ImplementsBrowse
<1>1. UNCHANGED vars => UNCHANGED barVars
  BY DEF vars, rowVars, barVars, kindBar, There, pcBar, seenBar, owedBar, InOrder
<1>2. PagingInv /\ [Next]_vars => [List!BrowseNext]_barVars
  BY <1>1, SellerBrowses, PageBrowses, NotFoundBrowses DEF Next
<1>3. PagingInv /\ [Next]_vars => [List!BrowseNext]_(List!browseVars)
  BY <1>2 DEF List!browseVars, barVars, kindBar, pcBar, seenBar, owedBar
<1> QED
  BY <1>3, BrowseInitially, Inductive, PTL DEF Spec, ImplementsBrowse, List!BrowseSpec
=============================================================================
