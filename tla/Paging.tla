-------------------------------- MODULE Paging --------------------------------
(***************************************************************************)
(* A client walks along a list of products page by page, handing back the  *)
(* createdAt and id of the last product it was shown, while products are   *)
(* registered and edited.  createdAt is the server's clock when the        *)
(* product is persisted, the id is the database's when it is inserted, and *)
(* the row is seen once it is committed, so the three orders may differ.   *)
(* Rows are never removed, and a soft-deleted product stays in the lists.  *)
(***************************************************************************)
EXTENDS Naturals, FiniteSets

CONSTANTS
    Products,
    Sizes,       \* page sizes a client may ask for
    MaxTime      \* bound on the clock

ASSUME PagingAssumption == Sizes \subseteq Nat \ {0} /\ MaxTime \in Nat

VARIABLES
    clock,       \* the server's clock
    row,         \* how far the insertion of each product is
    createdAt,   \* Product.createdAt
    id,          \* Product.id
    nextId,      \* the table's AUTO_INCREMENT
    listed,      \* products that match the walk's condition (title, seller or category)
    walk,        \* the client: its sort order, and the cursor it hands back
    times,       \* how often the walk showed each product, up to 2
    kept         \* products there when the walk began that have matched ever since

rowVars == <<row, createdAt, id, nextId>>
vars == <<clock, rowVars, listed, walk, times, kept>>

\* "newest" is sort=createdAt,desc&sort=id,desc, "other" is any other sort or none.
Sorts == {"newest", "other"}
Walk == [pc : {"first", "more", "done", "notFound"}, sort : Sorts, lastTime : Nat, lastId : Nat]

TypeOK ==
    /\ clock \in 0..MaxTime
    /\ row \in [Products -> {"none", "stamped", "inserted", "there", "failed"}]
    /\ createdAt \in [Products -> 0..clock]
    /\ nextId \in Nat
    /\ id \in [Products -> 0..nextId]
    /\ listed \subseteq Products
    /\ walk \in Walk
    /\ times \in [Products -> 0..2]
    /\ kept \subseteq Products

Init ==
    /\ clock = 0
    /\ row = [p \in Products |-> "none"]
    /\ createdAt = [p \in Products |-> 0]
    /\ id = [p \in Products |-> 0]
    /\ nextId = 0
    /\ listed \in SUBSET Products
    /\ walk \in [pc : {"first"}, sort : Sorts, lastTime : {0}, lastId : {0}]
    /\ times = [p \in Products |-> 0]
    /\ kept = {}

There == {p \in Products : row[p] = "there"}

-----------------------------------------------------------------------------
(* The sellers                                                              *)

Tick ==
    /\ clock < MaxTime
    /\ clock' = clock + 1
    /\ UNCHANGED <<rowVars, listed, walk, times, kept>>

\* BaseEntity.onCreate, before the INSERT.
Stamp(p) ==
    /\ row[p] = "none"
    /\ row' = [row EXCEPT ![p] = "stamped"]
    /\ createdAt' = [createdAt EXCEPT ![p] = clock]
    /\ UNCHANGED <<clock, id, nextId, listed, walk, times, kept>>

InsertRow(p) ==
    /\ row[p] = "stamped"
    /\ row' = [row EXCEPT ![p] = "inserted"]
    /\ nextId' = nextId + 1
    /\ id' = [id EXCEPT ![p] = nextId + 1]
    /\ UNCHANGED <<clock, createdAt, listed, walk, times, kept>>

Commit(p) ==
    /\ row[p] = "inserted"
    /\ row' = [row EXCEPT ![p] = "there"]
    /\ UNCHANGED <<clock, createdAt, id, nextId, listed, walk, times, kept>>

SaveFails(p) ==
    /\ row[p] \in {"stamped", "inserted"}
    /\ row' = [row EXCEPT ![p] = "failed"]
    /\ UNCHANGED <<clock, createdAt, id, nextId, listed, walk, times, kept>>

\* A new title or category; the rest of the row is written again as it was read.
Edit(p) ==
    /\ p \in There
    /\ listed' = IF p \in listed THEN listed \ {p} ELSE listed \cup {p}
    /\ kept' = kept \ {p}
    /\ UNCHANGED <<clock, rowVars, walk, times>>

-----------------------------------------------------------------------------
(* The walk                                                                 *)

\* Mutant: products of the cursor's time are passed over.
BelowByTime(t, i, p) == createdAt[p] < t

\* Mutant: the product of the cursor itself is taken in.
BelowOrAt(t, i, p) ==
    \/ createdAt[p] < t
    \/ createdAt[p] = t /\ id[p] <= i

\* Mutant: a lower id will do, whatever the time.
BelowOrLower(t, i, p) == createdAt[p] < t \/ id[p] < i

\* ProductCustomRepositoryImpl.cursorCondition
Below(t, i, p) ==
    \/ createdAt[p] < t
    \/ createdAt[p] = t /\ id[p] < i

\* The order of "newest".
Newer(p, q) ==
    \/ createdAt[q] < createdAt[p]
    \/ createdAt[q] = createdAt[p] /\ id[q] < id[p]

Candidates ==
    {p \in listed \cap There : walk.pc = "more" => Below(walk.lastTime, walk.lastId, p)}

\* S comes first among the candidates in the order asked for, l is its last.
Leads(S, l) ==
    walk.sort = "newest" =>
        /\ \A p \in S, q \in Candidates \ S : Newer(p, q)
        /\ \A p \in S \ {l} : Newer(p, l)

\* findAllByCursor reads one product more than the page holds to know hasNext.
ReadPage(n, S, l) ==
    /\ walk.pc \in {"first", "more"}
    /\ S \subseteq Candidates /\ l \in S
    /\ Cardinality(S) = n \/ (S = Candidates /\ Cardinality(S) < n)
    /\ Leads(S, l)
    /\ walk' = [walk EXCEPT !.pc = IF S = Candidates THEN "done" ELSE "more",
                            !.lastTime = createdAt[l], !.lastId = id[l]]
    /\ times' = [p \in Products |-> IF p \in S /\ times[p] < 2 THEN times[p] + 1 ELSE times[p]]
    /\ kept' = IF walk.pc = "first" THEN listed \cap There ELSE kept
    /\ UNCHANGED <<clock, rowVars, listed>>

\* An empty page is an exception, which ends the walk.
NotFound ==
    /\ walk.pc \in {"first", "more"}
    /\ Candidates = {}
    /\ walk' = [walk EXCEPT !.pc = "notFound"]
    /\ UNCHANGED <<clock, rowVars, listed, times, kept>>

Next ==
    \/ Tick
    \/ \E p \in Products : Stamp(p) \/ InsertRow(p) \/ Commit(p) \/ SaveFails(p) \/ Edit(p)
    \/ \E n \in Sizes, S \in SUBSET Products, l \in Products : ReadPage(n, S, l)
    \/ NotFound

Spec == Init /\ [][Next]_vars

-----------------------------------------------------------------------------
(* Properties                                                               *)

\* However products are inserted, committed and edited meanwhile, a walk in the
\* cursor's own order shows no product twice (ProductCustomRepositoryImpl 35-80).
ShownOnce == walk.sort = "newest" => \A p \in Products : times[p] <= 1

\* When such a walk ends it has shown every product that was there when it began
\* and matched throughout (ProductCustomRepositoryImpl 67-80).
NothingSkipped ==
    walk.sort = "newest" /\ walk.pc \in {"done", "notFound"} => \A p \in kept : times[p] = 1

\* The pages of such a walk form one list: what a page shows is older than all that
\* was shown before, although a product may be committed with an older time or a
\* lower id than others already listed.
OlderAndOlder ==
    [][walk.sort = "newest" =>
        \A p, q \in Products :
            times[p] = 0 /\ times'[p] # 0 /\ times[q] # 0 => Newer(q, p)]_vars

\* A walk in the cursor's own order seen as one of Browse, where an item has a kind
\* while it is there and listed.  In any other order nothing is promised.
InOrder == walk.sort = "newest"

List == INSTANCE Browse WITH
    Items   <- Products,
    Kinds   <- {"match"},
    Choices <- {{"match"}},
    kind    <- [p \in Products |-> IF p \in listed \cap There THEN {"match"} ELSE {}],
    pc      <- IF ~InOrder \/ walk.pc = "first" THEN "idle"
               ELSE IF walk.pc = "more" THEN "walking" ELSE "over",
    seen    <- [p \in Products |-> IF InOrder THEN times[p] ELSE 0],
    owed    <- {p \in kept : InOrder /\ times[p] = 0},
    loose   <- {}

\* Every page such a walk reads is a page Browse allows, none of its items shown
\* before, edited meanwhile or not, and it ends, with a last page or an empty one,
\* only when nothing is owed (ProductCustomRepositoryImpl 35-80).
ImplementsBrowse == List!BrowseSpec

-----------------------------------------------------------------------------
(* The inductive invariant                                                  *)

HasId(p) == row[p] \in {"inserted", "there"}
IdsUnique ==
    \A p, q \in Products : HasId(p) /\ HasId(q) /\ id[p] = id[q] => p = q

\* The cursor divides what was shown from what was not.
CursorDivides ==
    walk.sort = "newest" /\ walk.pc = "more" =>
        \A p \in Products :
            LET passed == ~Below(walk.lastTime, walk.lastId, p) IN
            /\ times[p] # 0 => passed
            /\ p \in kept /\ passed => times[p] = 1

ShownWereThere ==
    /\ \A p \in Products : times[p] # 0 => p \in There
    /\ kept \subseteq listed \cap There
    /\ walk.pc = "first" => kept = {} /\ \A p \in Products : times[p] = 0

PagingInv ==
    /\ TypeOK
    /\ IdsUnique
    /\ CursorDivides
    /\ ShownWereThere
    /\ ShownOnce
    /\ NothingSkipped
=============================================================================
