--------------------------------- MODULE Feed ---------------------------------
(***************************************************************************)
(* The personal feed: one request returns a page cut into up to three      *)
(* slices, one of each category the user looks at most (Loki ranks them),  *)
(* read one after the other while products are registered and moved        *)
(* between categories.  The page size is split 6:3:1 by position.  The     *)
(* client hands the last product of each slice back as its cursor.         *)
(*                                                                         *)
(* Products are numbered in the order of their creation, which is also     *)
(* that of their commits here (Paging has the other orders), and are asked *)
(* for from the newest on.                                                 *)
(***************************************************************************)
EXTENDS Naturals, FiniteSets, Functions

CONSTANTS
    Cats,           \* pairs of a big and a middle category
    MaxProducts,    \* bound on the products ever registered
    PageSizes       \* page sizes a client may ask for

ASSUME FeedAssumption == MaxProducts \in Nat /\ PageSizes \subseteq Nat \ {0}

VARIABLES
    made,      \* how many products there are
    cat,       \* the category of each product, also of those still to come
    stayed,    \* products not moved to another category since the walk began
    phase,     \* the client: before its first page, waiting for one, with one, or done
    size,      \* the page size it asked for
    order,     \* the categories of the request under way or to come, by position
    next,      \* the position of the slice to be read
    slice,     \* the products read for each category in this request
    last,      \* the last of them, or of those shown before
    more,      \* categories whose slice has a next one
    cursor,    \* the last product shown of each category, Top if none was
    times,     \* how often each product was shown, up to 2
    due        \* products the walk has to show: there in its categories from its start on

listVars == <<made, cat, stayed>>
pageVars == <<next, slice, last, more>>
walkVars == <<cursor, times, due>>
feedVars == <<listVars, phase, size, order, pageVars, walkVars>>

Goods == 1..MaxProducts
Top == MaxProducts + 1
Orders == {o \in UNION {[1..k -> Cats] : k \in 0..3} : IsInjective(o)}
NoSlices == [c \in Cats |-> {}]

-----------------------------------------------------------------------------
(* splitByRatioWithPriority                                                 *)

Ratios == <<6, 3, 1>>
Floor(n, k) == (n * Ratios[k]) \div (Ratios[1] + Ratios[2] + Ratios[3])
Rest(n) == n - Floor(n, 1) - Floor(n, 2) - Floor(n, 3)

\* Higher ratios first, then lower positions.
Rank(k) == Cardinality({j \in 1..3 : Ratios[j] > Ratios[k] \/ (Ratios[j] = Ratios[k] /\ j < k)})

\* Mutant: what the floors leave over is not given out.
ShareFloor(n, k) == Floor(n, k)

\* What is left over goes round by rank, one each.
Share(n, k) == Floor(n, k) + (Rest(n) + 2 - Rank(k)) \div 3

-----------------------------------------------------------------------------

FeedTypeOK ==
    /\ made \in 0..MaxProducts
    /\ cat \in [Goods -> Cats]
    /\ stayed \subseteq Goods
    /\ phase \in {"start", "first", "have", "more", "done"}
    /\ size \in Nat
    /\ order \in Orders
    /\ next \in 1..4
    /\ slice \in [Cats -> SUBSET Goods]
    /\ last \in [Cats -> 1..Top]
    /\ more \subseteq Cats
    /\ cursor \in [Cats -> 1..Top]
    /\ times \in [Goods -> 0..2]
    /\ due \subseteq Goods

FeedInit ==
    /\ made \in 0..MaxProducts
    /\ cat \in [Goods -> Cats]
    /\ stayed = Goods
    /\ phase = "start"
    /\ size = 0
    /\ order = <<>>
    /\ next = 1
    /\ slice = NoSlices
    /\ last = [c \in Cats |-> Top]
    /\ more = {}
    /\ cursor = [c \in Cats |-> Top]
    /\ times = [p \in Goods |-> 0]
    /\ due = {}

Register ==
    /\ made < MaxProducts
    /\ made' = made + 1
    /\ UNCHANGED <<cat, stayed, phase, size, order, pageVars, walkVars>>

\* ProductCategoryUpdateStrategy.
Move(p, c) ==
    /\ p <= made /\ cat[p] # c
    /\ cat' = [cat EXCEPT ![p] = c]
    /\ stayed' = stayed \ {p}
    /\ due' = due \ {p}
    /\ UNCHANGED <<made, phase, size, order, pageVars, cursor, times>>

\* Without cursors the user's categories are asked of Loki, at most three.
AskFirst(n, o) ==
    /\ phase = "start"
    /\ phase' = "first" /\ size' = n /\ order' = o
    /\ due' = {p \in 1..made : cat[p] \in Range(o)}
    /\ stayed' = Goods
    /\ UNCHANGED <<made, cat, pageVars, cursor, times>>

\* With cursors their categories are taken, in the order they come.
AskMore(n) ==
    /\ phase = "have"
    /\ phase' = "more" /\ size' = n
    /\ UNCHANGED <<listVars, order, pageVars, walkVars>>

Asked == phase \in {"first", "more"}

\* Mutant: the cursor itself is shown again.
FromCursor(c) == {p \in 1..made : cat[p] = c /\ p <= cursor[c]}

\* findAllByCursor's condition for a category.
Under(c) == {p \in 1..made : cat[p] = c /\ p < cursor[c]}

\* Mutant: no row more than the share is read, so that none is seen to follow.
ReadNoMore(S, l) ==
    LET c == order[next] IN
    /\ Asked /\ next \in DOMAIN order
    /\ Share(size, next) > 0
    /\ S \subseteq Under(c)
    /\ Cardinality(S) = Share(size, next) \/ (S = Under(c) /\ Cardinality(S) < Share(size, next))
    /\ \A p \in S, q \in Under(c) \ S : q < p
    /\ IF S = {} THEN l = cursor[c] ELSE l \in S /\ \A p \in S : l <= p
    /\ slice' = [slice EXCEPT ![c] = S]
    /\ last' = [last EXCEPT ![c] = l]
    /\ next' = next + 1
    /\ UNCHANGED <<listVars, phase, size, order, more, walkVars>>

\* One slice, S, whose last is l.  An empty one is no error here: it has no products and no next.
ReadSlice(S, l) ==
    LET c == order[next] IN
    /\ Asked /\ next \in DOMAIN order
    /\ Share(size, next) > 0
    /\ S \subseteq Under(c)
    /\ Cardinality(S) = Share(size, next) \/ (S = Under(c) /\ Cardinality(S) < Share(size, next))
    /\ \A p \in S, q \in Under(c) \ S : q < p
    /\ IF S = {} THEN l = cursor[c] ELSE l \in S /\ \A p \in S : l <= p
    /\ slice' = [slice EXCEPT ![c] = S]
    /\ last' = [last EXCEPT ![c] = l]
    /\ more' = IF S = Under(c) THEN more ELSE more \cup {c}
    /\ next' = next + 1
    /\ UNCHANGED <<listVars, phase, size, order, walkVars>>

\* The client is where it was before the request.
RequestFails ==
    /\ phase' = IF phase = "first" THEN "start" ELSE "have"
    /\ order' = IF phase = "first" THEN <<>> ELSE order
    /\ due' = IF phase = "first" THEN {} ELSE due
    /\ size' = 0 /\ next' = 1 /\ slice' = NoSlices /\ last' = cursor /\ more' = {}
    /\ UNCHANGED <<listVars, cursor, times>>

\* PageRequest.of(0, 0) is an exception, and the slices read before are lost with it.
ShareIsZero ==
    /\ Asked /\ next \in DOMAIN order
    /\ Share(size, next) = 0
    /\ RequestFails

\* Loki or MySQL does not answer, or the server dies.
FeedFails == Asked /\ RequestFails

\* The page reaches the client, which hands back the cursors of the slices that
\* have a next one, and perhaps of others, in any order.
Answer(o) ==
    /\ Asked /\ next \notin DOMAIN order
    /\ more \subseteq Range(o) /\ Range(o) \subseteq Range(order)
    /\ phase' = IF Range(o) = {} THEN "done" ELSE "have"
    /\ order' = o
    /\ cursor' = last
    /\ times' = [p \in Goods |-> IF (\E c \in Cats : p \in slice[c]) /\ times[p] < 2
                                 THEN times[p] + 1 ELSE times[p]]
    /\ size' = 0 /\ next' = 1 /\ slice' = NoSlices /\ more' = {}
    /\ UNCHANGED <<listVars, last, due>>

FeedNext ==
    \/ Register
    \/ \E p \in Goods, c \in Cats : Move(p, c)
    \/ \E n \in PageSizes, o \in Orders : AskFirst(n, o)
    \/ \E n \in PageSizes : AskMore(n)
    \/ \E S \in SUBSET Goods, l \in 1..Top : ReadSlice(S, l)
    \/ ShareIsZero
    \/ FeedFails
    \/ \E o \in Orders : Answer(o)

FeedSpec == FeedInit /\ [][FeedNext]_feedVars

-----------------------------------------------------------------------------
(* Properties                                                               *)

\* A product that keeps its category is shown once, however the walk's positions
\* and sizes change and whichever request fails (PersonalRecommendationService 112-157).
FeedShowsOnce == \A p \in stayed : times[p] <= 1

\* When no cursor is left, every product that was in the walk's categories from its
\* first request on has been shown (PersonalRecommendationService 97-108, 141-157).
FeedSkipsNothing == phase = "done" => \A p \in due : times[p] >= 1

SliceSize(k) == IF k \in DOMAIN order /\ k < next THEN Cardinality(slice[order[k]]) ELSE 0
PageTotal == SliceSize(1) + SliceSize(2) + SliceSize(3)

\* A page never holds more than was asked for, and exactly that when every category
\* has more to show and none that has a share is missing: what the integer divisions
\* leave over is given out (splitByRatioWithPriority 161-202).
PageFilled ==
    Asked /\ next \notin DOMAIN order =>
        /\ PageTotal <= size
        /\ (/\ Range(order) \subseteq more
            /\ \A k \in (1..3) \ DOMAIN order : Share(size, k) = 0) => PageTotal = size

\* The feed seen as a walk of Browse.  An item is loose once it was moved.
FeedWalk == INSTANCE Browse WITH
    Items   <- Goods,
    Kinds   <- Cats,
    Choices <- {Range(o) : o \in Orders},
    kind    <- [p \in Goods |-> IF p <= made THEN {cat[p]} ELSE {}],
    pc      <- IF phase = "start" THEN "idle" ELSE IF phase = "done" THEN "over" ELSE "walking",
    seen    <- times,
    owed    <- {p \in due : times[p] = 0},
    loose   <- Goods \ stayed

\* Up to three slices read one after the other, requests that fail between them and
\* categories that drop out make one walk: what was read for a request that fails is
\* not shown, and the walk ends only when no category owes anything
\* (PersonalRecommendationService 97-157).
FeedImplementsBrowse == FeedWalk!BrowseSpec

-----------------------------------------------------------------------------
(* The inductive invariant                                                  *)

\* Positions below next have been read; others have no slice.
Read == {order[k] : k \in {j \in DOMAIN order : j < next}}

PageSound ==
    /\ Asked \/ next = 1
    /\ \A c \in Cats \ Read : slice[c] = {}
    /\ more \subseteq Read
    /\ \A k \in DOMAIN order : k < next =>
          /\ Cardinality(slice[order[k]]) <= Share(size, k)
          /\ order[k] \in more => Cardinality(slice[order[k]]) = Share(size, k)

\* What the slices hold lies below their cursors, and a due product that was not
\* read lies below them.
SlicesSound ==
    /\ \A c \in Cats \ Read : last[c] = cursor[c]
    /\ \A c \in Read :
        /\ IF slice[c] = {} THEN last[c] = cursor[c]
           ELSE last[c] \in slice[c] /\ \A p \in slice[c] : last[c] <= p
        /\ \A p \in slice[c] : p <= made /\ p < cursor[c] /\ (p \in stayed => cat[p] = c)
        /\ \A p \in due \ slice[c] : cat[p] = c /\ p < cursor[c] =>
              c \in more /\ \A q \in slice[c] : p < q

\* The cursor of a category divides what was shown of it from what was not.
CursorsDivide ==
    /\ due \subseteq stayed \cap (1..made)
    /\ \A p \in Goods : times[p] > 0 => phase \in {"have", "more", "done"} /\ p <= made
    /\ \A p \in stayed : times[p] > 0 => cursor[cat[p]] <= p
    /\ \A p \in due : cursor[cat[p]] <= p => times[p] > 0
    /\ \A p \in due : cat[p] \notin Range(order) => times[p] > 0
    /\ phase = "start" => due = {} /\ order = <<>>
    /\ phase = "done" => order = <<>>
    /\ phase \in {"start", "first"} => \A c \in Cats : cursor[c] = Top

FeedInv ==
    /\ FeedTypeOK
    /\ PageSound
    /\ SlicesSound
    /\ CursorsDivide
    /\ FeedShowsOnce
=============================================================================
