------------------------------ MODULE FeedProofs ------------------------------
(* The shares of a page add up to it, FeedInv is inductive, and what follows. *)
EXTENDS Feed, FiniteSetTheorems, TLAPS

-----------------------------------------------------------------------------
(* The shares                                                               *)

LEMMA Ranks == Rank(1) = 0 /\ Rank(2) = 1 /\ Rank(3) = 2
<1> DEFINE Ahead(k) == {j \in 1..3 : Ratios[j] > Ratios[k] \/ (Ratios[j] = Ratios[k] /\ j < k)}
<1>1. Ahead(1) = {} /\ Ahead(2) = {1} /\ Ahead(3) = {1, 2}
  BY DEF Ratios
<1>2. Cardinality({}) = 0 /\ Cardinality({1}) = 1
  BY FS_EmptySet, FS_Singleton
<1>3. Cardinality({1, 2}) = 2
  <2>1. 1..2 = {1, 2}
    OBVIOUS
  <2>2. Cardinality(1..2) = IF 1 > 2 THEN 0 ELSE 2 - 1 + 1
    BY ONLY FS_Interval, 1 \in Int, 2 \in Int
  <2> QED BY <2>1, <2>2
<1> QED BY <1>1, <1>2, <1>3 DEF Rank

LEMMA ShareNat == ASSUME NEW n \in Nat, NEW k \in 1..3 PROVE Share(n, k) \in Nat
  BY Ranks DEF Share, Floor, Rest, Ratios

\* However many products are asked for, the three shares add up to them: the
\* divisions leave at most two over, and those are given out.
THEOREM SharesAddUp == \A n \in Nat : Share(n, 1) + Share(n, 2) + Share(n, 3) = n
<1> SUFFICES ASSUME NEW n \in Nat PROVE Share(n, 1) + Share(n, 2) + Share(n, 3) = n
  OBVIOUS
<1>1. /\ Floor(n, 1) = (n * 6) \div 10 /\ Floor(n, 2) = (n * 3) \div 10
      /\ Floor(n, 3) = n \div 10
  BY DEF Floor, Ratios
<1>2. Rest(n) \in 0..2
  BY <1>1 DEF Rest
<1>3. (Rest(n) + 2) \div 3 + (Rest(n) + 1) \div 3 + Rest(n) \div 3 = Rest(n)
  BY <1>2
<1>4. Share(n, 1) + Share(n, 2) + Share(n, 3)
        = Floor(n, 1) + Floor(n, 2) + Floor(n, 3)
          + ((Rest(n) + 2) \div 3 + (Rest(n) + 1) \div 3 + Rest(n) \div 3)
  BY <1>1, <1>2, Ranks DEF Share
<1> QED BY <1>1, <1>2, <1>3, <1>4 DEF Rest

\* A page of ten or more leaves no slice without a share, so such a request never
\* fails on PageRequest.of(0, 0).
THEOREM TenIsEnough == \A n \in Nat, k \in 1..3 : n >= 10 => Share(n, k) > 0
  BY Ranks DEF Share, Floor, Rest, Ratios

-----------------------------------------------------------------------------
(* Orders                                                                   *)

LEMMA OrderFacts ==
  ASSUME NEW o \in Orders
  PROVE  /\ DOMAIN o \in {{}, 1..1, 1..2, 1..3}
         /\ DOMAIN o \subseteq 1..3
         /\ \A k \in DOMAIN o : o[k] \in Cats
         /\ \A j, k \in DOMAIN o : o[j] = o[k] => j = k
         /\ Range(o) \subseteq Cats
         /\ \A k \in DOMAIN o : o[k] \in Range(o)
<1>1. PICK m \in 0..3 : o \in [1..m -> Cats]
  BY DEF Orders
<1>2. IsInjective(o)
  BY DEF Orders
<1>3. m = 0 \/ m = 1 \/ m = 2 \/ m = 3
  BY <1>1
<1>4. DOMAIN o = 1..m
  BY <1>1
<1>5. DOMAIN o \in {{}, 1..1, 1..2, 1..3} /\ DOMAIN o \subseteq 1..3
  BY <1>3, <1>4
<1> QED BY <1>1, <1>2, <1>4, <1>5 DEF IsInjective, Range

LEMMA EmptyOrder == <<>> \in Orders /\ Range(<<>>) = {} /\ DOMAIN <<>> = {}
<1>1. <<>> \in [1..0 -> Cats]
  OBVIOUS
<1>2. DOMAIN <<>> = {}
  BY <1>1
<1>3. IsInjective(<<>>) /\ Range(<<>>) = {}
  BY <1>2 DEF IsInjective, Range
<1>4. <<>> \in UNION {[1..k -> Cats] : k \in 0..3}
  BY <1>1, 0 \in 0..3
<1> QED BY <1>2, <1>3, <1>4 DEF Orders

\* An empty order hands nothing back and is the empty tuple.
LEMMA NoCursors == ASSUME NEW o \in Orders, Range(o) = {} PROVE o = <<>>
<1>1. PICK m \in 0..3 : o \in [1..m -> Cats]
  BY DEF Orders
<1>2. DOMAIN o = {}
  BY OrderFacts
<1>3. m = 0
  BY <1>1, <1>2
<1> QED BY <1>1, <1>3

-----------------------------------------------------------------------------
(* The invariant                                                            *)

LEMMA NoneRead == ASSUME order \in Orders, next = 1 PROVE Read = {}
<1>1. \A k \in DOMAIN order : ~(k < 1)
  BY OrderFacts
<1> QED BY <1>1 DEF Read

\* The steps below leave the order and the position alone.
LEMMA SameRead == ASSUME UNCHANGED <<order, next>> PROVE Read' = Read
  BY DEF Read

LEMMA FeedInitInv == FeedInit => FeedInv
<1> SUFFICES ASSUME FeedInit PROVE FeedInv
  OBVIOUS
<1> USE FeedAssumption
<1>1. FeedTypeOK
  BY EmptyOrder DEF FeedInit, FeedTypeOK, Goods, Top, NoSlices
<1>2. Read = {}
  BY EmptyOrder DEF FeedInit, Read
<1>3. PageSound
  BY <1>2, EmptyOrder DEF FeedInit, PageSound, NoSlices
<1>4. SlicesSound
  BY <1>2 DEF FeedInit, SlicesSound
<1>5. CursorsDivide
  BY EmptyOrder DEF FeedInit, CursorsDivide
<1>6. FeedShowsOnce
  BY DEF FeedInit, FeedShowsOnce, Goods
<1> QED BY <1>1, <1>3, <1>4, <1>5, <1>6 DEF FeedInv

LEMMA RegisterInv == FeedInv /\ Register => FeedInv'
<1> SUFFICES ASSUME FeedInv, Register PROVE FeedInv'
  OBVIOUS
<1> USE FeedAssumption
<1>1. /\ made < MaxProducts /\ made' = made + 1
      /\ UNCHANGED <<cat, stayed, phase, size, order, next, slice, last, more, cursor,
                     times, due>>
  BY DEF Register, pageVars, walkVars
<1>2. FeedTypeOK'
  BY <1>1 DEF FeedInv, FeedTypeOK
<1>3. PageSound' /\ FeedShowsOnce'
  BY <1>1 DEF FeedInv, PageSound, FeedShowsOnce, Read, Asked
<1>4. SlicesSound'
  <2>1. Read' = Read
    BY <1>1, SameRead
  <2> QED BY <1>1, <2>1 DEF FeedInv, FeedTypeOK, SlicesSound, Goods
<1>5. CursorsDivide'
  BY <1>1 DEF FeedInv, FeedTypeOK, CursorsDivide, Goods
<1> QED BY <1>2, <1>3, <1>4, <1>5 DEF FeedInv

LEMMA MoveInv ==
  ASSUME FeedInv, NEW p \in Goods, NEW c \in Cats, Move(p, c)
  PROVE  FeedInv'
<1>1. /\ p <= made /\ cat' = [cat EXCEPT ![p] = c]
      /\ stayed' = stayed \ {p} /\ due' = due \ {p}
      /\ UNCHANGED <<made, phase, size, order, next, slice, last, more, cursor, times>>
  BY DEF Move, pageVars
<1>2. FeedTypeOK'
  BY <1>1 DEF FeedInv, FeedTypeOK
<1>3. PageSound' /\ FeedShowsOnce'
  BY <1>1 DEF FeedInv, PageSound, FeedShowsOnce, Read, Asked
<1>4. \A q \in Goods \ {p} : cat'[q] = cat[q]
  BY <1>1 DEF FeedInv, FeedTypeOK
<1>5. SlicesSound'
  BY <1>1, <1>4 DEF FeedInv, FeedTypeOK, SlicesSound, Read
<1>6. CursorsDivide'
  BY <1>1, <1>4 DEF FeedInv, FeedTypeOK, CursorsDivide
<1> QED BY <1>2, <1>3, <1>5, <1>6 DEF FeedInv

LEMMA AskFirstInv ==
  ASSUME FeedInv, NEW n \in PageSizes, NEW o \in Orders, AskFirst(n, o)
  PROVE  FeedInv'
<1> USE FeedAssumption
<1>1. /\ phase = "start" /\ phase' = "first" /\ size' = n /\ order' = o
      /\ due' = {p \in 1..made : cat[p] \in Range(o)} /\ stayed' = Goods
      /\ UNCHANGED <<made, cat, next, slice, last, more, cursor, times>>
  BY DEF AskFirst, pageVars
<1>2. next = 1 /\ Read = {} /\ Read' = {}
  <2>1. next = 1 /\ order \in Orders
    BY <1>1 DEF FeedInv, FeedTypeOK, PageSound, Asked
  <2>2. Read = {}
    BY <2>1, NoneRead
  <2>3. Read' = {}
    <3>1. \A k \in DOMAIN o : ~(k < 1)
      BY OrderFacts
    <3> QED BY <1>1, <2>1, <3>1 DEF Read
  <2> QED BY <2>1, <2>2, <2>3
<1>3. FeedTypeOK'
  BY <1>1 DEF FeedInv, FeedTypeOK, Goods
<1>4. \A p \in Goods : times[p] = 0
  BY <1>1 DEF FeedInv, FeedTypeOK, CursorsDivide
<1>5. PageSound'
  BY <1>1, <1>2, OrderFacts DEF FeedInv, PageSound
<1>6. SlicesSound'
  BY <1>1, <1>2 DEF FeedInv, SlicesSound
<1>7. CursorsDivide'
  BY <1>1, <1>4 DEF FeedInv, FeedTypeOK, CursorsDivide, Goods, Top
<1>8. FeedShowsOnce'
  BY <1>1, <1>4 DEF FeedShowsOnce
<1> QED BY <1>3, <1>5, <1>6, <1>7, <1>8 DEF FeedInv

LEMMA AskMoreInv ==
  ASSUME FeedInv, NEW n \in PageSizes, AskMore(n)
  PROVE  FeedInv'
<1> USE FeedAssumption
<1>1. /\ phase = "have" /\ phase' = "more" /\ size' = n
      /\ UNCHANGED <<made, cat, stayed, order, next, slice, last, more, cursor, times, due>>
  BY DEF AskMore, pageVars, listVars, walkVars
<1>2. next = 1 /\ Read = {} /\ Read' = {}
  <2>1. next = 1 /\ order \in Orders
    BY <1>1 DEF FeedInv, FeedTypeOK, PageSound, Asked
  <2> QED BY <1>1, <2>1, NoneRead, SameRead
<1>3. FeedTypeOK'
  BY <1>1 DEF FeedInv, FeedTypeOK
<1>4. PageSound'
  <2> order \in Orders
    BY DEF FeedInv, FeedTypeOK
  <2>1. \A k \in DOMAIN order : ~(k < 1)
    BY OrderFacts
  <2> QED BY <1>1, <1>2, <2>1 DEF FeedInv, PageSound, Asked
<1>5. SlicesSound'
  BY <1>1, <1>2 DEF FeedInv, SlicesSound
<1>6. CursorsDivide' /\ FeedShowsOnce'
  BY <1>1 DEF FeedInv, FeedTypeOK, CursorsDivide, FeedShowsOnce
<1> QED BY <1>3, <1>4, <1>5, <1>6 DEF FeedInv

\* A slice has no more products than there are.
LEMMA SliceFinite ==
  ASSUME NEW S \in SUBSET Goods
  PROVE  IsFiniteSet(S) /\ Cardinality(S) \in Nat
<1>1. IsFiniteSet(Goods)
  BY FS_Interval, FeedAssumption DEF Goods
<1> QED BY <1>1, FS_Subset, FS_CardinalityType

LEMMA ReadSliceInv ==
  ASSUME FeedInv, NEW S \in SUBSET Goods, NEW l \in 1..Top, ReadSlice(S, l)
  PROVE  FeedInv'
<1> DEFINE c == order[next]
<1>1. /\ Asked /\ next \in DOMAIN order
      /\ S \subseteq Under(c)
      /\ Cardinality(S) = Share(size, next)
           \/ (S = Under(c) /\ Cardinality(S) < Share(size, next))
      /\ \A p \in S, q \in Under(c) \ S : q < p
      /\ IF S = {} THEN l = cursor[c] ELSE l \in S /\ \A p \in S : l <= p
      /\ slice' = [slice EXCEPT ![c] = S]
      /\ last' = [last EXCEPT ![c] = l]
      /\ more' = IF S = Under(c) THEN more ELSE more \cup {c}
      /\ next' = next + 1
  BY DEF ReadSlice
<1>2. UNCHANGED <<made, cat, stayed, phase, size, order, cursor, times, due>>
  BY DEF ReadSlice, listVars, walkVars
<1>3. /\ order \in Orders /\ DOMAIN order \subseteq 1..3 /\ next \in 1..3 /\ c \in Cats
      /\ \A j, k \in DOMAIN order : order[j] = order[k] => j = k
      /\ DOMAIN order \subseteq Nat
  <2>1. order \in Orders
    BY DEF FeedInv, FeedTypeOK
  <2> QED BY <1>1, <2>1, OrderFacts
<1>4. c \notin Read
  BY <1>1, <1>3 DEF Read
<1>5. Read' = Read \cup {c}
  <2>1. \A k \in DOMAIN order : k < next + 1 <=> k < next \/ k = next
    BY <1>3
  <2> QED BY <1>1, <1>2, <2>1 DEF Read
<1>6. Cardinality(S) \in Nat /\ Share(size, next) \in Nat
  BY <1>3, SliceFinite, ShareNat DEF FeedInv, FeedTypeOK
<1>7. FeedTypeOK'
  BY <1>1, <1>2, <1>3 DEF FeedInv, FeedTypeOK
<1>8. PageSound'
  <2>1. Asked' /\ more' \subseteq Read'
    BY <1>1, <1>2, <1>5 DEF FeedInv, PageSound, Asked
  <2>2. \A d \in Cats \ Read' : slice'[d] = {}
    BY <1>1, <1>5 DEF FeedInv, FeedTypeOK, PageSound
  <2>3. ASSUME NEW k \in DOMAIN order', k < next'
        PROVE  /\ Cardinality(slice'[order'[k]]) <= Share(size', k)
               /\ order'[k] \in more' => Cardinality(slice'[order'[k]]) = Share(size', k)
    <3>1. CASE k = next
      <4>1. slice'[order'[k]] = S
        BY <3>1, <1>1, <1>2, <1>3 DEF FeedInv, FeedTypeOK
      <4>2. c \notin more
        BY <1>4 DEF FeedInv, PageSound
      <4> QED BY <4>1, <4>2, <3>1, <1>1, <1>2, <1>6
    <3>2. CASE k # next
      <4>1. k < next /\ k \in DOMAIN order /\ order[k] # c /\ order[k] \in Cats
        BY <2>3, <3>2, <1>1, <1>2, <1>3, OrderFacts
      <4>2. slice'[order'[k]] = slice[order[k]] /\ (order'[k] \in more' => order[k] \in more)
        BY <4>1, <1>1, <1>2, <1>3 DEF FeedInv, FeedTypeOK
      <4> QED BY <4>1, <4>2, <1>2 DEF FeedInv, PageSound
    <3> QED BY <3>1, <3>2
  <2> QED BY <2>1, <2>2, <2>3 DEF PageSound
<1>9. SlicesSound'
  <2>1. \A d \in Cats \ Read' : last'[d] = cursor'[d]
    BY <1>1, <1>2, <1>5 DEF FeedInv, FeedTypeOK, SlicesSound
  <2>2. slice'[c] = S /\ last'[c] = l
    BY <1>1, <1>3 DEF FeedInv, FeedTypeOK
  <2>3. \A p \in S : p <= made /\ p < cursor[c] /\ cat[p] = c
    BY <1>1 DEF Under
  <2>4. ASSUME NEW p \in due \ S, cat[p] = c, p < cursor[c]
        PROVE  c \in more' /\ \A q \in S : p < q
    <3>1. p \in Under(c) \ S
      BY <2>4 DEF FeedInv, CursorsDivide, Under
    <3> QED BY <3>1, <1>1
  <2>5. \A d \in Read : /\ d # c /\ d \in Cats
                        /\ slice'[d] = slice[d] /\ last'[d] = last[d]
                        /\ (d \in more' <=> d \in more)
    BY <1>1, <1>3, <1>4, OrderFacts DEF FeedInv, FeedTypeOK, Read
  <2> QED BY <2>1, <2>2, <2>3, <2>4, <2>5, <1>1, <1>2, <1>5 DEF FeedInv, SlicesSound
<1>10. CursorsDivide' /\ FeedShowsOnce'
  BY <1>2 DEF FeedInv, FeedTypeOK, CursorsDivide, FeedShowsOnce
<1> QED BY <1>7, <1>8, <1>9, <1>10 DEF FeedInv

LEMMA RequestFailsInv == FeedInv /\ Asked /\ RequestFails => FeedInv'
<1> SUFFICES ASSUME FeedInv, Asked, RequestFails PROVE FeedInv'
  OBVIOUS
<1>1. /\ phase' = IF phase = "first" THEN "start" ELSE "have"
      /\ order' = IF phase = "first" THEN <<>> ELSE order
      /\ due' = IF phase = "first" THEN {} ELSE due
      /\ size' = 0 /\ next' = 1 /\ slice' = [d \in Cats |-> {}] /\ last' = cursor
      /\ more' = {}
      /\ UNCHANGED <<made, cat, stayed, cursor, times>>
  BY DEF RequestFails, listVars, NoSlices
<1>2. order' \in Orders
  BY <1>1, EmptyOrder DEF FeedInv, FeedTypeOK
<1>3. \A k \in DOMAIN order' : ~(k < 1)
  BY <1>2, OrderFacts
<1>4. Read' = {}
  BY <1>1, <1>3 DEF Read
<1>5. FeedTypeOK'
  BY <1>1, <1>2 DEF FeedInv, FeedTypeOK
<1>6. PageSound'
  BY <1>1, <1>3, <1>4 DEF PageSound
<1>7. SlicesSound'
  BY <1>1, <1>4 DEF SlicesSound
<1>8. CursorsDivide'
  BY <1>1 DEF FeedInv, FeedTypeOK, CursorsDivide, Asked
<1>9. FeedShowsOnce'
  BY <1>1 DEF FeedInv, FeedShowsOnce
<1> QED BY <1>5, <1>6, <1>7, <1>8, <1>9 DEF FeedInv

\* Once the position is past the order, every category of it has been read.
LEMMA AllRead ==
  ASSUME FeedInv, next \notin DOMAIN order
  PROVE  /\ Read = Range(order)
         /\ \A k \in DOMAIN order : k < next
<1>1. order \in Orders /\ next \in 1..4
  BY DEF FeedInv, FeedTypeOK
<1>2. DOMAIN order \in {{}, 1..1, 1..2, 1..3}
  BY <1>1, OrderFacts
<1>3. \A k \in DOMAIN order : k < next
  BY <1>1, <1>2
<1> QED BY <1>3 DEF Read, Range

LEMMA AnswerInv ==
  ASSUME FeedInv, NEW o \in Orders, Answer(o)
  PROVE  FeedInv'
<1>1. /\ Asked /\ next \notin DOMAIN order
      /\ more \subseteq Range(o) /\ Range(o) \subseteq Range(order)
      /\ phase' = IF Range(o) = {} THEN "done" ELSE "have"
      /\ order' = o
      /\ cursor' = last
      /\ times' = [p \in Goods |-> IF (\E c \in Cats : p \in slice[c]) /\ times[p] < 2
                                   THEN times[p] + 1 ELSE times[p]]
      /\ size' = 0 /\ next' = 1 /\ slice' = [d \in Cats |-> {}] /\ more' = {}
      /\ UNCHANGED <<made, cat, stayed, last, due>>
  BY DEF Answer, listVars, NoSlices
<1>2. Read = Range(order)
  BY <1>1, AllRead
<1>3. \A k \in DOMAIN o : ~(k < 1)
  BY OrderFacts
<1>4. Read' = {}
  BY <1>1, <1>3 DEF Read
<1>5. \A c \in Cats : \A p \in slice[c] :
          /\ c \in Read /\ p \in Goods /\ p <= made /\ p < cursor[c] /\ last[c] <= p
          /\ p \in stayed => cat[p] = c
  BY DEF FeedInv, FeedTypeOK, PageSound, SlicesSound
<1>6. \A c \in Cats : last[c] \in Nat /\ cursor[c] \in Nat /\ last[c] <= cursor[c]
  <2> TAKE c \in Cats
  <2>1. last[c] \in Nat /\ cursor[c] \in Nat
    BY FeedAssumption DEF FeedInv, FeedTypeOK, Top
  <2>2. CASE last[c] = cursor[c]
    BY <2>1, <2>2
  <2>3. CASE last[c] # cursor[c]
    <3>1. c \in Read /\ last[c] \in slice[c]
      BY <2>3 DEF FeedInv, SlicesSound
    <3> QED BY <2>1, <3>1 DEF FeedInv, SlicesSound
  <2> QED BY <2>2, <2>3
<1>7. \A p \in stayed : times[p] > 0 => \A c \in Cats : p \notin slice[c]
  BY <1>5 DEF FeedInv, FeedTypeOK, CursorsDivide, Goods, Top
<1>8. \A p \in Goods : times'[p] > 0 <=> times[p] > 0 \/ \E c \in Cats : p \in slice[c]
  BY <1>1 DEF FeedInv, FeedTypeOK
<1>9. FeedTypeOK'
  BY <1>1 DEF FeedInv, FeedTypeOK
<1>10. PageSound' /\ SlicesSound'
  BY <1>1, <1>3, <1>4 DEF PageSound, SlicesSound
<1>11. FeedShowsOnce'
  BY <1>1, <1>7 DEF FeedInv, FeedTypeOK, FeedShowsOnce
<1>12. CursorsDivide'
  <2>1. \A p \in Goods : times'[p] > 0 => phase' \in {"have", "more", "done"} /\ p <= made
    BY <1>1, <1>5, <1>8 DEF FeedInv, CursorsDivide
  <2>2. ASSUME NEW p \in stayed, times'[p] > 0
        PROVE  last[cat[p]] <= p
    <3>1. CASE times[p] > 0
      <4>1. cat[p] \in Cats /\ cursor[cat[p]] <= p /\ p \in Nat
        BY <3>1 DEF FeedInv, FeedTypeOK, CursorsDivide, Goods
      <4> QED BY <4>1, <1>6
    <3>2. CASE \E c \in Cats : p \in slice[c]
      BY <3>2, <1>5
    <3> QED BY <2>2, <3>1, <3>2, <1>8 DEF FeedInv, FeedTypeOK
  <2>3. ASSUME NEW p \in due, times'[p] = 0
        PROVE  p < last[cat[p]] /\ cat[p] \in Range(o)
    <3> DEFINE c == cat[p]
    <3>1. p \in Goods /\ c \in Cats /\ times[p] = 0 /\ p \notin slice[c]
      BY <2>3, <1>8 DEF FeedInv, FeedTypeOK
    <3>2. p < cursor[c]
      BY <3>1 DEF FeedInv, FeedTypeOK, CursorsDivide, Goods, Top
    <3>3. c \in Read
      BY <3>1, <1>2 DEF FeedInv, CursorsDivide
    <3>4. c \in more /\ \A q \in slice[c] : p < q
      BY <3>1, <3>2, <3>3 DEF FeedInv, SlicesSound
    <3>5. p < last[c]
      BY <3>1, <3>2, <3>3, <3>4 DEF FeedInv, SlicesSound
    <3> QED BY <3>4, <3>5, <1>1
  <2>4. times' \in [Goods -> 0..2] /\ due \subseteq Goods /\ cat \in [Goods -> Cats]
    BY <1>9, <1>1 DEF FeedInv, FeedTypeOK
  <2>5. \A p \in due : (last[cat[p]] <= p => times'[p] > 0)
                    /\ (cat[p] \notin Range(o) => times'[p] > 0)
    BY <2>3, <2>4 DEF FeedInv, FeedTypeOK, Goods, Top
  <2>6. phase' \in {"have", "done"} /\ (phase' = "done" => order' = <<>>)
    BY <1>1, NoCursors
  <2> QED BY <2>1, <2>2, <2>5, <2>6, <1>1 DEF FeedInv, CursorsDivide
<1> QED BY <1>9, <1>10, <1>11, <1>12 DEF FeedInv

LEMMA FeedStutter == FeedInv /\ UNCHANGED feedVars => FeedInv'
<1> SUFFICES ASSUME FeedInv, UNCHANGED feedVars PROVE FeedInv'
  OBVIOUS
<1>1. UNCHANGED <<made, cat, stayed, phase, size, order, next, slice, last, more, cursor,
                  times, due>>
  BY DEF feedVars, listVars, pageVars, walkVars
<1>2. Read' = Read
  BY <1>1, SameRead
<1>3. FeedTypeOK' /\ PageSound'
  BY <1>1, <1>2 DEF FeedInv, FeedTypeOK, PageSound, Asked
<1>4. SlicesSound' /\ CursorsDivide' /\ FeedShowsOnce'
  BY <1>1, <1>2 DEF FeedInv, SlicesSound, CursorsDivide, FeedShowsOnce
<1> QED BY <1>3, <1>4 DEF FeedInv

LEMMA FeedStepInv == FeedInv /\ [FeedNext]_feedVars => FeedInv'
<1> SUFFICES ASSUME FeedInv, [FeedNext]_feedVars PROVE FeedInv'
  OBVIOUS
<1>1. CASE Register
  BY <1>1, RegisterInv
<1>2. ASSUME NEW p \in Goods, NEW c \in Cats, Move(p, c) PROVE FeedInv'
  BY <1>2, MoveInv
<1>3. ASSUME NEW n \in PageSizes, NEW o \in Orders, AskFirst(n, o) PROVE FeedInv'
  BY <1>3, AskFirstInv
<1>4. ASSUME NEW n \in PageSizes, AskMore(n) PROVE FeedInv'
  BY <1>4, AskMoreInv
<1>5. ASSUME NEW S \in SUBSET Goods, NEW l \in 1..Top, ReadSlice(S, l) PROVE FeedInv'
  BY <1>5, ReadSliceInv
<1>6. CASE ShareIsZero
  BY <1>6, RequestFailsInv DEF ShareIsZero
<1>7. CASE FeedFails
  BY <1>7, RequestFailsInv DEF FeedFails
<1>8. ASSUME NEW o \in Orders, Answer(o) PROVE FeedInv'
  BY <1>8, AnswerInv
<1>9. CASE UNCHANGED feedVars
  BY <1>9, FeedStutter
<1> QED BY <1>1, <1>2, <1>3, <1>4, <1>5, <1>6, <1>7, <1>8, <1>9 DEF FeedNext

-----------------------------------------------------------------------------
(* What follows                                                             *)

\* Every state of the feed satisfies the inductive invariant: slices within their
\* shares and below their cursors, and a cursor that divides what was shown from
\* what was not.
THEOREM FeedInvariant == FeedSpec => []FeedInv
<1>1. FeedInit => FeedInv
  BY FeedInitInv
<1>2. FeedInv /\ [FeedNext]_feedVars => FeedInv'
  BY FeedStepInv
<1> QED BY <1>1, <1>2, PTL DEF FeedSpec

\* No product that keeps its category is shown twice in a walk.
THEOREM FeedShowsNothingTwice == FeedSpec => []FeedShowsOnce
<1>1. FeedInv => FeedShowsOnce
  BY DEF FeedInv
<1> QED BY <1>1, FeedInvariant, PTL

\* A walk that ends has shown all it had to show.
THEOREM FeedIsComplete == FeedSpec => []FeedSkipsNothing
<1>1. FeedInv => FeedSkipsNothing
  <2> SUFFICES ASSUME FeedInv, phase = "done", NEW p \in due PROVE times[p] >= 1
    BY DEF FeedSkipsNothing
  <2>1. order = <<>> /\ Range(order) = {}
    BY EmptyOrder DEF FeedInv, CursorsDivide
  <2>2. times[p] > 0 /\ times[p] \in Nat
    BY <2>1 DEF FeedInv, FeedTypeOK, CursorsDivide
  <2> QED BY <2>2
<1> QED BY <1>1, FeedInvariant, PTL

LEMMA SliceSizes ==
  ASSUME FeedInv, next \notin DOMAIN order, NEW k \in 1..3
  PROVE  /\ SliceSize(k) \in Nat /\ SliceSize(k) <= Share(size, k)
         /\ k \notin DOMAIN order => SliceSize(k) = 0
         /\ k \in DOMAIN order /\ order[k] \in more => SliceSize(k) = Share(size, k)
<1>1. order \in Orders /\ size \in Nat /\ Share(size, k) \in Nat
  BY ShareNat DEF FeedInv, FeedTypeOK
<1>2. CASE k \in DOMAIN order
  <2>1. k < next /\ order[k] \in Cats
    BY <1>1, <1>2, AllRead, OrderFacts
  <2>2. SliceSize(k) = Cardinality(slice[order[k]])
    BY <1>2, <2>1 DEF SliceSize
  <2>3. slice[order[k]] \in SUBSET Goods
    BY <2>1 DEF FeedInv, FeedTypeOK
  <2>4. Cardinality(slice[order[k]]) \in Nat
    BY <2>3, SliceFinite
  <2> QED BY <1>2, <2>1, <2>2, <2>4 DEF FeedInv, PageSound
<1>3. CASE k \notin DOMAIN order
  BY <1>1, <1>3 DEF SliceSize
<1> QED BY <1>2, <1>3

\* A page holds what was asked for, and no more.
THEOREM PagesAreFilled == FeedSpec => []PageFilled
<1>1. FeedInv => PageFilled
  <2> SUFFICES ASSUME FeedInv, next \notin DOMAIN order
               PROVE  /\ PageTotal <= size
                      /\ (/\ Range(order) \subseteq more
                          /\ \A k \in (1..3) \ DOMAIN order : Share(size, k) = 0)
                            => PageTotal = size
    BY DEF PageFilled
  <2>1. size \in Nat /\ order \in Orders
    BY DEF FeedInv, FeedTypeOK
  <2>2. \A k \in 1..3 : Share(size, k) \in Nat /\ SliceSize(k) \in Nat
                        /\ SliceSize(k) <= Share(size, k)
    BY <2>1, ShareNat, SliceSizes
  <2>3. Share(size, 1) + Share(size, 2) + Share(size, 3) = size
    BY <2>1, SharesAddUp
  <2>4. PageTotal <= size
    BY <2>1, <2>2, <2>3 DEF PageTotal
  <2>5. ASSUME Range(order) \subseteq more,
               \A k \in (1..3) \ DOMAIN order : Share(size, k) = 0
        PROVE  \A k \in 1..3 : SliceSize(k) = Share(size, k)
    <3>1. \A k \in DOMAIN order : order[k] \in more
      BY <2>1, <2>5, OrderFacts
    <3> QED BY <3>1, <2>5, SliceSizes
  <2>6. ASSUME \A k \in 1..3 : SliceSize(k) = Share(size, k)
        PROVE  PageTotal = size
    BY <2>3, <2>6 DEF PageTotal
  <2> QED BY <2>4, <2>5, <2>6
<1> QED BY <1>1, FeedInvariant, PTL

-----------------------------------------------------------------------------
(* The feed implements Browse                                               *)

kindBar  == [p \in Goods |-> IF p <= made THEN {cat[p]} ELSE {}]
pcBar    == IF phase = "start" THEN "idle" ELSE IF phase = "done" THEN "over" ELSE "walking"
owedBar  == {p \in due : times[p] = 0}
looseBar == Goods \ stayed

browseBar == <<kindBar, pcBar, times, owedBar, looseBar>>

LEMMA BrowseInitially == FeedInit => FeedWalk!BrowseInit
<1> SUFFICES ASSUME FeedInit PROVE FeedWalk!BrowseInit
  OBVIOUS
<1>1. kindBar \in [Goods -> {{}} \cup {{k} : k \in Cats}]
  <2>1. \A p \in Goods : cat[p] \in Cats
    BY DEF FeedInit
  <2> QED BY <2>1 DEF kindBar
<1>2. pcBar = "idle" /\ times = [p \in Goods |-> 0] /\ owedBar = {} /\ looseBar = {}
  BY DEF FeedInit, pcBar, owedBar, looseBar
<1> QED BY <1>1, <1>2 DEF FeedWalk!BrowseInit, kindBar, pcBar, owedBar, looseBar

\* A product is registered or moved.
LEMMA BecomeStep ==
  ASSUME NEW p \in Goods, NEW c \in Cats,
         kindBar' = [kindBar EXCEPT ![p] = {c}], owedBar' = owedBar \ {p},
         looseBar' \in {looseBar, looseBar \cup {p}}, UNCHANGED <<pcBar, times>>
  PROVE  FeedWalk!BrowseNext
<1>1. FeedWalk!Become(p, {c})
  BY DEF FeedWalk!Become, kindBar, pcBar, owedBar, looseBar
<1> QED BY <1>1 DEF FeedWalk!BrowseNext

LEMMA SellersBrowse ==
  ASSUME FeedInv, Register \/ \E p \in Goods, c \in Cats : Move(p, c)
  PROVE  FeedWalk!BrowseNext
<1> USE DEF FeedInv, FeedTypeOK
<1>1. UNCHANGED <<pcBar, times>>
  BY DEF Register, Move, pcBar, walkVars
<1>2. ASSUME Register PROVE FeedWalk!BrowseNext
  <2>1. PICK p \in Goods : p = made + 1
    BY <1>2, FeedAssumption DEF Register, Goods
  <2>2. made' = made + 1 /\ UNCHANGED <<cat, stayed, due, times>> /\ made \in Nat
    BY <1>2, FeedAssumption DEF Register, walkVars
  <2>3. kindBar' = [kindBar EXCEPT ![p] = {cat[p]}]
    <3>1. \A q \in Goods : q <= made' <=> q <= made \/ q = p
      BY <2>1, <2>2 DEF Goods
    <3> QED BY <2>2, <3>1 DEF kindBar
  <2>4. p \notin due
    BY <2>1, <2>2 DEF CursorsDivide
  <2>5. cat[p] \in Cats /\ owedBar' = owedBar \ {p} /\ looseBar' = looseBar
    BY <2>2, <2>4 DEF owedBar, looseBar
  <2>6. PICK c \in Cats : c = cat[p]
    BY <2>5
  <2> QED BY <1>1, <2>3, <2>5, <2>6, BecomeStep
<1>3. ASSUME NEW p \in Goods, NEW c \in Cats, Move(p, c) PROVE FeedWalk!BrowseNext
  <2>1. /\ p <= made /\ cat' = [cat EXCEPT ![p] = c] /\ due' = due \ {p}
        /\ stayed' = stayed \ {p} /\ UNCHANGED <<made, times>>
    BY <1>3 DEF Move
  <2>2. kindBar' = [kindBar EXCEPT ![p] = {c}]
    BY <2>1 DEF kindBar
  <2>3. owedBar' = owedBar \ {p} /\ looseBar' = looseBar \cup {p}
    BY <2>1 DEF owedBar, looseBar
  <2> QED BY <1>1, <2>2, <2>3, BecomeStep
<1> QED BY <1>2, <1>3

\* The first request begins the walk: what is in its categories now is owed.
LEMMA AskFirstBrowses ==
  ASSUME FeedInv, NEW n \in PageSizes, NEW o \in Orders, AskFirst(n, o)
  PROVE  FeedWalk!BrowseNext
<1> USE DEF FeedInv, FeedTypeOK
<1>1. /\ phase = "start" /\ phase' = "first" /\ due' = {p \in 1..made : cat[p] \in Range(o)}
      /\ stayed' = Goods /\ UNCHANGED <<made, cat, times>>
  BY DEF AskFirst
<1>2. \A p \in Goods : times[p] = 0
  BY <1>1 DEF CursorsDivide
<1>3. FeedWalk!Matching(Range(o)) = due'
  <2>1. 1..made \subseteq Goods /\ \A p \in Goods : p <= made <=> p \in 1..made
    BY FeedAssumption DEF Goods
  <2> QED BY <1>1, <2>1 DEF FeedWalk!Matching
<1>4. owedBar' = FeedWalk!Matching(Range(o)) \ {}
  <2>1. due' \subseteq Goods
    BY <1>3 DEF FeedWalk!Matching
  <2> QED BY <1>1, <1>2, <1>3, <2>1 DEF owedBar
<1>5. times' = [p \in Goods |-> IF p \in {} /\ times[p] < 2 THEN times[p] + 1 ELSE times[p]]
  BY <1>1
<1>6. pcBar = "idle" /\ pcBar' = "walking" /\ looseBar' = {} /\ kindBar' = kindBar
  BY <1>1 DEF pcBar, looseBar, kindBar
<1>7. FeedWalk!Begin(Range(o), {})
  BY <1>4, <1>5, <1>6
     DEF FeedWalk!Begin, FeedWalk!Show, kindBar, pcBar, owedBar, looseBar
<1> QED BY <1>7 DEF FeedWalk!BrowseNext

\* A failed first request is as if it had not been made; a later one changes nothing.
LEMMA FailureBrowses ==
  ASSUME FeedInv, Asked, RequestFails
  PROVE  [FeedWalk!BrowseNext]_browseBar
<1> USE DEF FeedInv, FeedTypeOK
<1>1. /\ phase' = IF phase = "first" THEN "start" ELSE "have"
      /\ due' = IF phase = "first" THEN {} ELSE due
      /\ UNCHANGED <<made, cat, stayed, times>>
  BY DEF RequestFails, listVars
<1>2. kindBar' = kindBar /\ looseBar' = looseBar
  BY <1>1 DEF kindBar, looseBar
<1>3. CASE phase = "first"
  <2>1. \A p \in Goods : times[p] = 0
    BY <1>3 DEF CursorsDivide
  <2>2. pcBar = "walking" /\ pcBar' = "idle" /\ owedBar' = {}
    BY <1>1, <1>3 DEF pcBar, owedBar
  <2>3. FeedWalk!Abandon
    BY <1>1, <1>2, <2>1, <2>2 DEF FeedWalk!Abandon, kindBar, pcBar, owedBar, looseBar
  <2> QED BY <2>3 DEF FeedWalk!BrowseNext
<1>4. CASE phase = "more"
  <2>1. pcBar' = pcBar /\ owedBar' = owedBar
    BY <1>1, <1>4 DEF pcBar, owedBar
  <2> QED BY <1>1, <1>2, <2>1 DEF browseBar
<1> QED BY <1>3, <1>4 DEF Asked

\* The slices of a request, shown together.
LEMMA AnswerBrowses ==
  ASSUME FeedInv, NEW o \in Orders, Answer(o)
  PROVE  FeedWalk!BrowseNext
<1> USE DEF FeedInv, FeedTypeOK
<1>0. PICK S \in SUBSET Goods : S = {p \in Goods : \E c \in Cats : p \in slice[c]}
  OBVIOUS
<1>1. /\ phase \in {"first", "more"}
      /\ phase' = IF Range(o) = {} THEN "done" ELSE "have"
      /\ times' = [p \in Goods |-> IF (\E c \in Cats : p \in slice[c]) /\ times[p] < 2
                                   THEN times[p] + 1 ELSE times[p]]
      /\ UNCHANGED <<made, cat, stayed, due>>
  BY DEF Answer, Asked, listVars
<1>2. \A p \in S : p <= made /\ (p \in stayed => times[p] = 0)
  <2>1. ASSUME NEW c \in Cats, NEW p \in slice[c]
        PROVE  p <= made /\ p < cursor[c] /\ (p \in stayed => cat[p] = c)
    BY <2>1 DEF PageSound, SlicesSound
  <2>2. ASSUME NEW p \in S, p \in stayed PROVE times[p] = 0
    BY <1>0, <2>1, <2>2 DEF CursorsDivide, Goods, Top
  <2> QED BY <1>0, <2>1, <2>2
<1>3. times' = [p \in Goods |-> IF p \in S /\ times[p] < 2 THEN times[p] + 1 ELSE times[p]]
  BY <1>0, <1>1
<1>4. \A p \in S : kindBar[p] # {} /\ (times[p] = 0 \/ p \in looseBar)
  BY <1>2 DEF kindBar, looseBar
<1>5. FeedInv'
  BY AnswerInv
<1>6. owedBar' = owedBar \ S
  BY <1>1, <1>3 DEF owedBar
<1>7. \/ pcBar' = "walking"
      \/ pcBar' = "over" /\ owedBar' = {}
  <2>1. CASE Range(o) # {}
    BY <1>1, <2>1 DEF pcBar
  <2>2. CASE Range(o) = {}
    <3>1. phase' = "done" /\ order' = <<>>
      BY <1>1, <1>5, <2>2 DEF CursorsDivide
    <3>2. \A p \in due' : times'[p] > 0
      BY <1>5, <3>1, EmptyOrder DEF CursorsDivide
    <3> QED BY <3>1, <3>2 DEF pcBar, owedBar
  <2> QED BY <2>1, <2>2
<1>8. pcBar = "walking" /\ kindBar' = kindBar /\ looseBar' = looseBar
  BY <1>1 DEF pcBar, kindBar, looseBar
<1>9. FeedWalk!Page(S)
  BY <1>3, <1>4, <1>6, <1>7, <1>8
     DEF FeedWalk!Page, FeedWalk!Show, kindBar, pcBar, owedBar, looseBar
<1> QED BY <1>9 DEF FeedWalk!BrowseNext

LEMMA FeedBrowses == FeedInv /\ [FeedNext]_feedVars => [FeedWalk!BrowseNext]_browseBar
<1> SUFFICES ASSUME FeedInv, [FeedNext]_feedVars PROVE [FeedWalk!BrowseNext]_browseBar
  OBVIOUS
<1>1. ASSUME UNCHANGED <<listVars, walkVars>>, pcBar' = pcBar PROVE UNCHANGED browseBar
  BY <1>1 DEF listVars, walkVars, browseBar, kindBar, owedBar, looseBar
<1>2. ASSUME NEW n \in PageSizes, AskMore(n) PROVE UNCHANGED browseBar
  BY <1>1, <1>2 DEF AskMore, pcBar
<1>3. ASSUME NEW S \in SUBSET Goods, NEW l \in 1..Top, ReadSlice(S, l) PROVE UNCHANGED browseBar
  BY <1>1, <1>3 DEF ReadSlice, pcBar
<1>4. CASE UNCHANGED feedVars
  BY <1>1, <1>4 DEF feedVars, pcBar
<1> QED
  BY <1>2, <1>3, <1>4, SellersBrowse, AskFirstBrowses, FailureBrowses, AnswerBrowses
     DEF FeedNext, ShareIsZero, FeedFails

\* For any categories, products and page sizes, the feed is a walk of Browse: the
\* slices of one answer are one page of it, and a request that fails none.
THEOREM FeedBrowseRefinement == FeedSpec => FeedImplementsBrowse
<1>1. FeedInv /\ [FeedNext]_feedVars => [FeedWalk!BrowseNext]_(FeedWalk!browseVars)
  BY FeedBrowses DEF FeedWalk!browseVars, browseBar, kindBar, pcBar, owedBar, looseBar
<1> QED
  BY <1>1, BrowseInitially, FeedInvariant, PTL DEF FeedSpec, FeedImplementsBrowse, FeedWalk!BrowseSpec
===============================================================================
