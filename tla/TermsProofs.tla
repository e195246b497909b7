----------------------------- MODULE TermsProofs -----------------------------
(* TermsInv is inductive, and what follows from it. *)
EXTENDS Terms, TLAPS

LEMMA FirstRow == First \in Rows
  BY DEF First, Rows, Setters

LEMMA ToIntInt == ASSUME NEW n \in Int PROVE ToInt(n) \in Int
<1>1. IntSpan \div 2 \in Int /\ IntSpan \in Nat \ {0}
  BY TermsAssumption
<1>2. (n + IntSpan \div 2) % IntSpan \in Int
  BY <1>1
<1> QED BY <1>1, <1>2 DEF ToInt

LEMMA TotalInt == ASSUME NEW h \in Int, NEW p \in Nat PROVE TotalPrice(h, p) \in Int
<1>1. HoursBilled(h) \in Int
  BY DEF HoursBilled
<1>2. HoursBilled(h) * p \in Int
  BY <1>1
<1> QED BY <1>2, ToIntInt DEF TotalPrice

\* What fits an int is left as it is.
LEMMA ToIntFits ==
  ASSUME NEW n \in Nat, n < IntSpan \div 2
  PROVE  ToInt(n) = n
<1>1. PICK k \in Nat : k = IntSpan \div 2 /\ 2 * k <= IntSpan
  BY TermsAssumption
<1>2. n + k \in 0..(IntSpan - 1) /\ IntSpan \in Nat \ {0}
  BY <1>1, TermsAssumption
<1>3. (n + k) % IntSpan = n + k
  BY <1>2
<1> QED BY <1>1, <1>3 DEF ToInt

LEMMA RowFacts ==
  ASSUME NEW r \in Rows
  PROVE  r["price"] \in Setters /\ PriceOf[r["price"]] \in Nat
<1>1. "price" \in Columns
  BY DEF Columns, ProductColumns
<1> QED BY <1>1, TermsAssumption DEF Rows

-----------------------------------------------------------------------------
(* The invariant                                                            *)

LEMMA TermsInitInv == TermsInit => TermsInv
<1> SUFFICES ASSUME TermsInit PROVE TermsInv
  OBVIOUS
<1>1. TermsTypeOK
  BY FirstRow DEF TermsInit, TermsTypeOK
<1>2. row \in offered
  BY DEF TermsInit
<1>3. UpdatesSound /\ DealsSound
  BY DEF TermsInit, UpdatesSound, DealsSound
<1> QED BY <1>1, <1>2, <1>3 DEF TermsInv

LEMMA ReadRowInv ==
  ASSUME TermsInv, NEW u \in Updates, NEW s \in SUBSET Columns, ReadRow(u, s)
  PROVE  TermsInv'
<1>1. /\ upd[u] = "new"
      /\ upd' = [upd EXCEPT ![u] = "read"]
      /\ sets' = [sets EXCEPT ![u] = s]
      /\ saw' = [saw EXCEPT ![u] = Seen(kind[u])]
      /\ UNCHANGED <<row, hasTemplate, kind, changed, deal, hours, terms, total, contract,
                     offered>>
  BY DEF ReadRow, dealVars
<1>2. Seen(kind[u]) \in Rows
  BY DEF TermsInv, TermsTypeOK, Seen, Rows, Setters
<1>3. TermsTypeOK'
  BY <1>1, <1>2 DEF TermsInv, TermsTypeOK
<1>4. UpdatesSound'
  <2> SUFFICES ASSUME NEW v \in Updates
               PROVE  /\ upd'[v] # "read" => changed'[v] = {}
                      /\ upd'[v] = "read" =>
                            \A c \in Table(kind'[v]) \ changed'[v] : saw'[v][c] = row'[c]
    BY DEF UpdatesSound
  <2>1. CASE v = u
    <3>1. saw'[u] = Seen(kind[u]) /\ upd'[u] = "read"
      BY <1>1 DEF TermsInv, TermsTypeOK
    <3>2. \A c \in Table(kind[u]) : c \in Columns
      BY DEF Table, Columns
    <3>3. \A c \in Table(kind[u]) : Seen(kind[u])[c] = row[c]
      BY <3>2 DEF Seen
    <3> QED BY <2>1, <3>1, <3>3, <1>1
  <2>2. CASE v # u
    BY <2>2, <1>1 DEF TermsInv, TermsTypeOK, UpdatesSound
  <2> QED BY <2>1, <2>2
<1>5. DealsSound' /\ row' \in offered'
  BY <1>1 DEF TermsInv, DealsSound
<1> QED BY <1>3, <1>4, <1>5 DEF TermsInv

LEMMA WrittenRow ==
  ASSUME TermsInv, NEW u \in Updates
  PROVE  Written(u) \in Rows
<1>1. saw[u] \in Rows /\ row \in Rows /\ u \in Setters
  BY DEF TermsInv, TermsTypeOK, Setters
<1> QED BY <1>1 DEF Written, Rows

LEMMA WriteRowInv ==
  ASSUME TermsInv, NEW u \in Updates, WriteRow(u)
  PROVE  TermsInv'
<1>1. /\ upd[u] = "read"
      /\ row' = Written(u)
      /\ upd' = [upd EXCEPT ![u] = IF kind[u] = "delete" THEN "written" ELSE "done"]
      /\ offered' = offered \cup {row'}
      /\ changed' = [v \in Updates |-> IF v # u /\ upd[v] = "read"
                         THEN changed[v] \cup {c \in Columns : row'[c] # row[c]} ELSE {}]
      /\ sets' = [sets EXCEPT ![u] = {}]
      /\ saw' = [saw EXCEPT ![u] = First]
      /\ UNCHANGED <<hasTemplate, kind, deal, hours, terms, total, contract>>
  BY DEF WriteRow, Changes, Forgets, dealVars
<1>2. TermsTypeOK'
  BY <1>1, WrittenRow, FirstRow DEF TermsInv, TermsTypeOK
<1>3. UpdatesSound'
  <2> SUFFICES ASSUME NEW v \in Updates
               PROVE  /\ upd'[v] # "read" => changed'[v] = {}
                      /\ upd'[v] = "read" =>
                            \A c \in Table(kind'[v]) \ changed'[v] : saw'[v][c] = row'[c]
    BY DEF UpdatesSound
  <2>1. CASE v = u
    BY <2>1, <1>1 DEF TermsInv, TermsTypeOK
  <2>2. CASE v # u
    <3>1. upd'[v] = upd[v] /\ saw'[v] = saw[v]
      BY <2>2, <1>1 DEF TermsInv, TermsTypeOK
    <3>2. CASE upd[v] # "read"
      BY <3>1, <3>2, <1>1
    <3>3. CASE upd[v] = "read"
      <4>1. changed'[v] = changed[v] \cup {c \in Columns : row'[c] # row[c]}
        BY <2>2, <3>3, <1>1
      <4>2. ASSUME NEW c \in Table(kind[v]) \ changed'[v] PROVE saw[v][c] = row'[c]
        <5>1. c \in Columns /\ c \notin changed[v] /\ row'[c] = row[c]
          BY <4>1 DEF Table, Columns
        <5> QED BY <5>1, <3>3 DEF TermsInv, UpdatesSound
      <4> QED BY <3>1, <3>3, <4>2, <1>1
    <3> QED BY <3>2, <3>3
  <2> QED BY <2>1, <2>2
<1>4. DealsSound' /\ row' \in offered'
  BY <1>1 DEF TermsInv, DealsSound
<1> QED BY <1>2, <1>3, <1>4 DEF TermsInv

LEMMA DropTemplateInv ==
  ASSUME TermsInv, NEW u \in Updates, DropTemplate(u)
  PROVE  TermsInv'
<1>1. /\ upd[u] = "written" /\ hasTemplate' = FALSE
      /\ upd' = [upd EXCEPT ![u] = "done"]
      /\ UNCHANGED <<row, kind, sets, saw, changed, deal, hours, terms, total, contract,
                     offered>>
  BY DEF DropTemplate, dealVars
<1>2. TermsTypeOK' /\ row' \in offered'
  BY <1>1 DEF TermsInv, TermsTypeOK
<1>3. UpdatesSound'
  BY <1>1 DEF TermsInv, TermsTypeOK, UpdatesSound
<1>4. DealsSound'
  BY <1>1 DEF TermsInv, DealsSound
<1> QED BY <1>2, <1>3, <1>4 DEF TermsInv

LEMMA UpdateFailsInv ==
  ASSUME TermsInv, NEW u \in Updates, UpdateFails(u)
  PROVE  TermsInv'
<1>1. /\ upd' = [upd EXCEPT ![u] = "done"]
      /\ changed' = [changed EXCEPT ![u] = {}]
      /\ sets' = [sets EXCEPT ![u] = {}]
      /\ saw' = [saw EXCEPT ![u] = First]
      /\ UNCHANGED <<row, hasTemplate, kind, deal, hours, terms, total, contract, offered>>
  BY DEF UpdateFails, Forgets, dealVars
<1>2. TermsTypeOK' /\ row' \in offered'
  BY <1>1, FirstRow DEF TermsInv, TermsTypeOK
<1>3. UpdatesSound'
  BY <1>1 DEF TermsInv, TermsTypeOK, UpdatesSound
<1>4. DealsSound'
  BY <1>1 DEF TermsInv, DealsSound
<1> QED BY <1>2, <1>3, <1>4 DEF TermsInv

\* The steps of a deal leave the rows and the updates alone.
LEMMA UpdatesUntouched ==
  ASSUME TermsInv, UNCHANGED <<row, hasTemplate, updateVars, changed, offered>>
  PROVE  UpdatesSound' /\ row' \in offered'
  BY DEF TermsInv, UpdatesSound, updateVars

LEMMA ReadTermsInv ==
  ASSUME TermsInv, NEW d \in Deals, NEW h \in Hours, ReadTerms(d, h)
  PROVE  TermsInv'
<1>1. /\ deal' = [deal EXCEPT ![d] = "read"]
      /\ hours' = [hours EXCEPT ![d] = h]
      /\ terms' = [terms EXCEPT ![d] = row]
      /\ UNCHANGED <<row, hasTemplate, updateVars, changed, total, contract, offered>>
  BY DEF ReadTerms
<1>2. TermsTypeOK'
  BY <1>1, TermsAssumption DEF TermsInv, TermsTypeOK, updateVars
<1>3. UpdatesSound' /\ row' \in offered'
  BY <1>1, UpdatesUntouched
<1>4. DealsSound'
  BY <1>1 DEF TermsInv, TermsTypeOK, DealsSound
<1> QED BY <1>2, <1>3, <1>4 DEF TermsInv

LEMMA SaveTotalInv ==
  ASSUME TermsInv, NEW d \in Deals, SaveTotal(d)
  PROVE  TermsInv'
<1> DEFINE t == TotalPrice(hours[d], PriceOf[terms[d]["price"]])
<1>1. /\ deal[d] = "read"
      /\ total' = [total EXCEPT ![d] = t]
      /\ deal' = [deal EXCEPT ![d] = "saved"]
      /\ UNCHANGED <<row, hasTemplate, updateVars, changed, hours, terms, contract, offered>>
  BY DEF SaveTotal
<1>2. t \in Int
  <2>1. terms[d] \in Rows /\ hours[d] \in Int
    BY DEF TermsInv, TermsTypeOK
  <2> QED BY <2>1, RowFacts, TotalInt
<1>3. TermsTypeOK'
  <2> HIDE DEF t
  <2> QED BY <1>1, <1>2 DEF TermsInv, TermsTypeOK, updateVars
<1>4. UpdatesSound' /\ row' \in offered'
  BY <1>1, UpdatesUntouched
<1>5. DealsSound'
  <2> SUFFICES ASSUME NEW e \in Deals
               PROVE  /\ deal'[e] \in {"read", "saved", "drafted"} => terms'[e] \in offered'
                      /\ deal'[e] \in {"saved", "drafted"} =>
                            total'[e] = TotalPrice(hours'[e], PriceOf[terms'[e]["price"]])
                      /\ deal'[e] = "drafted" => contract'[e] = terms'[e]
    BY DEF DealsSound
  <2>1. CASE e = d
    <3>1. deal'[d] = "saved" /\ total'[d] = t /\ terms[d] \in offered
      BY <1>1 DEF TermsInv, TermsTypeOK, DealsSound
    <3> QED BY <2>1, <3>1, <1>1
  <2>2. CASE e # d
    <3>1. deal'[e] = deal[e] /\ total'[e] = total[e]
      BY <2>2, <1>1 DEF TermsInv, TermsTypeOK
    <3> QED BY <3>1, <1>1 DEF TermsInv, DealsSound
  <2> QED BY <2>1, <2>2
<1> QED BY <1>3, <1>4, <1>5 DEF TermsInv

LEMMA DraftContractInv ==
  ASSUME TermsInv, NEW d \in Deals, DraftContract(d)
  PROVE  TermsInv'
<1>1. /\ deal[d] = "saved"
      /\ contract' = [contract EXCEPT ![d] = terms[d]]
      /\ deal' = [deal EXCEPT ![d] = "drafted"]
      /\ UNCHANGED <<row, hasTemplate, updateVars, changed, hours, terms, total, offered>>
  BY DEF DraftContract, TermsRead
<1>2. TermsTypeOK'
  BY <1>1 DEF TermsInv, TermsTypeOK, updateVars
<1>3. UpdatesSound' /\ row' \in offered'
  BY <1>1, UpdatesUntouched
<1>4. DealsSound'
  BY <1>1 DEF TermsInv, TermsTypeOK, DealsSound
<1> QED BY <1>2, <1>3, <1>4 DEF TermsInv

LEMMA DealFailsInv ==
  ASSUME TermsInv, NEW d \in Deals, DealFails(d)
  PROVE  TermsInv'
<1>1. /\ deal' = [deal EXCEPT ![d] = "done"]
      /\ UNCHANGED <<row, hasTemplate, updateVars, changed, hours, terms, total, contract,
                     offered>>
  BY DEF DealFails
<1>2. TermsTypeOK'
  BY <1>1 DEF TermsInv, TermsTypeOK, updateVars
<1>3. UpdatesSound' /\ row' \in offered'
  BY <1>1, UpdatesUntouched
<1>4. DealsSound'
  BY <1>1 DEF TermsInv, TermsTypeOK, DealsSound
<1> QED BY <1>2, <1>3, <1>4 DEF TermsInv

LEMMA TermsStutter == TermsInv /\ UNCHANGED termsVars => TermsInv'
<1> SUFFICES ASSUME TermsInv, UNCHANGED termsVars PROVE TermsInv'
  OBVIOUS
<1>1. TermsTypeOK' /\ row' \in offered'
  BY DEF TermsInv, TermsTypeOK, termsVars, updateVars, dealVars
<1>2. UpdatesSound' /\ DealsSound'
  BY DEF TermsInv, UpdatesSound, DealsSound, termsVars, updateVars, dealVars
<1> QED BY <1>1, <1>2 DEF TermsInv

LEMMA TermsStepInv == TermsInv /\ [TermsNext]_termsVars => TermsInv'
<1> SUFFICES ASSUME TermsInv, [TermsNext]_termsVars PROVE TermsInv'
  OBVIOUS
<1>1. ASSUME NEW u \in Updates, NEW s \in SUBSET Columns, ReadRow(u, s) PROVE TermsInv'
  BY <1>1, ReadRowInv
<1>2. ASSUME NEW u \in Updates, WriteRow(u) PROVE TermsInv'
  BY <1>2, WriteRowInv
<1>3. ASSUME NEW u \in Updates, DropTemplate(u) PROVE TermsInv'
  BY <1>3, DropTemplateInv
<1>4. ASSUME NEW u \in Updates, UpdateFails(u) PROVE TermsInv'
  BY <1>4, UpdateFailsInv
<1>5. ASSUME NEW d \in Deals, NEW h \in Hours, ReadTerms(d, h) PROVE TermsInv'
  BY <1>5, ReadTermsInv
<1>6. ASSUME NEW d \in Deals, SaveTotal(d) PROVE TermsInv'
  BY <1>6, SaveTotalInv
<1>7. ASSUME NEW d \in Deals, DraftContract(d) PROVE TermsInv'
  BY <1>7, DraftContractInv
<1>8. ASSUME NEW d \in Deals, DealFails(d) PROVE TermsInv'
  BY <1>8, DealFailsInv
<1>9. CASE UNCHANGED termsVars
  BY <1>9, TermsStutter
<1> QED BY <1>1, <1>2, <1>3, <1>4, <1>5, <1>6, <1>7, <1>8, <1>9 DEF TermsNext

-----------------------------------------------------------------------------
(* What follows                                                             *)

\* In every state an update under way knows the columns nobody has changed since, and
\* a deal was priced and drafted from one state of the two rows.
THEOREM TermsInvariant == TermsSpec => []TermsInv
<1>1. TermsInit => TermsInv
  BY TermsInitInv
<1>2. TermsInv /\ [TermsNext]_termsVars => TermsInv'
  BY TermsStepInv
<1> QED BY <1>1, <1>2, PTL DEF TermsSpec

\* No contract mixes two states of the lender's offer.
THEOREM ContractsWereOffered == TermsSpec => []TermsWereOffered
<1>1. TermsInv => TermsWereOffered
  BY DEF TermsInv, DealsSound, TermsWereOffered, Drafted
<1> QED BY <1>1, TermsInvariant, PTL

\* The price of an application is that of its contract, for the hours billed.
THEOREM TotalsMatchFees == TermsSpec => []TotalMatchesFee
<1>1. TermsInv => TotalMatchesFee
  <2> SUFFICES ASSUME TermsInv, NEW d \in Deals, deal[d] = "drafted"
               PROVE  LET fee == PriceOf[contract[d]["price"]]
                          sum == IF hours[d] < 1 THEN fee ELSE hours[d] * fee
                      IN sum < IntSpan \div 2 => total[d] = sum
    BY DEF TotalMatchesFee, Drafted
  <2> DEFINE fee == PriceOf[contract[d]["price"]]
             sum == IF hours[d] < 1 THEN fee ELSE hours[d] * fee
  <2>1. fee \in Nat /\ hours[d] \in Int
    <3>1. contract[d] \in Rows /\ hours[d] \in Int
      BY DEF TermsInv, TermsTypeOK
    <3> QED BY <3>1, RowFacts
  <2>2. total[d] = TotalPrice(hours[d], fee)
    BY DEF TermsInv, DealsSound
  <2> HIDE DEF fee
  <2>3. HoursBilled(hours[d]) * fee = sum /\ sum \in Nat
    <3>1. CASE hours[d] < 1
      BY <3>1, <2>1 DEF HoursBilled
    <3>2. CASE ~(hours[d] < 1)
      <4>1. hours[d] \in Nat /\ hours[d] > 0
        BY <3>2, <2>1
      <4> QED BY <4>1, <2>1 DEF HoursBilled
    <3> QED BY <3>1, <3>2
  <2>4. ASSUME sum < IntSpan \div 2 PROVE total[d] = sum
    <3> HIDE DEF sum
    <3> QED BY <2>2, <2>3, <2>4, ToIntFits DEF TotalPrice
  <2> QED BY <2>4 DEF fee
<1> QED BY <1>1, TermsInvariant, PTL

\* Only an overlap of updates loses what one of them wrote.
THEOREM UpdatesLostByOverlap == TermsSpec => LostOnlyByOverlap
<1> DEFINE Step == \A c \in Columns : row'[c] # row[c] =>
          \E u \in Updates : upd[u] = "read" /\ row'[c] = (IF c \in sets[u] THEN u ELSE saw[u][c])
                             /\ (c \in sets[u] \/ c \in changed[u])
<1>1. TermsInv /\ [TermsNext]_termsVars => [Step]_termsVars
  <2> SUFFICES ASSUME TermsInv, TermsNext PROVE Step
    OBVIOUS
  <2>1. ASSUME NEW u \in Updates, WriteRow(u) PROVE Step
    <3> SUFFICES ASSUME NEW c \in Columns, row'[c] # row[c]
                 PROVE  /\ upd[u] = "read"
                        /\ row'[c] = (IF c \in sets[u] THEN u ELSE saw[u][c])
                        /\ (c \in sets[u] \/ c \in changed[u])
      OBVIOUS
    <3>1. upd[u] = "read" /\ row' = Written(u)
      BY <2>1 DEF WriteRow
    <3>2. CASE c \in sets[u]
      BY <3>1, <3>2 DEF Written
    <3>3. CASE c \notin sets[u]
      <4>1. c \in Table(kind[u]) /\ row'[c] = saw[u][c]
        BY <3>1, <3>3 DEF Written
      <4>2. c \in changed[u]
        BY <4>1, <3>1 DEF TermsInv, UpdatesSound
      <4> QED BY <3>1, <3>3, <4>1, <4>2
    <3> QED BY <3>2, <3>3
  <2>2. CASE \E u \in Updates : ~WriteRow(u) /\ (\/ \E s \in SUBSET Columns : ReadRow(u, s)
                                                 \/ DropTemplate(u) \/ UpdateFails(u))
    <3>1. row' = row
      BY <2>2 DEF ReadRow, DropTemplate, UpdateFails
    <3> QED BY <3>1
  <2>3. CASE \E d \in Deals : \/ \E h \in Hours : ReadTerms(d, h)
                              \/ SaveTotal(d) \/ DraftContract(d) \/ DealFails(d)
    <3>1. row' = row
      BY <2>3 DEF ReadTerms, SaveTotal, DraftContract, DealFails
    <3> QED BY <3>1
  <2> QED BY <2>1, <2>2, <2>3 DEF TermsNext
<1> QED BY <1>1, TermsInvariant, PTL DEF TermsSpec, LostOnlyByOverlap

\* A removed template stays removed.
THEOREM TemplatesStayGone == TermsSpec => TemplateStaysGone
<1>1. [TermsNext]_termsVars => [~hasTemplate => ~hasTemplate']_termsVars
  BY DEF TermsNext, ReadRow, WriteRow, DropTemplate, UpdateFails, ReadTerms, SaveTotal,
         DraftContract, DealFails
<1> QED BY <1>1, PTL DEF TermsSpec, TemplateStaysGone
===============================================================================
