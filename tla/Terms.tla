-------------------------------- MODULE Terms --------------------------------
(***************************************************************************)
(* What a contract says: the lender's texts (the contract template), the   *)
(* product's name and price, the requests that change or delete them, and  *)
(* the bookings that copy them into an application's price and a contract. *)
(*                                                                         *)
(* One product; another shares nothing with it.  A column holds the name   *)
(* of the request whose value it has.  A request keeps the entity it read  *)
(* (one session serves a whole request), changes some columns and writes   *)
(* all of them: there is no version column and no dynamic update.  A crash *)
(* is the failure of every request under way.                              *)
(***************************************************************************)
EXTENDS Integers

CONSTANTS
    Updates,          \* requests that change the template or the product, or delete it
    Deals,            \* createApplication requests
    TemplateColumns,  \* columns of contract_templates
    Registered,       \* the registration, which set every column first
    PriceOf,          \* the price each of them gives
    Hours,            \* whole hours from a period's start to its end
    IntSpan,          \* how many values an int has, 2^32 in the code
    FeeLimit          \* first amount Contract.rental_fee cannot hold, 10^8 in the code

ProductColumns == {"name", "price", "deletedAt"}
Columns == TemplateColumns \cup ProductColumns
Setters == Updates \cup {Registered}

ASSUME TermsAssumption ==
    /\ Registered \notin Updates
    /\ TemplateColumns \cap ProductColumns = {}
    /\ PriceOf \in [Setters -> Nat]
    /\ Hours \subseteq Int
    /\ IntSpan \in Nat \ {0} /\ FeeLimit \in Nat

VARIABLES
    row,          \* the columns of the product and of its template, as committed
    hasTemplate,  \* whether the template's row is there
    upd,          \* where each update is
    kind,         \* what it updates
    sets,         \* the columns it was asked to change
    saw,          \* the entity it read
    changed,      \* columns others have changed since it read
    deal,         \* where each createApplication request is
    hours,        \* hours it asks for
    terms,        \* the template and the product it read
    total,        \* Application.totalPrice
    contract,     \* what the contract says
    offered       \* every state the two rows have had together

updateVars == <<upd, kind, sets, saw>>
dealVars == <<deal, hours, terms, total, contract>>
termsVars == <<row, hasTemplate, updateVars, changed, dealVars, offered>>

First == [c \in Columns |-> Registered]
Rows == [Columns -> Setters]

-----------------------------------------------------------------------------
(* Application's price                                                      *)

\* The cast to int.
ToInt(n) == ((n + IntSpan \div 2) % IntSpan) - IntSpan \div 2

\* Mutant: an hour is the least only for a period that ends before it starts.
HoursOrNone(h) == IF h >= 0 THEN h ELSE 1

\* calculateTotalDays.
HoursBilled(h) == IF h > 0 THEN h ELSE 1

TotalPrice(h, price) == ToInt(HoursBilled(h) * price)

-----------------------------------------------------------------------------

TermsTypeOK ==
    /\ row \in Rows
    /\ hasTemplate \in BOOLEAN
    /\ upd \in [Updates -> {"new", "read", "written", "done"}]
    /\ kind \in [Updates -> {"template", "product", "delete"}]
    /\ sets \in [Updates -> SUBSET Columns]
    /\ saw \in [Updates -> Rows]
    /\ changed \in [Updates -> SUBSET Columns]
    /\ deal \in [Deals -> {"new", "read", "saved", "drafted", "done"}]
    /\ hours \in [Deals -> Int]
    /\ terms \in [Deals -> Rows]
    /\ total \in [Deals -> Int]
    /\ contract \in [Deals -> Rows]
    /\ offered \subseteq Rows

TermsInit ==
    /\ row = First
    /\ hasTemplate = TRUE
    /\ upd = [u \in Updates |-> "new"]
    /\ kind \in [Updates -> {"template", "product", "delete"}]
    /\ sets = [u \in Updates |-> {}]
    /\ saw = [u \in Updates |-> First]
    /\ changed = [u \in Updates |-> {}]
    /\ deal = [d \in Deals |-> "new"]
    /\ hours = [d \in Deals |-> 0]
    /\ terms = [d \in Deals |-> First]
    /\ total = [d \in Deals |-> 0]
    /\ contract = [d \in Deals |-> First]
    /\ offered = {First}

-----------------------------------------------------------------------------
(* Updates                                                                  *)

\* The columns of the table an update writes.
Table(k) == IF k = "template" THEN TemplateColumns ELSE ProductColumns

\* What a request of each kind may ask for: what it leaves null keeps its value.
Askable(k) ==
    CASE k = "template" -> SUBSET TemplateColumns \ {{}}
      [] k = "product" -> SUBSET {"name", "price"} \ {{}}
      [] k = "delete" -> {{"deletedAt"}}

\* Mutant: a cache keeps the rows as they were first.
SeenCached(k) == First

\* The entity as the database has it.
Seen(k) == [c \in Columns |-> IF c \in Table(k) THEN row[c] ELSE Registered]

\* findById finds a template that is there, and a product that is not deleted.
ReadRow(u, s) ==
    /\ upd[u] = "new"
    /\ s \in Askable(kind[u])
    /\ IF kind[u] = "template" THEN hasTemplate ELSE row["deletedAt"] = Registered
    /\ upd' = [upd EXCEPT ![u] = "read"]
    /\ sets' = [sets EXCEPT ![u] = s]
    /\ saw' = [saw EXCEPT ![u] = Seen(kind[u])]
    /\ UNCHANGED <<row, hasTemplate, kind, changed, dealVars, offered>>

\* Every column of the table, the changed ones and the others as they were read.
Written(u) ==
    [c \in Columns |-> IF c \in sets[u] THEN u
                       ELSE IF c \in Table(kind[u]) THEN saw[u][c] ELSE row[c]]

\* The session ends with the entity it held.
Forgets(u) ==
    /\ sets' = [sets EXCEPT ![u] = {}]
    /\ saw' = [saw EXCEPT ![u] = First]

\* What the others under way have missed.
Changes(u) ==
    changed' = [v \in Updates |-> IF v # u /\ upd[v] = "read"
                                 THEN changed[v] \cup {c \in Columns : row'[c] # row[c]}
                                 ELSE {}]

\* Mutant: save merges, and inserts a template that is not there.
WriteOrInsert(u) ==
    /\ upd[u] = "read"
    /\ row' = Written(u)
    /\ hasTemplate' = (hasTemplate \/ kind[u] = "template")
    /\ upd' = [upd EXCEPT ![u] = IF kind[u] = "delete" THEN "written" ELSE "done"]
    /\ offered' = offered \cup {row'}
    /\ Changes(u) /\ Forgets(u)
    /\ UNCHANGED <<kind, dealVars>>

\* The entity is managed, so a template that is gone is an UPDATE of no row and an exception.
WriteRow(u) ==
    /\ upd[u] = "read"
    /\ kind[u] = "template" => hasTemplate
    /\ row' = Written(u)
    /\ upd' = [upd EXCEPT ![u] = IF kind[u] = "delete" THEN "written" ELSE "done"]
    /\ offered' = offered \cup {row'}
    /\ Changes(u) /\ Forgets(u)
    /\ UNCHANGED <<hasTemplate, kind, dealVars>>

\* deleteAllByProduct, a transaction after the one that wrote deletedAt.
DropTemplate(u) ==
    /\ upd[u] = "written"
    /\ hasTemplate' = FALSE
    /\ upd' = [upd EXCEPT ![u] = "done"]
    /\ UNCHANGED <<row, kind, sets, saw, changed, dealVars, offered>>

UpdateFails(u) ==
    /\ upd[u] \in {"read", "written"}
    /\ upd' = [upd EXCEPT ![u] = "done"]
    /\ changed' = [changed EXCEPT ![u] = {}]
    /\ Forgets(u)
    /\ UNCHANGED <<row, hasTemplate, kind, dealVars, offered>>

-----------------------------------------------------------------------------
(* createApplication                                                        *)

\* One query joins the template and the product; deletedAt is not asked.
ReadTerms(d, h) ==
    /\ deal[d] = "new"
    /\ hasTemplate
    /\ deal' = [deal EXCEPT ![d] = "read"]
    /\ hours' = [hours EXCEPT ![d] = h]
    /\ terms' = [terms EXCEPT ![d] = row]
    /\ UNCHANGED <<row, hasTemplate, updateVars, changed, total, contract, offered>>

\* First transaction; a period that is not in whole hours is an exception (DealFails).
SaveTotal(d) ==
    /\ deal[d] = "read"
    /\ total' = [total EXCEPT ![d] = TotalPrice(hours[d], PriceOf[terms[d]["price"]])]
    /\ deal' = [deal EXCEPT ![d] = "saved"]
    /\ UNCHANGED <<row, hasTemplate, updateVars, changed, hours, terms, contract, offered>>

\* Mutant: the contract's product is read again.
TermsReread(d) == [terms[d] EXCEPT !["name"] = row["name"], !["price"] = row["price"]]

\* createContract: the entities of the same session.
TermsRead(d) == terms[d]

\* Second transaction.
DraftContract(d) ==
    /\ deal[d] = "saved"
    /\ PriceOf[TermsRead(d)["price"]] < FeeLimit
    /\ contract' = [contract EXCEPT ![d] = TermsRead(d)]
    /\ deal' = [deal EXCEPT ![d] = "drafted"]
    /\ UNCHANGED <<row, hasTemplate, updateVars, changed, hours, terms, total, offered>>

DealFails(d) ==
    /\ deal[d] \in {"read", "saved"}
    /\ deal' = [deal EXCEPT ![d] = "done"]
    /\ UNCHANGED <<row, hasTemplate, updateVars, changed, hours, terms, total, contract,
                   offered>>

TermsNext ==
    \/ \E u \in Updates :
        \/ \E s \in SUBSET Columns : ReadRow(u, s)
        \/ WriteRow(u)
        \/ DropTemplate(u)
        \/ UpdateFails(u)
    \/ \E d \in Deals :
        \/ \E h \in Hours : ReadTerms(d, h)
        \/ SaveTotal(d)
        \/ DraftContract(d)
        \/ DealFails(d)

TermsSpec == TermsInit /\ [][TermsNext]_termsVars

-----------------------------------------------------------------------------
(* Properties                                                               *)

Drafted == {d \in Deals : deal[d] = "drafted"}

\* A contract's texts, name and price are what the lender offered at one moment, never a
\* mixture of two, whatever is updated meanwhile (ApplicationService 44-52, ContractFactory 11-33).
TermsWereOffered == \A d \in Drafted : contract[d] \in offered

\* Where the amount fits an int, the application's price is the contract's fee for every
\* whole hour and for one at least (Application 64-80, ContractFactory 26).
TotalMatchesFee ==
    \A d \in Drafted :
        LET fee == PriceOf[contract[d]["price"]]
            sum == IF hours[d] < 1 THEN fee ELSE hours[d] * fee
        IN sum < IntSpan \div 2 => total[d] = sum

\* A request changes a column it was not asked to change only if another changed that
\* column while it was under way: updates one after the other lose nothing
\* (ContractTemplateService 21-27, ProductTextInfoUpdateStrategy 29-40).
LostOnlyByOverlap ==
    [][\A c \in Columns : row'[c] # row[c] =>
          \E u \in Updates : upd[u] = "read" /\ row'[c] = (IF c \in sets[u] THEN u ELSE saw[u][c])
                             /\ (c \in sets[u] \/ c \in changed[u])]_termsVars

\* A template that was removed never comes back, though updates that read it are still
\* to be saved (ProductDeleteServiceImpl 34, ContractTemplateService 24-26).
TemplateStaysGone == [][~hasTemplate => ~hasTemplate']_termsVars

\* An update knows the columns nobody has changed since, and a contract is drafted of what
\* its application was priced by.
UpdatesSound ==
    \A u \in Updates :
        /\ upd[u] # "read" => changed[u] = {}
        /\ upd[u] = "read" => \A c \in Table(kind[u]) \ changed[u] : saw[u][c] = row[c]

DealsSound ==
    \A d \in Deals :
        /\ deal[d] \in {"read", "saved", "drafted"} => terms[d] \in offered
        /\ deal[d] \in {"saved", "drafted"} =>
              total[d] = TotalPrice(hours[d], PriceOf[terms[d]["price"]])
        /\ deal[d] = "drafted" => contract[d] = terms[d]

TermsInv ==
    /\ TermsTypeOK
    /\ row \in offered
    /\ UpdatesSound
    /\ DealsSound
=============================================================================
