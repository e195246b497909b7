------------------------------ MODULE Registry ------------------------------
(***************************************************************************)
(* What the accounts promise, one step at a time.  A member joins with an  *)
(* e-mail, a nickname and a phone number nobody has, may change the number *)
(* to one nobody has, and signs only with a file that is stored.  A client *)
(* acts for a member who has joined, and a renewal acts for the same one.  *)
(* Accounts implements it with transactions and signed tokens.             *)
(***************************************************************************)
CONSTANTS Members, Clients, Cards, Phones, Files, NoFile

VARIABLES
    card,       \* the e-mail, nickname and number of each member: a set, empty before
    signature,  \* the file of each member's signature
    stored,     \* the files there are
    acts,       \* whom each client acts for, as a set
    renews      \* whom it may renew that for

registryVars == <<card, signature, stored, acts, renews>>

RegistryInit ==
    /\ card = [m \in Members |-> {}]
    /\ signature = [m \in Members |-> NoFile]
    /\ stored = {}
    /\ acts = [k \in Clients |-> {}]
    /\ renews = [k \in Clients |-> {}]

Share(c, d) == c.email = d.email \/ c.nickname = d.nickname \/ c.phone = d.phone

Store ==
    /\ UNCHANGED <<card, signature, acts, renews>>
    /\ \E f \in Files : stored' = stored \cup {f}

Signs(m) == \E f \in stored \cup {NoFile} : signature' = [signature EXCEPT ![m] = f]

Join(m, c) ==
    /\ \A n \in Members : \A d \in card[n] : ~Share(c, d)
    /\ card' = [card EXCEPT ![m] = {c}]

SignUp(m) ==
    /\ card[m] = {}
    /\ UNCHANGED <<stored, acts, renews>>
    /\ \E c \in Cards : Join(m, c)
    /\ Signs(m)

Renumber(m, p) ==
    /\ \A n \in Members \ {m} : \A d \in card[n] : d.phone # p
    /\ card' = [card EXCEPT ![m] = {[c EXCEPT !.phone = p] : c \in card[m]}]

Update(m) ==
    /\ card[m] # {}
    /\ UNCHANGED <<stored, acts, renews>>
    /\ \E p \in Phones : Renumber(m, p)
    /\ Signs(m)

LogIn(k, m) ==
    /\ card[m] # {}
    /\ UNCHANGED <<card, signature, stored>>
    /\ acts' = [acts EXCEPT ![k] = {m}]
    /\ renews' = [renews EXCEPT ![k] = {m}]

Renew(k) ==
    /\ renews[k] # {}
    /\ UNCHANGED <<card, signature, stored, renews>>
    /\ acts' = [acts EXCEPT ![k] = renews[k]]

Expire(k) ==
    /\ UNCHANGED <<card, signature, stored>>
    /\ \/ acts' = [acts EXCEPT ![k] = {}] /\ UNCHANGED renews
       \/ renews' = [renews EXCEPT ![k] = {}] /\ UNCHANGED acts

RegistryNext ==
    \/ Store
    \/ \E m \in Members : SignUp(m) \/ Update(m)
    \/ \E k \in Clients :
        \/ \E m \in Members : LogIn(k, m)
        \/ Renew(k)
        \/ Expire(k)

RegistrySpec == RegistryInit /\ [][RegistryNext]_registryVars
=============================================================================
