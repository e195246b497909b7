---------------------------- MODULE AccountsProofs ----------------------------
(* AccountsInv is inductive, and what follows from it. *)
EXTENDS Accounts, TLAPS

LEMMA FormFacts ==
  ASSUME NEW f \in Forms
  PROVE  f.email \in Emails /\ f.phone \in Phones
  BY AccountsAssumption

\* A member's token is a token and none is another's.
LEMMA TokenFacts ==
  ASSUME AccountsInv, NEW m \in Members
  PROVE  /\ Token(m) \in Tokens /\ Token(m) # NoToken
         /\ Token(m).email = form[m].email /\ Token(m).member = m
<1>1. form[m] \in Forms
  BY DEF AccountsInv, AccountsTypeOK
<1>2. form[m].email \in Emails
  BY <1>1, FormFacts
<1>3. Token(m) \in Tokens
  BY <1>2 DEF Token, Tokens
<1>4. NoToken \notin Tokens
  BY AccountsAssumption DEF Tokens
<1> QED BY <1>3, <1>4 DEF Token

\* The e-mail of a member is no other's.
LEMMA OneUser ==
  ASSUME AccountsInv, NEW m \in Members, IsMember(m)
  PROVE  UsersOf(form[m].email) = {m}
  BY DEF AccountsInv, KeysUnique, UsersOf, IsMember

-----------------------------------------------------------------------------
(* The invariant                                                            *)

LEMMA AccountsInitInv == AccountsInit => AccountsInv
<1> SUFFICES ASSUME AccountsInit PROVE AccountsInv
  OBVIOUS
<1>1. \A m \in Members : form[m] \in Forms /\ form[m].phone \in Phones
  BY FormFacts DEF AccountsInit
<1>2. AccountsTypeOK
  <2>1. phone \in [Members -> Phones] /\ sawPhone \in [Edits -> Phones]
    BY <1>1 DEF AccountsInit
  <2> QED BY <2>1 DEF AccountsInit, AccountsTypeOK
<1>3. KeysUnique /\ TokensNameOneUser
  BY DEF AccountsInit, KeysUnique, TokensNameOneUser
<1>4. SignaturesStored /\ EditsSound
  BY DEF AccountsInit, SignaturesStored, EditsSound
<1> QED BY <1>2, <1>3, <1>4 DEF AccountsInv

\* A token stays good while nobody becomes or ceases to be a member.
LEMMA TokensKept ==
  ASSUME AccountsInv, UNCHANGED <<form, access, refresh>>,
         \A m \in Members : IsMember(m)' <=> IsMember(m)
  PROVE  TokensNameOneUser'
<1>1. \A email : UsersOf(email)' = UsersOf(email)
  BY DEF UsersOf
<1> QED BY <1>1 DEF AccountsInv, TokensNameOneUser

\* The steps of a sign-up but its commit and the signature's.
LEMMA SignUpStepInv ==
  ASSUME AccountsInv, NEW m \in Members,
         NEW s \in {"checked", "inserted", "refused"},
         signup[m] \in {"new", "checked", "inserted"},
         signup' = [signup EXCEPT ![m] = s],
         s = "inserted" => \A n \in Members \ {m} :
                              signup[n] \in {"inserted", "member"} => ~SameKey(m, n),
         UNCHANGED <<form, rowVars, bucket, editVars, missed, tokenVars>>
  PROVE  AccountsInv'
<1>1. UNCHANGED <<form, phone, file, bucket, edit, who, wants, sawPhone, sawFile, missed,
                  access, refresh>>
  BY DEF rowVars, editVars, tokenVars
<1>2. /\ signup'[m] = s
      /\ \A n \in Members \ {m} : signup'[n] = signup[n]
  BY DEF AccountsInv, AccountsTypeOK
<1>3. AccountsTypeOK'
  BY <1>1 DEF AccountsInv, AccountsTypeOK
<1>4. \A n \in Members : IsMember(n)' <=> IsMember(n)
  BY <1>2 DEF IsMember
<1>5. KeysUnique'
  <2>1. phone[m] = form[m].phone
    BY DEF AccountsInv, EditsSound
  <2> QED BY <2>1, <1>1, <1>2 DEF AccountsInv, KeysUnique, SameKey
<1>6. SignaturesStored'
  BY <1>1 DEF AccountsInv, SignaturesStored
<1>7. EditsSound'
  <2>1. ASSUME NEW n \in Members, signup'[n] # "member" PROVE phone'[n] = form'[n].phone
    BY <2>1, <1>1, <1>2 DEF AccountsInv, EditsSound
  <2> QED BY <2>1, <1>1, <1>4 DEF AccountsInv, AccountsTypeOK, EditsSound
<1>8. TokensNameOneUser'
  BY <1>1, <1>4, TokensKept
<1> QED BY <1>3, <1>5, <1>6, <1>7, <1>8 DEF AccountsInv

LEMMA CheckKeysInv == ASSUME AccountsInv, NEW m \in Members, CheckKeys(m) PROVE AccountsInv'
<1>1. PICK s \in {"checked", "refused"} : signup' = [signup EXCEPT ![m] = s]
  BY DEF CheckKeys
<1>2. signup[m] = "new" /\ UNCHANGED <<form, rowVars, bucket, editVars, missed, tokenVars>>
  BY DEF CheckKeys
<1> QED BY <1>1, <1>2, SignUpStepInv

LEMMA InsertUserInv == ASSUME AccountsInv, NEW m \in Members, InsertUser(m) PROVE AccountsInv'
<1>1. /\ signup[m] = "checked"
      /\ \A n \in Members : ~(signup[n] = "inserted" /\ SameKey(m, n))
      /\ UNCHANGED <<form, rowVars, bucket, editVars, missed, tokenVars>>
  BY DEF InsertUser
<1>2. CASE \E n \in Members : IsMember(n) /\ SameKey(m, n)
  <2>1. signup' = [signup EXCEPT ![m] = "refused"]
    BY <1>2 DEF InsertUser
  <2> QED BY <2>1, <1>1, SignUpStepInv
<1>3. CASE ~\E n \in Members : IsMember(n) /\ SameKey(m, n)
  <2>1. signup' = [signup EXCEPT ![m] = "inserted"]
    BY <1>3 DEF InsertUser
  <2>2. \A n \in Members : signup[n] \in {"inserted", "member"} => ~SameKey(m, n)
    BY <1>1, <1>3 DEF IsMember
  <2> QED BY <2>1, <2>2, <1>1, SignUpStepInv
<1> QED BY <1>2, <1>3

LEMMA SignUpFailsInv == ASSUME AccountsInv, NEW m \in Members, SignUpFails(m) PROVE AccountsInv'
<1>1. /\ signup[m] \in {"checked", "inserted"}
      /\ signup' = [signup EXCEPT ![m] = "refused"]
      /\ UNCHANGED <<form, rowVars, bucket, editVars, missed, tokenVars>>
  BY DEF SignUpFails
<1> QED BY <1>1, SignUpStepInv

LEMMA CommitUserInv == ASSUME AccountsInv, NEW m \in Members, CommitUser(m) PROVE AccountsInv'
<1>1. /\ signup[m] = "inserted" /\ signup' = [signup EXCEPT ![m] = "member"]
      /\ UNCHANGED <<form, phone, file, bucket, edit, who, wants, sawPhone, sawFile, missed,
                     access, refresh>>
  BY DEF CommitUser, rowVars, editVars, tokenVars
<1>2. /\ signup'[m] = "member"
      /\ \A n \in Members \ {m} : signup'[n] = signup[n]
  BY <1>1 DEF AccountsInv, AccountsTypeOK
<1>3. AccountsTypeOK'
  BY <1>1 DEF AccountsInv, AccountsTypeOK
<1>4. KeysUnique'
  BY <1>1, <1>2 DEF AccountsInv, KeysUnique
<1>5. SignaturesStored'
  BY <1>1 DEF AccountsInv, SignaturesStored
<1>6. EditsSound'
  BY <1>1, <1>2 DEF AccountsInv, EditsSound, IsMember
<1>7. TokensNameOneUser'
  <2> SUFFICES ASSUME NEW k \in Clients, NEW t \in {access[k], refresh[k]}, t # NoToken
               PROVE  UsersOf(t.email)' = {t.member}
    BY <1>1 DEF TokensNameOneUser
  <2>1. t \in Tokens /\ UsersOf(t.email) = {t.member}
    BY DEF AccountsInv, AccountsTypeOK, TokensNameOneUser
  <2>2. t.member \in Members /\ IsMember(t.member) /\ form[t.member].email = t.email
    BY <2>1 DEF UsersOf
  <2>3. form[m].email # t.email
    BY <2>2, <1>1 DEF AccountsInv, KeysUnique, IsMember
  <2>4. UsersOf(t.email)' = UsersOf(t.email)
    BY <2>3, <1>1, <1>2 DEF UsersOf, IsMember
  <2> QED BY <2>1, <2>4
<1> QED BY <1>3, <1>4, <1>5, <1>6, <1>7 DEF AccountsInv

LEMMA StoreSignatureInv ==
  ASSUME AccountsInv, NEW m \in Members, StoreSignature(m) PROVE AccountsInv'
<1>1. /\ signup[m] = "checked"
      /\ bucket' = bucket \cup {m} /\ file' = [file EXCEPT ![m] = m]
      /\ UNCHANGED <<signup, form, phone, edit, who, wants, sawPhone, sawFile, missed, access,
                     refresh>>
  BY DEF StoreSignature, editVars, tokenVars
<1>2. AccountsTypeOK'
  BY <1>1 DEF AccountsInv, AccountsTypeOK, Files
<1>3. KeysUnique'
  BY <1>1 DEF AccountsInv, KeysUnique
<1>4. SignaturesStored'
  BY <1>1 DEF AccountsInv, AccountsTypeOK, SignaturesStored
<1>5. EditsSound'
  <2>1. \A e \in Edits : e # m
    BY AccountsAssumption
  <2>2. \A n \in Members : IsMember(n)' <=> IsMember(n)
    BY <1>1 DEF IsMember
  <2>3. ASSUME NEW e \in Edits, edit[e] = "read" PROVE file'[who[e]] = file[who[e]]
    <3>1. who[e] # m /\ who[e] \in Members
      BY <2>3, <1>1 DEF AccountsInv, AccountsTypeOK, EditsSound, IsMember
    <3> QED BY <3>1, <1>1 DEF AccountsInv, AccountsTypeOK
  <2> QED BY <2>1, <2>2, <2>3, <1>1 DEF AccountsInv, AccountsTypeOK, EditsSound
<1>6. TokensNameOneUser'
  <2>1. \A n \in Members : IsMember(n)' <=> IsMember(n)
    BY <1>1 DEF IsMember
  <2> QED BY <2>1, <1>1, TokensKept
<1> QED BY <1>2, <1>3, <1>4, <1>5, <1>6 DEF AccountsInv

LEMMA ReadProfileInv ==
  ASSUME AccountsInv, NEW e \in Edits, NEW k \in Clients, NEW p \in Phones \cup {NoPhone},
         ReadProfile(e, k, p)
  PROVE  AccountsInv'
<1>1. /\ edit[e] = "new" /\ IsMember(who[e])
      /\ edit' = [edit EXCEPT ![e] = "read"]
      /\ wants' = [wants EXCEPT ![e] = p]
      /\ sawPhone' = [sawPhone EXCEPT ![e] = phone[who[e]]]
      /\ sawFile' = [sawFile EXCEPT ![e] = file[who[e]]]
      /\ UNCHANGED <<signup, form, phone, file, bucket, who, missed, access, refresh>>
  BY DEF ReadProfile, PhoneRead, rowVars, tokenVars
<1>2. who[e] \in Members
  BY DEF AccountsInv, AccountsTypeOK
<1>3. AccountsTypeOK'
  BY <1>1, <1>2 DEF AccountsInv, AccountsTypeOK
<1>4. KeysUnique'
  BY <1>1 DEF AccountsInv, KeysUnique
<1>5. SignaturesStored'
  BY <1>1, <1>2 DEF AccountsInv, AccountsTypeOK, SignaturesStored
<1>6. EditsSound'
  BY <1>1, <1>2 DEF AccountsInv, AccountsTypeOK, EditsSound, IsMember
<1>7. TokensNameOneUser'
  <2>1. \A n \in Members : IsMember(n)' <=> IsMember(n)
    BY <1>1 DEF IsMember
  <2> QED BY <2>1, <1>1, TokensKept
<1> QED BY <1>3, <1>4, <1>5, <1>6, <1>7 DEF AccountsInv

LEMMA StoreNewSignatureInv ==
  ASSUME AccountsInv, NEW e \in Edits, StoreNewSignature(e) PROVE AccountsInv'
<1>1. /\ edit[e] = "read" /\ bucket' = bucket \cup {e}
      /\ UNCHANGED <<signup, form, phone, file, edit, who, wants, sawPhone, sawFile, missed,
                     access, refresh>>
  BY DEF StoreNewSignature, rowVars, editVars, tokenVars
<1>2. AccountsTypeOK' /\ KeysUnique' /\ SignaturesStored'
  BY <1>1 DEF AccountsInv, AccountsTypeOK, Files, KeysUnique, SignaturesStored
<1>3. EditsSound'
  BY <1>1 DEF AccountsInv, EditsSound, IsMember
<1>4. TokensNameOneUser'
  <2>1. \A n \in Members : IsMember(n)' <=> IsMember(n)
    BY <1>1 DEF IsMember
  <2> QED BY <2>1, <1>1, TokensKept
<1> QED BY <1>2, <1>3, <1>4 DEF AccountsInv

LEMMA WriteProfileInv ==
  ASSUME AccountsInv, NEW e \in Edits, WriteProfile(e) PROVE AccountsInv'
<1> DEFINE m == who[e]
           p == NewPhone(e)
           f == NewFile(e)
<1>1. /\ edit[e] = "read"
      /\ \A n \in Members \ {m} : signup[n] \in {"inserted", "member"} => phone[n] # p
      /\ phone' = [phone EXCEPT ![m] = p]
      /\ file' = [file EXCEPT ![m] = f]
      /\ edit' = [edit EXCEPT ![e] = "done"]
      /\ missed' = [d \in Edits |->
             IF d = e THEN {}
             ELSE IF edit[d] # "read" \/ who[d] # m THEN missed[d]
             ELSE missed[d] \cup (IF phone'[m] # phone[m] THEN {"phone"} ELSE {})
                            \cup (IF file'[m] # file[m] THEN {"file"} ELSE {})]
      /\ wants' = [wants EXCEPT ![e] = NoPhone]
      /\ sawPhone' = [sawPhone EXCEPT ![e] = form[m].phone]
      /\ sawFile' = [sawFile EXCEPT ![e] = NoFile]
      /\ UNCHANGED <<signup, form, bucket, who, access, refresh>>
  BY DEF WriteProfile, Misses, ForgetsUser, PhoneHeld, tokenVars
<1>2. /\ m \in Members /\ IsMember(m) /\ form[m] \in Forms
      /\ p \in Phones /\ f \in Files \cup {NoFile} /\ f \in bucket \cup {NoFile}
  BY <1>1 DEF AccountsInv, AccountsTypeOK, EditsSound, SignaturesStored, NewPhone, NewFile, Files
<1> HIDE DEF m, p, f
<1>3. /\ phone'[m] = p /\ file'[m] = f
      /\ \A n \in Members \ {m} : phone'[n] = phone[n] /\ file'[n] = file[n]
  BY <1>1, <1>2 DEF AccountsInv, AccountsTypeOK
<1>4. AccountsTypeOK'
  <2>1. /\ phone' \in [Members -> Phones] /\ file' \in [Members -> Files \cup {NoFile}]
        /\ sawPhone' \in [Edits -> Phones] /\ sawFile' \in [Edits -> Files \cup {NoFile}]
    BY <1>1, <1>2, FormFacts DEF AccountsInv, AccountsTypeOK
  <2>2. missed' \in [Edits -> SUBSET {"phone", "file"}]
    BY <1>1 DEF AccountsInv, AccountsTypeOK
  <2>3. wants' \in [Edits -> Phones \cup {NoPhone}] /\ edit' \in [Edits -> {"new", "read", "done"}]
    BY <1>1 DEF AccountsInv, AccountsTypeOK
  <2> QED BY <2>1, <2>2, <2>3, <1>1 DEF AccountsInv, AccountsTypeOK
<1>5. KeysUnique'
  BY <1>1, <1>3 DEF AccountsInv, KeysUnique
<1>6. SignaturesStored'
  <2>1. \A n \in Members : file'[n] \in bucket \cup {NoFile}
    BY <1>2, <1>3 DEF AccountsInv, SignaturesStored
  <2>2. \A d \in Edits : sawFile'[d] \in bucket \cup {NoFile}
    BY <1>1 DEF AccountsInv, AccountsTypeOK, SignaturesStored
  <2> QED BY <2>1, <2>2, <1>1 DEF SignaturesStored
<1>7. EditsSound'
  <2>1. \A n \in Members : signup'[n] # "member" => phone'[n] = form'[n].phone
    BY <1>1, <1>2, <1>3 DEF AccountsInv, EditsSound, IsMember
  <2> SUFFICES ASSUME NEW d \in Edits
               PROVE  /\ edit'[d] # "read" => missed'[d] = {}
                      /\ edit'[d] = "new" => d \notin bucket'
                      /\ edit'[d] = "read" =>
                            /\ IsMember(who[d])'
                            /\ "phone" \notin missed'[d] => sawPhone'[d] = phone'[who'[d]]
                            /\ "file" \notin missed'[d] => sawFile'[d] = file'[who'[d]]
    BY <2>1 DEF EditsSound
  <2>2. CASE d = e
    BY <2>2, <1>1 DEF AccountsInv, AccountsTypeOK
  <2>3. CASE d # e
    <3>1. edit'[d] = edit[d] /\ sawPhone'[d] = sawPhone[d] /\ sawFile'[d] = sawFile[d]
      BY <2>3, <1>1 DEF AccountsInv, AccountsTypeOK
    <3>2. CASE edit[d] # "read"
      BY <3>1, <3>2, <2>3, <1>1 DEF AccountsInv, EditsSound
    <3>3. CASE edit[d] = "read" /\ who[d] # m
      <4>1. missed'[d] = missed[d] /\ who[d] \in Members
        BY <3>3, <2>3, <1>1 DEF AccountsInv, AccountsTypeOK
      <4>2. phone'[who[d]] = phone[who[d]] /\ file'[who[d]] = file[who[d]]
        BY <4>1, <3>3, <1>3
      <4> QED BY <4>1, <4>2, <3>1, <3>3, <1>1 DEF AccountsInv, EditsSound, IsMember
    <3>4. CASE edit[d] = "read" /\ who[d] = m
      <4>1. missed'[d] = missed[d] \cup (IF phone'[m] # phone[m] THEN {"phone"} ELSE {})
                                   \cup (IF file'[m] # file[m] THEN {"file"} ELSE {})
        BY <3>4, <2>3, <1>1
      <4>2. "phone" \notin missed'[d] => "phone" \notin missed[d] /\ phone'[m] = phone[m]
        BY <4>1
      <4>3. "file" \notin missed'[d] => "file" \notin missed[d] /\ file'[m] = file[m]
        BY <4>1
      <4> QED BY <4>2, <4>3, <3>1, <3>4, <1>1 DEF AccountsInv, EditsSound, IsMember
    <3> QED BY <3>2, <3>3, <3>4
  <2> QED BY <2>2, <2>3
<1>8. TokensNameOneUser'
  <2>1. \A n \in Members : IsMember(n)' <=> IsMember(n)
    BY <1>1 DEF IsMember
  <2> QED BY <2>1, <1>1, TokensKept
<1> QED BY <1>4, <1>5, <1>6, <1>7, <1>8 DEF AccountsInv

LEMMA EndProfileInv ==
  ASSUME AccountsInv, NEW e \in Edits, EndProfile(e) PROVE AccountsInv'
<1>1. /\ edit[e] = "read" /\ edit' = [edit EXCEPT ![e] = "done"]
      /\ missed' = [missed EXCEPT ![e] = {}]
      /\ wants' = [wants EXCEPT ![e] = NoPhone]
      /\ sawPhone' = [sawPhone EXCEPT ![e] = form[who[e]].phone]
      /\ sawFile' = [sawFile EXCEPT ![e] = NoFile]
      /\ UNCHANGED <<signup, form, phone, file, bucket, who, access, refresh>>
  BY DEF EndProfile, ForgetsUser, rowVars, tokenVars
<1>2. form[who[e]].phone \in Phones
  BY FormFacts DEF AccountsInv, AccountsTypeOK
<1>3. AccountsTypeOK'
  BY <1>1, <1>2 DEF AccountsInv, AccountsTypeOK
<1>4. KeysUnique'
  BY <1>1 DEF AccountsInv, KeysUnique
<1>5. SignaturesStored'
  BY <1>1 DEF AccountsInv, AccountsTypeOK, SignaturesStored
<1>6. EditsSound'
  BY <1>1 DEF AccountsInv, AccountsTypeOK, EditsSound, IsMember
<1>7. TokensNameOneUser'
  <2>1. \A n \in Members : IsMember(n)' <=> IsMember(n)
    BY <1>1 DEF IsMember
  <2> QED BY <2>1, <1>1, TokensKept
<1> QED BY <1>3, <1>4, <1>5, <1>6, <1>7 DEF AccountsInv

\* Steps that touch nothing but tokens.
LEMMA TokenStepInv ==
  ASSUME AccountsInv,
         UNCHANGED <<signup, form, rowVars, bucket, editVars, missed>>,
         access' \in [Clients -> Tokens \cup {NoToken}],
         refresh' \in [Clients -> Tokens \cup {NoToken}],
         \A k \in Clients : \A t \in {access'[k], refresh'[k]} :
            t # NoToken => UsersOf(t.email) = {t.member}
  PROVE  AccountsInv'
<1>1. UNCHANGED <<signup, form, phone, file, bucket, edit, who, wants, sawPhone, sawFile, missed>>
  BY DEF rowVars, editVars
<1>2. AccountsTypeOK'
  BY <1>1 DEF AccountsInv, AccountsTypeOK
<1>3. KeysUnique' /\ SignaturesStored' /\ EditsSound'
  BY <1>1 DEF AccountsInv, KeysUnique, SignaturesStored, EditsSound, IsMember
<1>4. \A email : UsersOf(email)' = UsersOf(email)
  BY <1>1 DEF UsersOf, IsMember
<1>5. TokensNameOneUser'
  BY <1>4 DEF TokensNameOneUser
<1> QED BY <1>2, <1>3, <1>5 DEF AccountsInv

LEMMA LoginInv ==
  ASSUME AccountsInv, NEW k \in Clients, NEW m \in Members, Login(k, m) PROVE AccountsInv'
<1> DEFINE t == Token(m)
<1>1. /\ UsersOf(form[m].email) = {m}
      /\ access' = [access EXCEPT ![k] = t] /\ refresh' = [refresh EXCEPT ![k] = t]
      /\ UNCHANGED <<signup, form, rowVars, bucket, editVars, missed>>
  BY DEF Login
<1>2. t \in Tokens /\ UsersOf(t.email) = {t.member}
  BY <1>1, TokenFacts
<1> HIDE DEF t
<1>3. /\ access' \in [Clients -> Tokens \cup {NoToken}]
      /\ refresh' \in [Clients -> Tokens \cup {NoToken}]
  BY <1>1, <1>2 DEF AccountsInv, AccountsTypeOK
<1>4. \A j \in Clients : \A u \in {access'[j], refresh'[j]} :
         u # NoToken => UsersOf(u.email) = {u.member}
  BY <1>1, <1>2 DEF AccountsInv, AccountsTypeOK, TokensNameOneUser
<1> QED BY <1>1, <1>3, <1>4, TokenStepInv

LEMMA RefreshTokenInv ==
  ASSUME AccountsInv, NEW k \in Clients, NEW m \in Members, RefreshToken(k, m)
  PROVE  AccountsInv'
<1> DEFINE t == [email |-> refresh[k].email, member |-> m]
<1>1. /\ refresh[k] # NoToken /\ UsersOf(refresh[k].email) = {m}
      /\ access' = [access EXCEPT ![k] = t] /\ refresh' = [refresh EXCEPT ![k] = t]
      /\ UNCHANGED <<signup, form, rowVars, bucket, editVars, missed>>
  BY DEF RefreshToken
<1>2. refresh[k] \in Tokens
  BY <1>1 DEF AccountsInv, AccountsTypeOK
<1>3. t \in Tokens /\ UsersOf(t.email) = {t.member}
  BY <1>1, <1>2 DEF Tokens
<1> HIDE DEF t
<1>4. /\ access' \in [Clients -> Tokens \cup {NoToken}]
      /\ refresh' \in [Clients -> Tokens \cup {NoToken}]
  BY <1>1, <1>3 DEF AccountsInv, AccountsTypeOK
<1>5. \A j \in Clients : \A u \in {access'[j], refresh'[j]} :
         u # NoToken => UsersOf(u.email) = {u.member}
  BY <1>1, <1>3 DEF AccountsInv, AccountsTypeOK, TokensNameOneUser
<1> QED BY <1>1, <1>4, <1>5, TokenStepInv

LEMMA TokenGoneInv ==
  ASSUME AccountsInv, NEW k \in Clients, DropRefresh(k) \/ AccessExpires(k)
  PROVE  AccountsInv'
<1>1. /\ UNCHANGED <<signup, form, rowVars, bucket, editVars, missed>>
      /\ \/ refresh' = [refresh EXCEPT ![k] = NoToken] /\ access' = access
         \/ access' = [access EXCEPT ![k] = NoToken] /\ refresh' = refresh
  BY DEF DropRefresh, AccessExpires
<1>2. /\ access' \in [Clients -> Tokens \cup {NoToken}]
      /\ refresh' \in [Clients -> Tokens \cup {NoToken}]
  BY <1>1 DEF AccountsInv, AccountsTypeOK
<1>3. \A j \in Clients : /\ access'[j] \in {access[j], NoToken}
                         /\ refresh'[j] \in {refresh[j], NoToken}
  BY <1>1 DEF AccountsInv, AccountsTypeOK
<1>4. \A j \in Clients : \A u \in {access'[j], refresh'[j]} :
         u # NoToken => UsersOf(u.email) = {u.member}
  BY <1>3 DEF AccountsInv, TokensNameOneUser
<1> QED BY <1>1, <1>2, <1>4, TokenStepInv

LEMMA AccountsStutter == AccountsInv /\ UNCHANGED accountVars => AccountsInv'
<1> SUFFICES ASSUME AccountsInv, UNCHANGED accountVars PROVE AccountsInv'
  OBVIOUS
<1>1. /\ UNCHANGED <<signup, form, rowVars, bucket, editVars, missed>>
      /\ access' = access /\ refresh' = refresh
  BY DEF accountVars, tokenVars
<1> QED BY <1>1, TokenStepInv DEF AccountsInv, AccountsTypeOK, TokensNameOneUser

LEMMA AccountsStepInv == AccountsInv /\ [AccountsNext]_accountVars => AccountsInv'
<1> SUFFICES ASSUME AccountsInv, [AccountsNext]_accountVars PROVE AccountsInv'
  OBVIOUS
<1>1. ASSUME NEW m \in Members,
             CheckKeys(m) \/ StoreSignature(m) \/ InsertUser(m) \/ CommitUser(m) \/ SignUpFails(m)
      PROVE  AccountsInv'
  BY <1>1, CheckKeysInv, StoreSignatureInv, InsertUserInv, CommitUserInv, SignUpFailsInv
<1>2. ASSUME NEW e \in Edits, NEW k \in Clients, NEW p \in Phones \cup {NoPhone},
             ReadProfile(e, k, p)
      PROVE  AccountsInv'
  BY <1>2, ReadProfileInv
<1>3. ASSUME NEW e \in Edits, StoreNewSignature(e) \/ WriteProfile(e) \/ EndProfile(e)
      PROVE  AccountsInv'
  BY <1>3, StoreNewSignatureInv, WriteProfileInv, EndProfileInv
<1>4. ASSUME NEW k \in Clients, NEW m \in Members, Login(k, m) \/ RefreshToken(k, m)
      PROVE  AccountsInv'
  BY <1>4, LoginInv, RefreshTokenInv
<1>5. ASSUME NEW k \in Clients, DropRefresh(k) \/ AccessExpires(k) PROVE AccountsInv'
  BY <1>5, TokenGoneInv
<1>6. CASE UNCHANGED accountVars
  BY <1>6, AccountsStutter
<1> QED BY <1>1, <1>2, <1>3, <1>4, <1>5, <1>6 DEF AccountsNext

-----------------------------------------------------------------------------
(* What follows                                                             *)

\* Rows share no key, what they name is stored, and an update under way knows the columns
\* of its user that nobody changed since.
THEOREM AccountsInvariant == AccountsSpec => []AccountsInv
<1>1. AccountsInit => AccountsInv
  BY AccountsInitInv
<1>2. AccountsInv /\ [AccountsNext]_accountVars => AccountsInv'
  BY AccountsStepInv
<1> QED BY <1>1, <1>2, PTL DEF AccountsSpec

\* The e-mail and the id in a token are one user's.
THEOREM TokensAreOneUsers == AccountsSpec => []TokensNameOneUser
<1>1. AccountsInv => TokensNameOneUser
  BY DEF AccountsInv
<1> QED BY <1>1, AccountsInvariant, PTL

\* Nobody is refused a phone number they did not send but after an overlap.
THEOREM RefusedOnlyByOverlap == AccountsSpec => []RefusedForItsOwnPhone
<1>1. AccountsInv => RefusedForItsOwnPhone
  <2> SUFFICES ASSUME AccountsInv, NEW e \in Edits, Refused(e), wants[e] = NoPhone,
                      "phone" \notin missed[e]
               PROVE  FALSE
    BY DEF RefusedForItsOwnPhone
  <2>1. PICK n \in Members : IsMember(n) /\ n # who[e] /\ phone[n] = sawPhone[e]
    BY DEF Refused, PhoneHeld, NewPhone
  <2>2. IsMember(who[e]) /\ sawPhone[e] = phone[who[e]] /\ who[e] \in Members
    BY DEF AccountsInv, AccountsTypeOK, EditsSound, Refused
  <2> QED BY <2>1, <2>2 DEF AccountsInv, KeysUnique, IsMember
<1> QED BY <1>1, AccountsInvariant, PTL

\* Only an overlap of updates of one user loses what one of them wrote.
THEOREM ProfilesLostByOverlap == AccountsSpec => ProfileLostOnlyByOverlap
<1> DEFINE Step == \A m \in Members :
          /\ phone'[m] # phone[m] => \E e \in Edits : who[e] = m /\ edit[e] = "read"
                /\ (phone'[m] = wants[e] \/ "phone" \in missed[e])
          /\ file'[m] # file[m] /\ signup[m] = "member" => \E e \in Edits :
                who[e] = m /\ edit[e] = "read" /\ (file'[m] = e \/ "file" \in missed[e])
<1>1. AccountsInv /\ [AccountsNext]_accountVars => [Step]_accountVars
  <2> SUFFICES ASSUME AccountsInv, AccountsNext PROVE Step
    OBVIOUS
  <2>1. ASSUME NEW e \in Edits, WriteProfile(e) PROVE Step
    <3>1. /\ edit[e] = "read" /\ who[e] \in Members
          /\ phone' = [phone EXCEPT ![who[e]] = NewPhone(e)]
          /\ file' = [file EXCEPT ![who[e]] = NewFile(e)]
      BY <2>1 DEF WriteProfile, AccountsInv, AccountsTypeOK
    <3> SUFFICES ASSUME NEW m \in Members
                 PROVE  /\ phone'[m] # phone[m] => who[e] = m
                              /\ (phone'[m] = wants[e] \/ "phone" \in missed[e])
                        /\ file'[m] # file[m] => who[e] = m
                              /\ (file'[m] = e \/ "file" \in missed[e])
      BY <3>1
    <3>2. CASE m # who[e]
      BY <3>1, <3>2 DEF AccountsInv, AccountsTypeOK
    <3>3. CASE m = who[e]
      <4>1. phone'[m] = NewPhone(e) /\ file'[m] = NewFile(e)
        BY <3>1, <3>3 DEF AccountsInv, AccountsTypeOK
      <4>2. phone'[m] # phone[m] => phone'[m] = wants[e] \/ "phone" \in missed[e]
        BY <4>1, <3>1, <3>3 DEF NewPhone, AccountsInv, EditsSound
      <4>3. file'[m] # file[m] => file'[m] = e \/ "file" \in missed[e]
        BY <4>1, <3>1, <3>3 DEF NewFile, AccountsInv, EditsSound
      <4> QED BY <4>2, <4>3, <3>3
    <3> QED BY <3>2, <3>3
  <2>2. ASSUME NEW m \in Members, StoreSignature(m) PROVE Step
    <3>1. signup[m] # "member" /\ phone' = phone /\ file' = [file EXCEPT ![m] = m]
      BY <2>2 DEF StoreSignature
    <3>2. \A n \in Members : file'[n] # file[n] => n = m
      BY <3>1 DEF AccountsInv, AccountsTypeOK
    <3> QED BY <3>1, <3>2
  <2>3. ASSUME phone' = phone, file' = file PROVE Step
    BY <2>3
  <2>4. ASSUME NEW m \in Members, CheckKeys(m) \/ InsertUser(m) \/ CommitUser(m) \/ SignUpFails(m)
        PROVE  phone' = phone /\ file' = file
    BY <2>4 DEF CheckKeys, InsertUser, CommitUser, SignUpFails, rowVars
  <2>5. ASSUME NEW e \in Edits, \/ \E k \in Clients, p \in Phones \cup {NoPhone} : ReadProfile(e, k, p)
                                \/ StoreNewSignature(e) \/ EndProfile(e)
        PROVE  phone' = phone /\ file' = file
    BY <2>5 DEF ReadProfile, StoreNewSignature, EndProfile, rowVars
  <2>6. ASSUME NEW k \in Clients, \/ \E m \in Members : Login(k, m) \/ RefreshToken(k, m)
                                  \/ DropRefresh(k) \/ AccessExpires(k)
        PROVE  phone' = phone /\ file' = file
    BY <2>6 DEF Login, RefreshToken, DropRefresh, AccessExpires, rowVars
  <2> HIDE DEF Step
  <2> QED BY <2>1, <2>2, <2>3, <2>4, <2>5, <2>6 DEF AccountsNext
<1> QED BY <1>1, AccountsInvariant, PTL DEF AccountsSpec, ProfileLostOnlyByOverlap

-----------------------------------------------------------------------------
(* Accounts implements Registry                                             *)

cardBar      == [m \in Members |-> CardOf(m)]
signatureBar == [m \in Members |-> SignatureOf(m)]
actsBar      == [k \in Clients |-> BearerOf(access[k])]
renewsBar    == [k \in Clients |-> BearerOf(refresh[k])]

registerBar == <<cardBar, signatureBar, bucket, actsBar, renewsBar>>

LEMMA RegistryInitially == AccountsInit => Clerk!RegistryInit
BY DEF AccountsInit, Clerk!RegistryInit, CardOf, SignatureOf, IsMember, BearerOf

\* The tokens' part of the register.
LEMMA SameBearers ==
  ASSUME UNCHANGED <<access, refresh>>
  PROVE  UNCHANGED <<actsBar, renewsBar>>
BY DEF actsBar, renewsBar

\* Steps that concern one sign-up that does not end as a member are not seen.
LEMMA SameCards ==
  ASSUME UNCHANGED <<form, phone>>, \A m \in Members : IsMember(m)' <=> IsMember(m)
  PROVE  UNCHANGED cardBar
BY DEF cardBar, CardOf

LEMMA SameSignatures ==
  ASSUME \A m \in Members : (IsMember(m)' <=> IsMember(m)) /\ (IsMember(m) => file'[m] = file[m])
  PROVE  UNCHANGED signatureBar
BY DEF signatureBar, SignatureOf

LEMMA FileRegisters ==
  ASSUME AccountsInv, NEW f \in Files, bucket' = bucket \cup {f},
         UNCHANGED <<cardBar, signatureBar, actsBar, renewsBar>>
  PROVE  Clerk!RegistryNext
BY DEF Clerk!RegistryNext, Clerk!Store, cardBar, signatureBar, actsBar, renewsBar

\* A sign-up but its commit.
LEMMA SignUpRegisters ==
  ASSUME AccountsInv, NEW m \in Members,
         CheckKeys(m) \/ StoreSignature(m) \/ InsertUser(m) \/ SignUpFails(m)
  PROVE  [Clerk!RegistryNext]_registerBar
<1>1. \A n \in Members : IsMember(n)' <=> IsMember(n)
  BY DEF CheckKeys, StoreSignature, InsertUser, SignUpFails, AccountsInv, AccountsTypeOK, IsMember
<1>2. UNCHANGED <<form, phone, access, refresh>>
  BY DEF CheckKeys, StoreSignature, InsertUser, SignUpFails, rowVars, tokenVars
<1>3. UNCHANGED <<cardBar, actsBar, renewsBar>>
  BY <1>1, <1>2, SameCards, SameBearers
<1>4. CASE StoreSignature(m)
  <2>1. \A n \in Members : IsMember(n) => file'[n] = file[n]
    BY <1>4 DEF StoreSignature, AccountsInv, AccountsTypeOK, IsMember
  <2>2. UNCHANGED signatureBar
    BY <1>1, <2>1, SameSignatures
  <2> QED BY <1>3, <1>4, <2>2, FileRegisters DEF StoreSignature, Files
<1>5. CASE ~StoreSignature(m)
  <2>1. UNCHANGED <<file, bucket>>
    BY <1>5 DEF CheckKeys, InsertUser, SignUpFails, rowVars
  <2> QED BY <1>1, <1>3, <2>1, SameSignatures DEF registerBar
<1> QED BY <1>4, <1>5

\* The commit of a sign-up registers its row, which no other's keys clash with.
LEMMA CommitRegisters ==
  ASSUME AccountsInv, NEW m \in Members, CommitUser(m)
  PROVE  Clerk!SignUp(m)
<1> DEFINE c == form[m]
<1>1. /\ signup[m] = "inserted"
      /\ signup' = [signup EXCEPT ![m] = "member"]
      /\ UNCHANGED <<form, phone, file, bucket, access, refresh>>
  BY DEF CommitUser, rowVars, tokenVars
<1>2. /\ IsMember(m)' /\ ~IsMember(m)
      /\ \A n \in Members \ {m} : IsMember(n)' <=> IsMember(n)
  BY <1>1 DEF AccountsInv, AccountsTypeOK, IsMember
<1>3. c \in Forms /\ c = [email |-> form[m].email, nickname |-> form[m].nickname, phone |-> phone[m]]
  BY <1>1, AccountsAssumption DEF AccountsInv, AccountsTypeOK, EditsSound
<1>4. cardBar' = [cardBar EXCEPT ![m] = {c}]
  <2>1. CardOf(m)' = {c}
    BY <1>1, <1>2, <1>3 DEF CardOf
  <2>2. \A n \in Members \ {m} : CardOf(n)' = CardOf(n)
    BY <1>1, <1>2 DEF CardOf
  <2> QED BY <2>1, <2>2 DEF cardBar
<1>5. signatureBar' = [signatureBar EXCEPT ![m] = file[m]]
  BY <1>1, <1>2 DEF signatureBar, SignatureOf
<1>6. file[m] \in bucket \cup {NoFile}
  BY DEF AccountsInv, SignaturesStored
<1>7. \A n \in Members : \A d \in CardOf(n) : ~Clerk!Share(c, d)
  <2> SUFFICES ASSUME NEW n \in Members, IsMember(n)
               PROVE  /\ c.email # form[n].email /\ c.nickname # form[n].nickname
                      /\ c.phone # phone[n]
    BY DEF CardOf, Clerk!Share
  <2>1. n # m /\ c.phone = phone[m]
    BY <1>2, <1>3
  <2> QED BY <2>1, <1>1 DEF AccountsInv, KeysUnique, IsMember
<1>8. CardOf(m) = {}
  BY <1>2 DEF CardOf
<1>9. UNCHANGED <<bucket, actsBar, renewsBar>>
  BY <1>1, SameBearers
<1>10. Clerk!Signs(m)
  BY <1>5, <1>6 DEF Clerk!Signs, signatureBar
<1>11. Clerk!Join(m, c)
  BY <1>4, <1>7 DEF Clerk!Join, cardBar
<1> QED BY <1>3, <1>8, <1>9, <1>10, <1>11 DEF Clerk!SignUp, actsBar, renewsBar, cardBar

\* What an update writes clashes with nobody's number.
LEMMA WriteRegisters ==
  ASSUME AccountsInv, NEW e \in Edits, WriteProfile(e)
  PROVE  Clerk!Update(who[e])
<1> DEFINE m == who[e]
<1>1. PICK p, f : p = NewPhone(e) /\ f = NewFile(e)
  OBVIOUS
<1>2. /\ edit[e] = "read"
      /\ phone' = [phone EXCEPT ![m] = p]
      /\ file' = [file EXCEPT ![m] = f]
      /\ \A n \in Members \ {m} : signup[n] \in {"inserted", "member"} => phone[n] # p
      /\ UNCHANGED <<signup, form, bucket, who, access, refresh>>
  BY <1>1 DEF WriteProfile, PhoneHeld, tokenVars
<1>3. /\ m \in Members /\ IsMember(m)
      /\ p \in Phones /\ f \in bucket \cup {NoFile}
  BY <1>1, <1>2 DEF AccountsInv, AccountsTypeOK, EditsSound, SignaturesStored, NewPhone, NewFile
<1>4. \A n \in Members : IsMember(n)' <=> IsMember(n)
  BY <1>2 DEF IsMember
<1>5. /\ phone'[m] = p /\ file'[m] = f
      /\ \A n \in Members \ {m} : phone'[n] = phone[n] /\ file'[n] = file[n]
  BY <1>2, <1>3 DEF AccountsInv, AccountsTypeOK
<1>6. cardBar' = [cardBar EXCEPT ![m] = {[c EXCEPT !.phone = p] : c \in cardBar[m]}]
  <2>1. CardOf(m) = {[email |-> form[m].email, nickname |-> form[m].nickname, phone |-> phone[m]]}
    BY <1>3 DEF CardOf
  <2>2. CardOf(m)' = {[email |-> form[m].email, nickname |-> form[m].nickname, phone |-> p]}
    BY <1>2, <1>3, <1>5 DEF CardOf, IsMember
  <2>3. CardOf(m)' = {[c EXCEPT !.phone = p] : c \in CardOf(m)}
    BY <2>1, <2>2
  <2>4. \A n \in Members \ {m} : CardOf(n)' = CardOf(n)
    BY <1>2, <1>4, <1>5 DEF CardOf
  <2> QED BY <1>2, <1>3, <2>3, <2>4 DEF cardBar
<1>7. signatureBar' = [signatureBar EXCEPT ![m] = f]
  BY <1>3, <1>4, <1>5 DEF signatureBar, SignatureOf
<1>8. \A n \in Members \ {m} : \A d \in CardOf(n) : d.phone # p
  BY <1>2 DEF CardOf, IsMember
<1>9. CardOf(m) # {}
  BY <1>3 DEF CardOf
<1>10. UNCHANGED <<bucket, actsBar, renewsBar>>
  BY <1>2, SameBearers
<1>11. Clerk!Signs(m)
  BY <1>3, <1>7 DEF Clerk!Signs, signatureBar
<1>12. Clerk!Renumber(m, p)
  BY <1>6, <1>8 DEF Clerk!Renumber, cardBar
<1> QED BY <1>3, <1>9, <1>10, <1>11, <1>12 DEF Clerk!Update, actsBar, renewsBar, cardBar

LEMMA ProfileRegisters ==
  ASSUME AccountsInv, NEW e \in Edits,
         \/ \E k \in Clients, p \in Phones \cup {NoPhone} : ReadProfile(e, k, p)
         \/ StoreNewSignature(e) \/ EndProfile(e)
  PROVE  [Clerk!RegistryNext]_registerBar
<1>1. UNCHANGED <<signup, form, phone, file, access, refresh>>
  BY DEF ReadProfile, StoreNewSignature, EndProfile, rowVars, editVars, tokenVars
<1>2. \A n \in Members : IsMember(n)' <=> IsMember(n)
  BY <1>1 DEF IsMember
<1>3. UNCHANGED <<cardBar, signatureBar, actsBar, renewsBar>>
  BY <1>1, <1>2, SameCards, SameSignatures, SameBearers
<1>4. CASE StoreNewSignature(e)
  BY <1>3, <1>4, FileRegisters DEF StoreNewSignature, Files
<1>5. CASE ~StoreNewSignature(e)
  <2>1. UNCHANGED bucket
    BY <1>5 DEF ReadProfile, EndProfile
  <2> QED BY <1>3, <2>1 DEF registerBar
<1> QED BY <1>4, <1>5

\* A renewal acts for the one the old token named: its e-mail has become nobody else's.
LEMMA TokensRegister ==
  ASSUME AccountsInv, NEW k \in Clients,
         \/ \E m \in Members : Login(k, m) \/ RefreshToken(k, m)
         \/ DropRefresh(k) \/ AccessExpires(k)
  PROVE  Clerk!RegistryNext
<1>1. UNCHANGED <<signup, form, phone, file, bucket>>
  BY DEF Login, RefreshToken, DropRefresh, AccessExpires, rowVars
<1>2. \A n \in Members : IsMember(n)' <=> IsMember(n)
  BY <1>1 DEF IsMember
<1>3. UNCHANGED <<cardBar, signatureBar, bucket>>
  BY <1>1, <1>2, SameCards, SameSignatures
<1>4. /\ access \in [Clients -> Tokens \cup {NoToken}]
      /\ refresh \in [Clients -> Tokens \cup {NoToken}]
      /\ \A t \in Tokens : t # NoToken
  BY AccountsAssumption DEF AccountsInv, AccountsTypeOK, Tokens
<1>5. ASSUME NEW t, access' = [access EXCEPT ![k] = t]
      PROVE  actsBar' = [actsBar EXCEPT ![k] = BearerOf(t)]
  BY <1>4, <1>5 DEF actsBar
<1>6. ASSUME NEW t, refresh' = [refresh EXCEPT ![k] = t]
      PROVE  renewsBar' = [renewsBar EXCEPT ![k] = BearerOf(t)]
  BY <1>4, <1>6 DEF renewsBar
<1>7. ASSUME NEW m \in Members, Login(k, m) PROVE Clerk!LogIn(k, m)
  <2>1. m \in UsersOf(form[m].email)
    BY <1>7 DEF Login
  <2>2. CardOf(m) # {}
    BY <2>1 DEF UsersOf, CardOf
  <2>3. BearerOf(Token(m)) = {m}
    BY TokenFacts DEF BearerOf
  <2>4. /\ actsBar' = [actsBar EXCEPT ![k] = {m}]
        /\ renewsBar' = [renewsBar EXCEPT ![k] = {m}]
    BY <1>5, <1>6, <1>7, <2>3 DEF Login
  <2> QED BY <1>3, <2>2, <2>4 DEF Clerk!LogIn, cardBar, signatureBar, actsBar, renewsBar
<1>8. ASSUME NEW m \in Members, RefreshToken(k, m) PROVE Clerk!Renew(k)
  <2>1. PICK t : t = [email |-> refresh[k].email, member |-> m]
    OBVIOUS
  <2>2. /\ refresh[k] # NoToken /\ refresh[k] \in Tokens
        /\ refresh[k].member = m
    BY <1>4, <1>8 DEF RefreshToken, AccountsInv, TokensNameOneUser
  <2>3. t = refresh[k]
    BY <2>1, <2>2 DEF Tokens
  <2>4. access' = [access EXCEPT ![k] = t] /\ refresh' = [refresh EXCEPT ![k] = t]
    BY <1>8, <2>1 DEF RefreshToken
  <2>5. refresh' = refresh
    BY <1>4, <2>3, <2>4
  <2>6. actsBar' = [actsBar EXCEPT ![k] = renewsBar[k]]
    BY <1>5, <2>3, <2>4 DEF renewsBar
  <2>7. renewsBar[k] # {} /\ UNCHANGED renewsBar
    BY <2>2, <2>5 DEF renewsBar, BearerOf
  <2> QED BY <1>3, <2>6, <2>7 DEF Clerk!Renew, cardBar, signatureBar, actsBar, renewsBar
<1>9. ASSUME DropRefresh(k) PROVE Clerk!Expire(k)
  <2>1. renewsBar' = [renewsBar EXCEPT ![k] = {}]
    BY <1>6, <1>9 DEF DropRefresh, BearerOf
  <2>2. UNCHANGED actsBar
    BY <1>9 DEF DropRefresh, actsBar
  <2> QED BY <1>3, <2>1, <2>2 DEF Clerk!Expire, cardBar, signatureBar, actsBar, renewsBar
<1>10. ASSUME AccessExpires(k) PROVE Clerk!Expire(k)
  <2>1. actsBar' = [actsBar EXCEPT ![k] = {}]
    BY <1>5, <1>10 DEF AccessExpires, BearerOf
  <2>2. UNCHANGED renewsBar
    BY <1>10 DEF AccessExpires, renewsBar
  <2> QED BY <1>3, <2>1, <2>2 DEF Clerk!Expire, cardBar, signatureBar, actsBar, renewsBar
<1> QED BY <1>7, <1>8, <1>9, <1>10 DEF Clerk!RegistryNext

LEMMA RegistryStep == AccountsInv /\ [AccountsNext]_accountVars => [Clerk!RegistryNext]_registerBar
<1> SUFFICES ASSUME AccountsInv, [AccountsNext]_accountVars
             PROVE  [Clerk!RegistryNext]_registerBar
  OBVIOUS
<1>1. CASE UNCHANGED accountVars
  <2>1. UNCHANGED <<signup, form, phone, file, bucket, access, refresh>>
    BY <1>1 DEF accountVars, rowVars, tokenVars
  <2> QED BY <2>1 DEF registerBar, cardBar, signatureBar, actsBar, renewsBar, CardOf, SignatureOf,
                      IsMember
<1>2. ASSUME NEW m \in Members, CommitUser(m) PROVE Clerk!RegistryNext
  BY <1>2, CommitRegisters DEF Clerk!RegistryNext
<1>3. ASSUME NEW e \in Edits, WriteProfile(e) PROVE Clerk!RegistryNext
  <2>1. who[e] \in Members
    BY DEF AccountsInv, AccountsTypeOK
  <2> QED BY <1>3, <2>1, WriteRegisters DEF Clerk!RegistryNext
<1> QED BY <1>1, <1>2, <1>3, SignUpRegisters, ProfileRegisters, TokensRegister DEF AccountsNext

\* Every step of the accounts is a step of Registry or none, for any members, updates and
\* clients.
THEOREM RegistryRefinement == AccountsSpec => ImplementsRegistry
<1>1. AccountsInv /\ [AccountsNext]_accountVars => [Clerk!RegistryNext]_(Clerk!registryVars)
  BY RegistryStep DEF Clerk!registryVars, registerBar, cardBar, signatureBar, actsBar, renewsBar
<1> QED BY <1>1, RegistryInitially, AccountsInvariant, PTL
        DEF AccountsSpec, ImplementsRegistry, Clerk!RegistrySpec
===============================================================================
