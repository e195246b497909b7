------------------------------- MODULE Accounts -------------------------------
(***************************************************************************)
(* Accounts and tokens.  A sign-up is one transaction: it looks whether    *)
(* the e-mail and the nickname are taken, may store a signature, inserts   *)
(* the row and commits.  A profile update is another: it reads the user,   *)
(* may store a signature, and writes every column.  Tokens carry the       *)
(* e-mail and the id of a user, and requests are served for either.        *)
(*                                                                         *)
(* A sign-up's own identity stands for the id of its user, and a request's *)
(* for the file it stores.  Rows of users are never deleted; e-mail,       *)
(* nickname and password never change.                                     *)
(***************************************************************************)
EXTENDS Naturals

CONSTANTS
    Members,   \* sign-up requests
    Edits,     \* profile updates
    Clients,   \* browsers, which keep tokens
    Emails, Nicknames, Phones,
    Forms,     \* what sign-ups may ask for
    NoPhone,   \* the update sends no phone number
    NoFile,    \* no signature
    NoToken    \* no cookie, no access token, or one that has expired

ASSUME AccountsAssumption ==
    /\ Forms \subseteq [email : Emails, nickname : Nicknames, phone : Phones]
    /\ NoPhone \notin Phones
    /\ NoFile \notin Members \cup Edits
    /\ Members \cap Edits = {}
    /\ NoToken \notin [email : Emails, member : Members]

VARIABLES
    signup,    \* where each sign-up is
    form,      \* what it asks for
    phone,     \* User.phoneNumber
    file,      \* User.signature
    bucket,    \* the files in the S3 bucket
    edit,      \* where each profile update is
    who,       \* the user it is for
    wants,     \* the phone number it sends
    sawPhone,  \* the phone number it read
    sawFile,   \* the signature it read
    missed,    \* columns of its user that changed since
    access,    \* the access token of each client
    refresh    \* its refresh token

rowVars == <<phone, file>>
editVars == <<edit, who, wants, sawPhone, sawFile>>
tokenVars == <<access, refresh>>
accountVars == <<signup, form, rowVars, bucket, editVars, missed, tokenVars>>

Files == Members \cup Edits
Tokens == [email : Emails, member : Members]

AccountsTypeOK ==
    /\ signup \in [Members -> {"new", "checked", "inserted", "member", "refused"}]
    /\ form \in [Members -> Forms]
    /\ phone \in [Members -> Phones]
    /\ file \in [Members -> Files \cup {NoFile}]
    /\ bucket \subseteq Files
    /\ edit \in [Edits -> {"new", "read", "done"}]
    /\ who \in [Edits -> Members]
    /\ wants \in [Edits -> Phones \cup {NoPhone}]
    /\ sawPhone \in [Edits -> Phones]
    /\ sawFile \in [Edits -> Files \cup {NoFile}]
    /\ missed \in [Edits -> SUBSET {"phone", "file"}]
    /\ access \in [Clients -> Tokens \cup {NoToken}]
    /\ refresh \in [Clients -> Tokens \cup {NoToken}]

AccountsInit ==
    /\ signup = [m \in Members |-> "new"]
    /\ form \in [Members -> Forms]
    /\ phone = [m \in Members |-> form[m].phone]
    /\ file = [m \in Members |-> NoFile]
    /\ bucket = {}
    /\ edit = [e \in Edits |-> "new"]
    /\ who \in [Edits -> Members]
    /\ wants = [e \in Edits |-> NoPhone]
    /\ sawPhone = [e \in Edits |-> form[who[e]].phone]
    /\ sawFile = [e \in Edits |-> NoFile]
    /\ missed = [e \in Edits |-> {}]
    /\ access = [k \in Clients |-> NoToken]
    /\ refresh = [k \in Clients |-> NoToken]

IsMember(m) == signup[m] = "member"

-----------------------------------------------------------------------------
(* UserService.signup                                                       *)

\* existsByEmail and existsByNickname see one snapshot.
CheckKeys(m) ==
    /\ signup[m] = "new"
    /\ signup' = [signup EXCEPT ![m] =
          IF \E n \in Members : IsMember(n) /\ (\/ form[n].email = form[m].email
                                                \/ form[n].nickname = form[m].nickname)
          THEN "refused" ELSE "checked"]
    /\ UNCHANGED <<form, rowVars, bucket, editVars, missed, tokenVars>>

StoreSignature(m) ==
    /\ signup[m] = "checked" /\ m \notin bucket
    /\ bucket' = bucket \cup {m}
    /\ file' = [file EXCEPT ![m] = m]
    /\ UNCHANGED <<signup, form, phone, editVars, missed, tokenVars>>

\* Mutant: only the nickname and the phone number are unique keys.
SameKeyButEmail(m, n) ==
    form[m].nickname = form[n].nickname \/ form[m].phone = phone[n]

\* The unique keys of users.
SameKey(m, n) ==
    \/ form[m].email = form[n].email
    \/ form[m].nickname = form[n].nickname
    \/ form[m].phone = phone[n]

\* INSERT waits for a row with one of its keys that is not committed, and is refused
\* for one that is.
InsertUser(m) ==
    /\ signup[m] = "checked"
    /\ ~\E n \in Members : signup[n] = "inserted" /\ SameKey(m, n)
    /\ signup' = [signup EXCEPT ![m] =
          IF \E n \in Members : IsMember(n) /\ SameKey(m, n) THEN "refused" ELSE "inserted"]
    /\ UNCHANGED <<form, rowVars, bucket, editVars, missed, tokenVars>>

CommitUser(m) ==
    /\ signup[m] = "inserted"
    /\ signup' = [signup EXCEPT ![m] = "member"]
    /\ UNCHANGED <<form, rowVars, bucket, editVars, missed, tokenVars>>

\* S3 or MySQL fails, a deadlock, the server dies: the row is rolled back, the file stays.
SignUpFails(m) ==
    /\ signup[m] \in {"checked", "inserted"}
    /\ signup' = [signup EXCEPT ![m] = "refused"]
    /\ UNCHANGED <<form, rowVars, bucket, editVars, missed, tokenVars>>

-----------------------------------------------------------------------------
(* UserService.updateProfile                                                *)

\* Mutant: the entity that authenticated the request, as it was at sign-up.
PhoneAtSignUp(m) == form[m].phone

PhoneRead(m) == phone[m]

\* getAuthenticatedUser: the id in the client's access token.
ReadProfile(e, k, p) ==
    /\ edit[e] = "new" /\ access[k] # NoToken
    /\ access[k].member = who[e] /\ IsMember(who[e])
    /\ edit' = [edit EXCEPT ![e] = "read"]
    /\ wants' = [wants EXCEPT ![e] = p]
    /\ sawPhone' = [sawPhone EXCEPT ![e] = PhoneRead(who[e])]
    /\ sawFile' = [sawFile EXCEPT ![e] = file[who[e]]]
    /\ UNCHANGED <<signup, form, rowVars, bucket, who, missed, tokenVars>>

StoreNewSignature(e) ==
    /\ edit[e] = "read" /\ e \notin bucket
    /\ bucket' = bucket \cup {e}
    /\ UNCHANGED <<signup, form, rowVars, editVars, missed, tokenVars>>

\* The entity at the commit.
NewPhone(e) == IF wants[e] = NoPhone THEN sawPhone[e] ELSE wants[e]
NewFile(e) == IF e \in bucket THEN e ELSE sawFile[e]
Dirty(e) == NewPhone(e) # sawPhone[e] \/ NewFile(e) # sawFile[e]

\* The session ends with the entity it held.
ForgetsUser(e) ==
    /\ wants' = [wants EXCEPT ![e] = NoPhone]
    /\ sawPhone' = [sawPhone EXCEPT ![e] = form[who[e]].phone]
    /\ sawFile' = [sawFile EXCEPT ![e] = NoFile]

\* What others under way for the same user have missed once e ends.
Misses(e) ==
    missed' = [d \in Edits |->
        IF d = e THEN {}
        ELSE IF edit[d] # "read" \/ who[d] # who[e] THEN missed[d]
        ELSE missed[d] \cup (IF phone'[who[e]] # phone[who[e]] THEN {"phone"} ELSE {})
                       \cup (IF file'[who[e]] # file[who[e]] THEN {"file"} ELSE {})]

PhoneHeld(e, n) == n # who[e] /\ phone[n] = NewPhone(e)

\* One UPDATE of every column, at the flush before the commit.  Like an INSERT it
\* waits for a phone number that is not committed.
WriteProfile(e) ==
    /\ edit[e] = "read" /\ Dirty(e)
    /\ ~\E n \in Members : signup[n] \in {"inserted", "member"} /\ PhoneHeld(e, n)
    /\ phone' = [phone EXCEPT ![who[e]] = NewPhone(e)]
    /\ file' = [file EXCEPT ![who[e]] = NewFile(e)]
    /\ edit' = [edit EXCEPT ![e] = "done"]
    /\ Misses(e) /\ ForgetsUser(e)
    /\ UNCHANGED <<signup, form, bucket, who, tokenVars>>

Refused(e) ==
    edit[e] = "read" /\ Dirty(e) /\ \E n \in Members : IsMember(n) /\ PhoneHeld(e, n)

\* The unique key refuses it, nothing was changed, or S3, MySQL or the server fails.
EndProfile(e) ==
    /\ edit[e] = "read"
    /\ edit' = [edit EXCEPT ![e] = "done"]
    /\ missed' = [missed EXCEPT ![e] = {}]
    /\ ForgetsUser(e)
    /\ UNCHANGED <<signup, form, rowVars, bucket, who, tokenVars>>

-----------------------------------------------------------------------------
(* AuthService                                                              *)

\* findByEmail.
UsersOf(email) == {m \in Members : IsMember(m) /\ form[m].email = email}

Token(m) == [email |-> form[m].email, member |-> m]

Login(k, m) ==
    /\ UsersOf(form[m].email) = {m}
    /\ access' = [access EXCEPT ![k] = Token(m)]
    /\ refresh' = [refresh EXCEPT ![k] = Token(m)]
    /\ UNCHANGED <<signup, form, rowVars, bucket, editVars, missed>>

\* Both tokens are made anew, for the user with the old one's e-mail.
RefreshToken(k, m) ==
    /\ refresh[k] # NoToken
    /\ UsersOf(refresh[k].email) = {m}
    /\ access' = [access EXCEPT ![k] = [email |-> refresh[k].email, member |-> m]]
    /\ refresh' = [refresh EXCEPT ![k] = [email |-> refresh[k].email, member |-> m]]
    /\ UNCHANGED <<signup, form, rowVars, bucket, editVars, missed>>

\* The cookie is cleared, or the refresh token expires: using it is an exception.  The
\* access token stays good.
DropRefresh(k) ==
    /\ refresh[k] # NoToken
    /\ refresh' = [refresh EXCEPT ![k] = NoToken]
    /\ UNCHANGED <<signup, form, rowVars, bucket, editVars, missed, access>>

\* After an hour requests with it are as those without.
AccessExpires(k) ==
    /\ access[k] # NoToken
    /\ access' = [access EXCEPT ![k] = NoToken]
    /\ UNCHANGED <<signup, form, rowVars, bucket, editVars, missed, refresh>>

AccountsNext ==
    \/ \E m \in Members :
        \/ CheckKeys(m) \/ StoreSignature(m) \/ InsertUser(m) \/ CommitUser(m)
        \/ SignUpFails(m)
    \/ \E e \in Edits :
        \/ \E k \in Clients, p \in Phones \cup {NoPhone} : ReadProfile(e, k, p)
        \/ StoreNewSignature(e) \/ WriteProfile(e) \/ EndProfile(e)
    \/ \E k \in Clients :
        \/ \E m \in Members : Login(k, m) \/ RefreshToken(k, m)
        \/ DropRefresh(k) \/ AccessExpires(k)

AccountsSpec == AccountsInit /\ [][AccountsNext]_accountVars

-----------------------------------------------------------------------------
(* Properties                                                               *)

\* A token's e-mail belongs to one user, the one whose id it carries: JwtFilter 37-38
\* and SecurityUtil 42-56 serve a request for the same person, whoever else signed up
\* with that e-mail at the same time (UserService 31-37).
TokensNameOneUser ==
    \A k \in Clients : \A t \in {access[k], refresh[k]} :
        t # NoToken => UsersOf(t.email) = {t.member}

\* A profile update undoes a phone number or a signature only if another update of the
\* same user was committed while it was under way (UserService 61-74).
ProfileLostOnlyByOverlap ==
    [][\A m \in Members :
          /\ phone'[m] # phone[m] => \E e \in Edits : who[e] = m /\ edit[e] = "read"
                /\ (phone'[m] = wants[e] \/ "phone" \in missed[e])
          /\ file'[m] # file[m] /\ signup[m] = "member" => \E e \in Edits :
                who[e] = m /\ edit[e] = "read" /\ (file'[m] = e \/ "file" \in missed[e])]_accountVars

\* An update that sends no phone number is refused for one only if an overlapping update
\* gave the old number away and another user took it (UserService 70-73).
RefusedForItsOwnPhone ==
    \A e \in Edits : Refused(e) /\ wants[e] = NoPhone => "phone" \in missed[e]

\* What others see of a sign-up and of a token.
CardOf(m) ==
    IF IsMember(m)
    THEN {[email |-> form[m].email, nickname |-> form[m].nickname, phone |-> phone[m]]}
    ELSE {}
SignatureOf(m) == IF IsMember(m) THEN file[m] ELSE NoFile
BearerOf(t) == IF t = NoToken THEN {} ELSE {t.member}

Clerk == INSTANCE Registry WITH
    Cards     <- Forms,
    card      <- [m \in Members |-> CardOf(m)],
    signature <- [m \in Members |-> SignatureOf(m)],
    stored    <- bucket,
    acts      <- [k \in Clients |-> BearerOf(access[k])],
    renews    <- [k \in Clients |-> BearerOf(refresh[k])]

\* Sign-ups that check, store, insert and commit while others do, updates that write
\* back what they read, failures in between and tokens renewed by e-mail look like one
\* register kept by one clerk (UserService 30-74, AuthService 27-81).
ImplementsRegistry == Clerk!RegistrySpec

\* Two rows that are there, committed or not, share no key.
KeysUnique ==
    \A m, n \in Members :
        m # n /\ signup[m] \in {"inserted", "member"} /\ signup[n] \in {"inserted", "member"} =>
            /\ form[m].email # form[n].email
            /\ form[m].nickname # form[n].nickname
            /\ phone[m] # phone[n]

\* What a row or an update refers to is in the bucket.
SignaturesStored ==
    /\ \A m \in Members : file[m] \in bucket \cup {NoFile}
    /\ \A e \in Edits : sawFile[e] \in bucket \cup {NoFile}

EditsSound ==
    /\ \A m \in Members : signup[m] # "member" => phone[m] = form[m].phone
    /\ \A e \in Edits :
        /\ edit[e] # "read" => missed[e] = {}
        /\ edit[e] = "new" => e \notin bucket
        /\ edit[e] = "read" =>
              /\ IsMember(who[e])
              /\ "phone" \notin missed[e] => sawPhone[e] = phone[who[e]]
              /\ "file" \notin missed[e] => sawFile[e] = file[who[e]]

AccountsInv ==
    /\ AccountsTypeOK
    /\ KeysUnique
    /\ SignaturesStored
    /\ EditsSound
    /\ TokensNameOneUser
=============================================================================
