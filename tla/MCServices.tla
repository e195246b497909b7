------------------------------ MODULE MCServices ------------------------------
(* Four services that share no state: opening chat rooms, the personal feed, what
   contracts say, and accounts.  In a behaviour one of them, focus, is in use and the
   others rest, so that their states add up and do not multiply. *)
EXTENDS ChatRooms, Feed, Terms, Accounts, TLC

CONSTANTS u1, u2, u3, m1, m2

VARIABLE focus

\* The second update's price is past the fee's limit.
Prices == [s \in Setters |-> IF s = u1 THEN 1 ELSE IF s = u2 THEN 7 ELSE 3]
SomeHours == {0, 3}

\* One form clashes with another in the e-mail, with the third in the phone number.
SomeForms == {[email |-> "a", nickname |-> "n", phone |-> "1"],
              [email |-> "b", nickname |-> "o", phone |-> "1"],
              [email |-> "a", nickname |-> "o", phone |-> "2"]}

\* Two updates of a profile differ in nothing but their names.
EditsAlike == Permutations(Edits)

RestingRooms == signedUp = {} /\ RoomsInit
RestingFeed == made = 0 /\ cat = [p \in Goods |-> "tools"] /\ FeedInit
RestingTerms == kind = [u \in Updates |-> "product"] /\ TermsInit
RestingAccounts ==
    /\ form = [m \in Members |-> [email |-> "a", nickname |-> "n", phone |-> "1"]]
    /\ who = [e \in Edits |-> m1]
    /\ AccountsInit

ServicesInit ==
    \/ focus = "rooms" /\ RoomsInit /\ RestingFeed /\ RestingTerms /\ RestingAccounts
    \/ focus = "feed" /\ RestingRooms /\ FeedInit /\ RestingTerms /\ RestingAccounts
    \/ focus = "terms" /\ RestingRooms /\ RestingFeed /\ TermsInit /\ RestingAccounts
    \/ focus = "accounts" /\ RestingRooms /\ RestingFeed /\ RestingTerms /\ AccountsInit

ServicesNext ==
    \/ focus = "rooms" /\ RoomsNext /\ UNCHANGED <<focus, feedVars, termsVars, accountVars>>
    \/ focus = "feed" /\ FeedNext /\ UNCHANGED <<focus, roomVars, termsVars, accountVars>>
    \/ focus = "terms" /\ TermsNext /\ UNCHANGED <<focus, roomVars, feedVars, accountVars>>
    \/ focus = "accounts" /\ AccountsNext /\ UNCHANGED <<focus, roomVars, feedVars, termsVars>>

servicesVars == <<focus, roomVars, feedVars, termsVars, accountVars>>
ServicesSpec == ServicesInit /\ [][ServicesNext]_servicesVars

=============================================================================
