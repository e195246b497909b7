------------------------------- MODULE Browse -------------------------------
(***************************************************************************)
(* What a client that walks along a list page by page is promised while    *)
(* the list changes: no page repeats what it was shown, and the walk ends  *)
(* only when everything that was there at its beginning and stayed as it   *)
(* was has been shown.  A list may make an exception for loose items,      *)
(* those that changed their kind meanwhile: they may come again.  The      *)
(* product lists (Paging) and the personal feed (Feed) both implement it.  *)
(***************************************************************************)
EXTENDS Naturals

CONSTANTS
    Items,
    Kinds,
    Choices    \* sets of kinds a client may ask for

VARIABLES
    kind,      \* the kind of each item, as a set; none for what is not there
    pc,        \* the client: "idle", "walking" or "over"
    seen,      \* how often it was shown each item, up to 2
    owed,      \* items it has to be shown yet
    loose      \* items that may come again

browseVars == <<kind, pc, seen, owed, loose>>

Matching(K) == {p \in Items : kind[p] \cap K # {}}

BrowseInit ==
    /\ kind \in [Items -> {{}} \cup {{k} : k \in Kinds}]
    /\ seen = [p \in Items |-> 0]
    /\ pc = "idle" /\ owed = {} /\ loose = {}

\* An item is registered or edited.  It is not owed any more.
Become(p, k) ==
    /\ kind' = [kind EXCEPT ![p] = k]
    /\ owed' = owed \ {p}
    /\ loose' \in {loose, loose \cup {p}}
    /\ UNCHANGED <<pc, seen>>

\* A page shows S; the walk may be over when nothing is owed any more.
Show(S, D) ==
    /\ seen' = [p \in Items |-> IF p \in S /\ seen[p] < 2 THEN seen[p] + 1 ELSE seen[p]]
    /\ owed' = D \ S
    /\ \/ pc' = "walking"
       \/ pc' = "over" /\ owed' = {}

\* The walk begins; its first page may come at once.
Begin(K, S) ==
    /\ pc = "idle"
    /\ S \subseteq Matching(K)
    /\ Show(S, Matching(K))
    /\ loose' = {}
    /\ UNCHANGED kind

Page(S) ==
    /\ pc = "walking"
    /\ \A p \in S : kind[p] # {} /\ (seen[p] = 0 \/ p \in loose)
    /\ Show(S, owed)
    /\ UNCHANGED <<kind, loose>>

\* The first request fails: the client is where it was.
Abandon ==
    /\ pc = "walking" /\ \A p \in Items : seen[p] = 0
    /\ pc' = "idle" /\ owed' = {}
    /\ UNCHANGED <<kind, seen, loose>>

BrowseNext ==
    \/ \E p \in Items, k \in {{}} \cup {{j} : j \in Kinds} : Become(p, k)
    \/ \E K \in Choices, S \in SUBSET Items : Begin(K, S)
    \/ \E S \in SUBSET Items : Page(S)
    \/ Abandon

BrowseSpec == BrowseInit /\ [][BrowseNext]_browseVars
=============================================================================
