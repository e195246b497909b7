------------------------------ MODULE ChatRooms ------------------------------
(***************************************************************************)
(* ChatRoomService.findOrCreateChatRoom: a user opens the chat with        *)
(* another.  The request is no transaction: the search, the INSERT of the  *)
(* room and the declaration of its queue follow each other, and two        *)
(* requests may interleave anywhere.  A room is named by the request that  *)
(* created it.  Users are never removed.                                   *)
(***************************************************************************)
EXTENDS Naturals

CONSTANTS
    Users,
    Opens,      \* requests POST /chatrooms
    NoRoom,     \* no answer yet
    NoUser

ASSUME ChatRoomsAssumption == NoRoom \notin Opens /\ NoUser \notin Users

VARIABLES
    signedUp,   \* users with a row
    open,       \* each request
    rooms,      \* rooms whose row is committed
    queues,     \* rooms whose queue is declared and bound
    before      \* rooms that were there when the request searched

roomVars == <<signedUp, open, rooms, queues, before>>

Open == [pc     : {"new", "found", "create", "declare", "done", "failed"},
         user1  : Users \cup {NoUser},
         user2  : Users \cup {NoUser},
         answer : Opens \cup {NoRoom}]
NewOpen == [pc |-> "new", user1 |-> NoUser, user2 |-> NoUser, answer |-> NoRoom]

RoomsTypeOK ==
    /\ signedUp \subseteq Users
    /\ open \in [Opens -> Open]
    /\ rooms \subseteq Opens
    /\ queues \subseteq rooms
    /\ before \in [Opens -> SUBSET Opens]

RoomsInit ==
    /\ signedUp \in SUBSET Users
    /\ open = [o \in Opens |-> NewOpen]
    /\ rooms = {}
    /\ queues = {}
    /\ before = [o \in Opens |-> {}]

\* UserService.signup, committed.
SignUp(u) ==
    /\ u \notin signedUp
    /\ signedUp' = signedUp \cup {u}
    /\ UNCHANGED <<open, rooms, queues, before>>

\* Both users are looked up; either may be missing.  Nobody asks who the caller
\* is, nor whether the two differ.
FindUsers(o, u, v) ==
    /\ open[o].pc = "new"
    /\ open' = [open EXCEPT ![o] = [NewOpen EXCEPT
                  !.pc = IF {u, v} \subseteq signedUp THEN "found" ELSE "failed",
                  !.user1 = u, !.user2 = v]]
    /\ UNCHANGED <<signedUp, rooms, queues, before>>

SameOrder(r, o) == open[r].user1 = open[o].user1 /\ open[r].user2 = open[o].user2
Crossed(r, o) == open[r].user1 = open[o].user2 /\ open[r].user2 = open[o].user1

\* findByUser1IdOrUser2Id(user1, user2): a column each.
Fetched(r, o) == open[r].user1 = open[o].user1 \/ open[r].user2 = open[o].user2

\* Mutant: the fetched rooms are not filtered.
FetchedAtAll(o) == {r \in rooms : Fetched(r, o)}

\* Mutant: only the caller's own rooms are looked at, from the other side.
CrossedOnly(o) == {r \in rooms : Fetched(r, o) /\ Crossed(r, o)}

\* The rooms the search returns and the filter keeps.
ExistingRooms(o) == {r \in rooms : Fetched(r, o) /\ (SameOrder(r, o) \/ Crossed(r, o))}

\* findFirst takes any: the query has no order.
FindRoom(o) ==
    /\ open[o].pc = "found"
    /\ before' = [before EXCEPT ![o] = rooms]
    /\ \/ \E r \in ExistingRooms(o) :
             open' = [open EXCEPT ![o] = [@ EXCEPT !.pc = "done", !.answer = r]]
       \/ /\ ExistingRooms(o) = {}
          /\ open' = [open EXCEPT ![o].pc = "create"]
    /\ UNCHANGED <<signedUp, rooms, queues>>

SaveRoom(o) ==
    /\ open[o].pc = "create"
    /\ rooms' = rooms \cup {o}
    /\ open' = [open EXCEPT ![o].pc = "declare"]
    /\ UNCHANGED <<signedUp, queues, before>>

\* Mutant: the room is answered before its queue is declared.
AnswerFirst(o) ==
    /\ open[o].pc = "declare"
    /\ open' = [open EXCEPT ![o] = [@ EXCEPT !.pc = "done", !.answer = o]]
    /\ UNCHANGED <<signedUp, rooms, queues, before>>

CreateQueueAndBind(o) ==
    /\ open[o].pc = "declare"
    /\ queues' = queues \cup {o}
    /\ open' = [open EXCEPT ![o] = [@ EXCEPT !.pc = "done", !.answer = o]]
    /\ UNCHANGED <<signedUp, rooms, before>>

\* MySQL or RabbitMQ does not answer, or the server dies.
OpenFails(o) ==
    /\ open[o].pc \in {"found", "create", "declare"}
    /\ open' = [open EXCEPT ![o].pc = "failed"]
    /\ UNCHANGED <<signedUp, rooms, queues, before>>

RoomsNext ==
    \/ \E u \in Users : SignUp(u)
    \/ \E o \in Opens, u, v \in Users : FindUsers(o, u, v)
    \/ \E o \in Opens : FindRoom(o) \/ SaveRoom(o) \/ CreateQueueAndBind(o) \/ OpenFails(o)

RoomsSpec == RoomsInit /\ [][RoomsNext]_roomVars

-----------------------------------------------------------------------------
(* Properties                                                               *)

\* "두 유저가 정확히 매칭된 채팅방이 있는지 확인" (ChatRoomService:45: is there a room that
\* matches the two users exactly): no request adds a second room of two users who
\* had one when it searched.
ExistingRoomIsFound ==
    \A s \in rooms : \A r \in before[s] : ~SameOrder(r, s) /\ ~Crossed(r, s)

\* Opened in the same order twice, there is a second room only when the two
\* requests ran at once: neither's room was there when the other searched
\* (ChatRoomService 43-57).
NoTwinWithoutRace ==
    \A r, s \in rooms : r # s /\ SameOrder(r, s) => r \notin before[s] /\ s \notin before[r]

\* A user is only ever sent to a room of the two users asked for, and to one with
\* a queue, unless its creator is still declaring it or has failed
\* (ChatRoomService 46-60).
AnswerIsUsable ==
    \A o \in Opens :
        open[o].pc = "done" =>
            LET r == open[o].answer IN
            /\ r \in rooms
            /\ SameOrder(r, o) \/ Crossed(r, o)
            /\ r \in queues \/ open[r].pc \in {"declare", "failed"}

\* A user is answered only a room opened in the order of the request: the room that
\* the other one opened is found by nobody but the other one (ChatRoomService 46-52
\* with findByUser1IdOrUser2Id).
AnsweredOwnSide ==
    \A o \in Opens : open[o].pc = "done" => SameOrder(open[o].answer, o)

-----------------------------------------------------------------------------
(* The inductive invariant                                                  *)

\* What each point of a request says of the tables.
OpensSound ==
    \A o \in Opens :
        /\ open[o].pc \in {"new", "found", "create"} => o \notin rooms
        /\ open[o].pc = "new" => open[o] = NewOpen /\ before[o] = {}
        /\ open[o].pc = "declare" => o \in rooms \ queues
        /\ open[o].pc = "done" /\ open[o].answer = o => o \in queues
        /\ open[o].pc = "done" /\ o \in rooms => open[o].answer = o
        /\ open[o].pc \in {"found", "create", "declare", "done"} =>
              {open[o].user1, open[o].user2} \subseteq signedUp

\* A request that goes on to create a room saw no room of its order.
NoneSeen ==
    \A o \in Opens : \A r \in before[o] :
        /\ r \in rooms
        /\ open[o].pc = "create" \/ o \in rooms => ~SameOrder(r, o)

RoomsInv ==
    /\ RoomsTypeOK
    /\ OpensSound
    /\ NoneSeen
    /\ NoTwinWithoutRace
    /\ AnswerIsUsable
=============================================================================
