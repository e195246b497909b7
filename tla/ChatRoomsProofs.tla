--------------------------- MODULE ChatRoomsProofs ---------------------------
(* RoomsInv is inductive, hence two rooms of one order come of a race only. *)
EXTENDS ChatRooms, TLAPS

LEMMA RoomsInitInv == RoomsInit => RoomsInv
  BY DEF RoomsInit, RoomsInv, RoomsTypeOK, OpensSound, NoneSeen, NoTwinWithoutRace,
         AnswerIsUsable, Open, NewOpen

\* A step that leaves rooms, queues and what requests saw alone, and moves one
\* request o that neither had a room nor gets one, keeps what the tables say.
LEMMA FindUsersInv ==
  ASSUME RoomsInv, NEW o \in Opens, NEW u \in Users, NEW v \in Users, FindUsers(o, u, v)
  PROVE  RoomsInv'
<1> DEFINE h == [NewOpen EXCEPT !.pc = IF {u, v} \subseteq signedUp THEN "found" ELSE "failed",
                                !.user1 = u, !.user2 = v]
<1>1. h \in Open /\ h.user1 = u /\ h.user2 = v /\ h.pc \in {"found", "failed"}
  BY DEF Open, NewOpen
<1>2. open[o].pc = "new" /\ open' = [open EXCEPT ![o] = h]
  BY DEF FindUsers
<1>3. UNCHANGED <<signedUp, rooms, queues, before>>
  BY DEF FindUsers
<1>4. o \notin rooms /\ before[o] = {}
  BY <1>2 DEF RoomsInv, OpensSound
<1>5. h.pc = "found" => {u, v} \subseteq signedUp
  BY DEF NewOpen
<1> HIDE DEF h
<1>6. RoomsTypeOK'
  BY <1>1, <1>2, <1>3 DEF RoomsInv, RoomsTypeOK
<1>7. OpensSound'
  BY <1>1, <1>2, <1>3, <1>4, <1>5 DEF RoomsInv, RoomsTypeOK, OpensSound
<1>8. NoneSeen'
  BY <1>1, <1>2, <1>3, <1>4 DEF RoomsInv, RoomsTypeOK, NoneSeen, SameOrder
<1>9. NoTwinWithoutRace'
  BY <1>2, <1>3, <1>4 DEF RoomsInv, RoomsTypeOK, NoTwinWithoutRace, SameOrder
<1>10. AnswerIsUsable'
  BY <1>1, <1>2, <1>3, <1>4 DEF RoomsInv, RoomsTypeOK, AnswerIsUsable, SameOrder, Crossed
<1> QED BY <1>6, <1>7, <1>8, <1>9, <1>10 DEF RoomsInv

LEMMA SignUpInv ==
  ASSUME RoomsInv, NEW u \in Users, SignUp(u)
  PROVE  RoomsInv'
<1>1. UNCHANGED <<open, rooms, queues, before>> /\ signedUp' = signedUp \cup {u}
  BY DEF SignUp
<1> QED
  BY <1>1 DEF RoomsInv, RoomsTypeOK, OpensSound, NoneSeen, NoTwinWithoutRace,
              AnswerIsUsable, SameOrder, Crossed

\* A room without a queue has a creator that is declaring it or has failed.
LEMMA RoomHasQueue ==
  ASSUME RoomsInv, NEW r \in rooms
  PROVE  r \in queues \/ open[r].pc \in {"declare", "failed"}
  BY DEF RoomsInv, RoomsTypeOK, OpensSound, Open

\* The users of a request never change once it has found them.
LEMMA FindRoomInv ==
  ASSUME RoomsInv, NEW o \in Opens, FindRoom(o)
  PROVE  RoomsInv'
<1>1. /\ open[o].pc = "found" /\ o \notin rooms
      /\ before' = [before EXCEPT ![o] = rooms]
      /\ UNCHANGED <<signedUp, rooms, queues>>
  BY DEF FindRoom, RoomsInv, OpensSound
<1>2. CASE \E r \in ExistingRooms(o) :
             open' = [open EXCEPT ![o] = [open[o] EXCEPT !.pc = "done", !.answer = r]]
  <2>1. PICK r \in ExistingRooms(o) :
             open' = [open EXCEPT ![o] = [open[o] EXCEPT !.pc = "done", !.answer = r]]
    BY <1>2
  <2> DEFINE h == [open[o] EXCEPT !.pc = "done", !.answer = r]
  <2>2. r \in rooms /\ (SameOrder(r, o) \/ Crossed(r, o)) /\ r # o
    BY <2>1, <1>1 DEF ExistingRooms
  <2>3. /\ h \in Open /\ h.pc = "done" /\ h.answer = r
        /\ h.user1 = open[o].user1 /\ h.user2 = open[o].user2
    BY <2>2 DEF RoomsInv, RoomsTypeOK, Open
  <2>4. open' = [open EXCEPT ![o] = h]
    BY <2>1
  <2> HIDE DEF h
  <2>5. RoomsTypeOK'
    BY <1>1, <2>3, <2>4 DEF RoomsInv, RoomsTypeOK
  <2>6. OpensSound'
    BY <1>1, <2>2, <2>3, <2>4 DEF RoomsInv, RoomsTypeOK, OpensSound
  <2>7. NoneSeen'
    BY <1>1, <2>3, <2>4 DEF RoomsInv, RoomsTypeOK, NoneSeen, SameOrder
  <2>8. NoTwinWithoutRace'
    BY <1>1, <2>3, <2>4 DEF RoomsInv, RoomsTypeOK, NoTwinWithoutRace, SameOrder
  <2>9. r \in queues \/ open[r].pc \in {"declare", "failed"}
    BY <1>1, <2>2, RoomHasQueue DEF RoomsInv, RoomsTypeOK
  <2>10. AnswerIsUsable'
    BY <1>1, <2>2, <2>3, <2>4, <2>9
       DEF RoomsInv, RoomsTypeOK, AnswerIsUsable, SameOrder, Crossed
  <2> QED BY <2>5, <2>6, <2>7, <2>8, <2>10 DEF RoomsInv
<1>3. CASE ExistingRooms(o) = {} /\ open' = [open EXCEPT ![o].pc = "create"]
  <2> DEFINE h == [open[o] EXCEPT !.pc = "create"]
  <2>1. /\ h \in Open /\ h.pc = "create"
        /\ h.user1 = open[o].user1 /\ h.user2 = open[o].user2
    BY DEF RoomsInv, RoomsTypeOK, Open
  <2>2. open' = [open EXCEPT ![o] = h]
    BY <1>3
  <2> HIDE DEF h
  <2>3. \A r \in rooms : ~SameOrder(r, o)
    BY <1>3 DEF ExistingRooms, Fetched, SameOrder
  <2>4. RoomsTypeOK'
    BY <1>1, <2>1, <2>2 DEF RoomsInv, RoomsTypeOK
  <2>5. OpensSound'
    BY <1>1, <2>1, <2>2 DEF RoomsInv, RoomsTypeOK, OpensSound
  <2>6. NoneSeen'
    BY <1>1, <2>1, <2>2, <2>3 DEF RoomsInv, RoomsTypeOK, NoneSeen, SameOrder
  <2>7. NoTwinWithoutRace'
    BY <1>1, <2>1, <2>2 DEF RoomsInv, RoomsTypeOK, NoTwinWithoutRace, SameOrder
  <2>8. AnswerIsUsable'
    BY <1>1, <2>1, <2>2 DEF RoomsInv, RoomsTypeOK, AnswerIsUsable, SameOrder, Crossed
  <2> QED BY <2>4, <2>5, <2>6, <2>7, <2>8 DEF RoomsInv
<1> QED BY <1>2, <1>3 DEF FindRoom

LEMMA SaveRoomInv ==
  ASSUME RoomsInv, NEW o \in Opens, SaveRoom(o)
  PROVE  RoomsInv'
<1> DEFINE h == [open[o] EXCEPT !.pc = "declare"]
<1>1. /\ open[o].pc = "create" /\ open' = [open EXCEPT ![o] = h]
      /\ rooms' = rooms \cup {o}
      /\ UNCHANGED <<signedUp, queues, before>>
  BY DEF SaveRoom
<1>2. /\ h \in Open /\ h.pc = "declare"
      /\ h.user1 = open[o].user1 /\ h.user2 = open[o].user2
  BY DEF RoomsInv, RoomsTypeOK, Open
<1> HIDE DEF h
<1>3. o \notin rooms /\ o \notin queues
  BY <1>1 DEF RoomsInv, RoomsTypeOK, OpensSound
<1>4. \A r \in before[o] : r \in rooms /\ ~SameOrder(r, o)
  BY <1>1 DEF RoomsInv, NoneSeen
<1>5. \A p \in Opens : o \notin before[p]
  BY <1>3 DEF RoomsInv, NoneSeen
<1>6. RoomsTypeOK'
  BY <1>1, <1>2 DEF RoomsInv, RoomsTypeOK
<1>7. OpensSound'
  BY <1>1, <1>2, <1>3 DEF RoomsInv, RoomsTypeOK, OpensSound
<1>8. NoneSeen'
  BY <1>1, <1>2, <1>4, <1>5 DEF RoomsInv, RoomsTypeOK, NoneSeen, SameOrder
<1>9. NoTwinWithoutRace'
  <2> SUFFICES ASSUME NEW r \in rooms', NEW s \in rooms', r # s, SameOrder(r, s)'
               PROVE  r \notin before[s] /\ s \notin before[r]
    BY <1>1 DEF NoTwinWithoutRace
  <2>1. SameOrder(r, s)
    BY <1>1, <1>2 DEF SameOrder, RoomsInv, RoomsTypeOK
  <2>2. SameOrder(s, r)
    BY <2>1 DEF SameOrder
  <2> QED BY <2>1, <2>2, <1>1, <1>4, <1>5 DEF RoomsInv, RoomsTypeOK, NoTwinWithoutRace
<1>10. AnswerIsUsable'
  BY <1>1, <1>2 DEF RoomsInv, RoomsTypeOK, AnswerIsUsable, SameOrder, Crossed
<1> QED BY <1>6, <1>7, <1>8, <1>9, <1>10 DEF RoomsInv

LEMMA CreateQueueInv ==
  ASSUME RoomsInv, NEW o \in Opens, CreateQueueAndBind(o)
  PROVE  RoomsInv'
<1> DEFINE h == [open[o] EXCEPT !.pc = "done", !.answer = o]
<1>1. /\ open[o].pc = "declare" /\ open' = [open EXCEPT ![o] = h]
      /\ queues' = queues \cup {o}
      /\ UNCHANGED <<signedUp, rooms, before>>
  BY DEF CreateQueueAndBind
<1>2. /\ h \in Open /\ h.pc = "done" /\ h.answer = o
      /\ h.user1 = open[o].user1 /\ h.user2 = open[o].user2
  BY DEF RoomsInv, RoomsTypeOK, Open
<1> HIDE DEF h
<1>3. o \in rooms
  BY <1>1 DEF RoomsInv, OpensSound
<1>4. RoomsTypeOK'
  BY <1>1, <1>2, <1>3 DEF RoomsInv, RoomsTypeOK
<1>5. OpensSound'
  BY <1>1, <1>2, <1>3 DEF RoomsInv, RoomsTypeOK, OpensSound
<1>6. NoneSeen'
  BY <1>1, <1>2 DEF RoomsInv, RoomsTypeOK, NoneSeen, SameOrder
<1>7. NoTwinWithoutRace'
  BY <1>1, <1>2 DEF RoomsInv, RoomsTypeOK, NoTwinWithoutRace, SameOrder
<1>8. AnswerIsUsable'
  BY <1>1, <1>2, <1>3 DEF RoomsInv, RoomsTypeOK, AnswerIsUsable, SameOrder, Crossed
<1> QED BY <1>4, <1>5, <1>6, <1>7, <1>8 DEF RoomsInv

LEMMA OpenFailsInv ==
  ASSUME RoomsInv, NEW o \in Opens, OpenFails(o)
  PROVE  RoomsInv'
<1> DEFINE h == [open[o] EXCEPT !.pc = "failed"]
<1>1. /\ open[o].pc \in {"found", "create", "declare"} /\ open' = [open EXCEPT ![o] = h]
      /\ UNCHANGED <<signedUp, rooms, queues, before>>
  BY DEF OpenFails
<1>2. /\ h \in Open /\ h.pc = "failed"
      /\ h.user1 = open[o].user1 /\ h.user2 = open[o].user2
  BY DEF RoomsInv, RoomsTypeOK, Open
<1> HIDE DEF h
<1>3. RoomsTypeOK'
  BY <1>1, <1>2 DEF RoomsInv, RoomsTypeOK
<1>4. OpensSound'
  BY <1>1, <1>2 DEF RoomsInv, RoomsTypeOK, OpensSound
<1>5. NoneSeen'
  BY <1>1, <1>2 DEF RoomsInv, RoomsTypeOK, NoneSeen, SameOrder
<1>6. NoTwinWithoutRace'
  BY <1>1, <1>2 DEF RoomsInv, RoomsTypeOK, NoTwinWithoutRace, SameOrder
<1>7. AnswerIsUsable'
  BY <1>1, <1>2 DEF RoomsInv, RoomsTypeOK, AnswerIsUsable, SameOrder, Crossed
<1> QED BY <1>3, <1>4, <1>5, <1>6, <1>7 DEF RoomsInv

LEMMA RoomsStutter ==
  ASSUME RoomsInv, UNCHANGED roomVars
  PROVE  RoomsInv'
  BY DEF RoomsInv, RoomsTypeOK, OpensSound, NoneSeen, NoTwinWithoutRace, AnswerIsUsable,
         SameOrder, Crossed, roomVars

LEMMA RoomsStepInv == RoomsInv /\ [RoomsNext]_roomVars => RoomsInv'
<1> SUFFICES ASSUME RoomsInv, [RoomsNext]_roomVars PROVE RoomsInv'
  OBVIOUS
<1>1. CASE \E u \in Users : SignUp(u)
  BY <1>1, SignUpInv
<1>2. CASE \E o \in Opens, u, v \in Users : FindUsers(o, u, v)
  BY <1>2, FindUsersInv
<1>3. ASSUME NEW o \in Opens,
             FindRoom(o) \/ SaveRoom(o) \/ CreateQueueAndBind(o) \/ OpenFails(o)
      PROVE  RoomsInv'
  BY <1>3, FindRoomInv, SaveRoomInv, CreateQueueInv, OpenFailsInv
<1>4. CASE UNCHANGED roomVars
  BY <1>4, RoomsStutter
<1> QED BY <1>1, <1>2, <1>3, <1>4 DEF RoomsNext

\* The inductive invariant of ChatRooms holds for any users and requests.
THEOREM RoomsInvariant == RoomsSpec => []RoomsInv
  BY RoomsInitInv, RoomsStepInv, PTL DEF RoomsSpec

\* Rooms opened in one order are doubled by requests that ran at once only
\* (findOrCreateChatRoom has no unique key to rely on).
THEOREM TwinsNeedARace == RoomsSpec => []NoTwinWithoutRace
<1>1. RoomsInv => NoTwinWithoutRace
  BY DEF RoomsInv
<1> QED BY <1>1, RoomsInvariant, PTL

\* The room answered is one of the two users, with its queue unless its creator
\* is still declaring it or has failed.
THEOREM AnswersAreUsable == RoomsSpec => []AnswerIsUsable
<1>1. RoomsInv => AnswerIsUsable
  BY DEF RoomsInv
<1> QED BY <1>1, RoomsInvariant, PTL

-----------------------------------------------------------------------------
(* The two sides of a chat                                                  *)

\* The search and the filter together leave the rooms of one order.
LEMMA FoundAreOwn ==
  ASSUME NEW o \in Opens, NEW r \in ExistingRooms(o)
  PROVE  r \in rooms /\ SameOrder(r, o)
BY DEF ExistingRooms, Fetched, SameOrder, Crossed

\* A step keeps the users of every request that has found them, and answers only
\* a room of the same order.
LEMMA OwnSideStep ==
  ASSUME RoomsInv, AnsweredOwnSide, [RoomsNext]_roomVars
  PROVE  AnsweredOwnSide'
<1>1. ASSUME NEW o \in Opens, NEW h \in Open, open' = [open EXCEPT ![o] = h],
             h.pc = "done" => h.answer = o \/ (h.answer \in rooms \ {o} /\ SameOrder(h.answer, o)),
             \/ open[o].pc = "new" /\ h.pc # "done"
             \/ h.user1 = open[o].user1 /\ h.user2 = open[o].user2
      PROVE  AnsweredOwnSide'
  <2>1. \A n \in Opens \ {o} : open'[n] = open[n]
    BY <1>1
  <2>2. open'[o] = h
    BY <1>1 DEF RoomsInv, RoomsTypeOK
  <2>3. \A n \in Opens : open[n].pc = "done" => open[n].answer \in rooms
    BY DEF RoomsInv, AnswerIsUsable
  <2>4. open[o].pc = "new" => o \notin rooms
    BY DEF RoomsInv, OpensSound
  <2>5. ASSUME NEW n \in Opens \ {o}, open[n].pc = "done" PROVE SameOrder(open[n].answer, n)'
    <3>1. SameOrder(open[n].answer, n) /\ open[n].answer \in rooms /\ open[n].answer \in Opens
      BY <2>3, <2>5 DEF AnsweredOwnSide, RoomsInv, RoomsTypeOK
    <3>2. CASE open[n].answer = o
      BY <3>1, <3>2, <2>1, <2>2, <2>4, <1>1 DEF SameOrder
    <3>3. CASE open[n].answer # o
      BY <3>1, <3>3, <2>1 DEF SameOrder
    <3> QED BY <3>2, <3>3
  <2>6. h.pc = "done" => SameOrder(open[o].answer, o)'
    <3>1. SUFFICES ASSUME h.pc = "done" PROVE SameOrder(h.answer, o)'
      BY <2>2
    <3>2. CASE h.answer = o
      BY <3>2, <2>2 DEF SameOrder
    <3>3. CASE h.answer \in rooms \ {o} /\ SameOrder(h.answer, o)
      <4>1. open'[h.answer] = open[h.answer]
        BY <3>3, <2>1 DEF RoomsInv, RoomsTypeOK
      <4>2. h.user1 = open[o].user1 /\ h.user2 = open[o].user2
        BY <3>1, <1>1
      <4>3. /\ open'[h.answer].user1 = open'[o].user1
            /\ open'[h.answer].user2 = open'[o].user2
        BY <3>3, <4>1, <4>2, <2>2 DEF SameOrder
      <4> QED BY <4>3 DEF SameOrder
    <3> QED BY <3>1, <3>2, <3>3, <1>1
  <2> QED BY <2>1, <2>2, <2>5, <2>6 DEF AnsweredOwnSide
<1>2. ASSUME NEW o \in Opens, NEW u \in Users, NEW v \in Users, FindUsers(o, u, v)
      PROVE  AnsweredOwnSide'
  <2> DEFINE h == [NewOpen EXCEPT !.pc = IF {u, v} \subseteq signedUp THEN "found" ELSE "failed",
                                  !.user1 = u, !.user2 = v]
  <2>1. h \in Open /\ h.pc # "done"
    BY DEF Open, NewOpen
  <2>2. open[o].pc = "new" /\ open' = [open EXCEPT ![o] = h]
    BY <1>2 DEF FindUsers
  <2> QED BY <1>1, <2>1, <2>2
<1>3. ASSUME NEW o \in Opens, FindRoom(o) PROVE AnsweredOwnSide'
  <2>1. open[o].pc = "found" /\ o \notin rooms
    BY <1>3 DEF FindRoom, RoomsInv, OpensSound
  <2>2. ASSUME NEW r \in ExistingRooms(o),
               open' = [open EXCEPT ![o] = [open[o] EXCEPT !.pc = "done", !.answer = r]]
        PROVE  AnsweredOwnSide'
    <3> DEFINE h == [open[o] EXCEPT !.pc = "done", !.answer = r]
    <3>1. r \in rooms \ {o} /\ r \in Opens /\ SameOrder(r, o)
      BY <2>1, FoundAreOwn DEF RoomsInv, RoomsTypeOK
    <3>2. /\ h \in Open /\ h.answer = r
          /\ h.user1 = open[o].user1 /\ h.user2 = open[o].user2
      BY <3>1 DEF RoomsInv, RoomsTypeOK, Open
    <3> QED BY <1>1, <2>2, <3>1, <3>2
  <2>3. CASE open' = [open EXCEPT ![o].pc = "create"]
    <3> DEFINE h == [open[o] EXCEPT !.pc = "create"]
    <3>1. /\ h \in Open /\ h.pc # "done"
          /\ h.user1 = open[o].user1 /\ h.user2 = open[o].user2
      BY DEF RoomsInv, RoomsTypeOK, Open
    <3>2. open' = [open EXCEPT ![o] = h]
      BY <2>3
    <3> QED BY <1>1, <3>1, <3>2
  <2> QED BY <1>3, <2>2, <2>3 DEF FindRoom
<1>4. ASSUME NEW o \in Opens, NEW s \in {"declare", "failed"}, open' = [open EXCEPT ![o].pc = s]
      PROVE  AnsweredOwnSide'
  <2> DEFINE h == [open[o] EXCEPT !.pc = s]
  <2>1. /\ h \in Open /\ h.pc # "done"
        /\ h.user1 = open[o].user1 /\ h.user2 = open[o].user2
    BY DEF RoomsInv, RoomsTypeOK, Open
  <2>2. open' = [open EXCEPT ![o] = h]
    BY <1>4
  <2> QED BY <1>1, <2>1, <2>2
<1>5. ASSUME NEW o \in Opens, CreateQueueAndBind(o) PROVE AnsweredOwnSide'
  <2> DEFINE h == [open[o] EXCEPT !.pc = "done", !.answer = o]
  <2>1. /\ h \in Open /\ h.answer = o
        /\ h.user1 = open[o].user1 /\ h.user2 = open[o].user2
    BY DEF RoomsInv, RoomsTypeOK, Open
  <2>2. open' = [open EXCEPT ![o] = h]
    BY <1>5 DEF CreateQueueAndBind
  <2> QED BY <1>1, <2>1, <2>2
<1>6. CASE open' = open
  BY <1>6 DEF AnsweredOwnSide, SameOrder
<1> QED BY <1>2, <1>3, <1>4, <1>5, <1>6 DEF RoomsNext, roomVars, SignUp, SaveRoom, OpenFails

\* Whoever asks, and however many have asked at once: a request is answered a room
\* opened in its own order only.  So the two users of a chat never meet in a room
\* when each opens it for himself.
THEOREM SidesNeverMeet == RoomsSpec => []AnsweredOwnSide
<1>1. RoomsInit => AnsweredOwnSide
  BY DEF RoomsInit, AnsweredOwnSide, NewOpen
<1> QED BY <1>1, OwnSideStep, RoomsInvariant, PTL DEF RoomsSpec
==============================================================================
