-------------------------------- MODULE Chat --------------------------------
(***************************************************************************)
(* Chat between the two members of a room: presence, live broadcast and    *)
(* the RabbitMQ queue that keeps what was sent to an absent member.        *)
(*                                                                         *)
(* A session is one WebSocket connection.  Its SUBSCRIBE frame starts      *)
(* three things in no fixed order: the broker registers the subscription   *)
(* on a pool thread, and the container thread runs two listeners,          *)
(* WebSocketEventHandler.handleSubscribe, which records who is online, and *)
(* MessageListener.onUserSubscribed, which drains the room's queue.  A     *)
(* message is one SEND frame served by ChatMessageController.sendMessage.  *)
(***************************************************************************)
EXTENDS Naturals, Sequences

CONSTANTS
    Users,
    Rooms,
    User1, User2,   \* [Rooms -> Users], the room's creator and its guest
    Sessions,
    SessionUser,    \* [Sessions -> Users], whose client opened the session
    Messages,
    MaxCrashes,     \* bound on server crashes
    None            \* nobody, nothing

ASSUME ChatAssumption ==
    /\ User1 \in [Rooms -> Users] /\ User2 \in [Rooms -> Users]
    /\ SessionUser \in [Sessions -> Users]
    /\ MaxCrashes \in Nat
    /\ None \notin Users /\ None \notin Rooms /\ None \notin Messages

VARIABLES
    room,       \* each ChatRoom: row saved, queue bound to the exchange, or never to be bound
    queue,      \* RabbitMQ's queue of each room
    sess,       \* each WebSocket session
    presence,   \* WebSocketEventHandler.sessionUserMap
    joining,    \* subscriptions the broker has not registered yet
    subs,       \* subscriptions it has
    handler,    \* the SUBSCRIBE event a session's thread serves
    processed,  \* MessageListener.processedMessages
    msg,        \* each SEND and the ChatMessage row it makes
    copy,       \* where the queued copy of each message is
    got,        \* how often each session was given each message
    crashes

sessionVars == <<sess, presence, joining, subs>>
queueVars   == <<queue, copy>>
vars == <<room, queue, sess, presence, joining, subs, handler,
          processed, msg, copy, got, crashes>>

Listeners == {"identify", "drain"}
Handler == [pc   : {"idle", "dispatch", "identify", "drain", "deliver"},
            todo : SUBSET Listeners,
            room : Rooms \cup {None},
            user : Users \cup {None},
            held : Messages \cup {None}]
Idle == [pc |-> "idle", todo |-> {}, room |-> None, user |-> None, held |-> None]

Message == [pc     : {"new", "saved", "queued", "done"},
            room   : Rooms \cup {None},
            from   : Users \cup {None},
            online : BOOLEAN]
NotSent == [pc |-> "new", room |-> None, from |-> None, online |-> FALSE]

CopyPlace == {"none", "queue", "hand", "parked", "sent", "lost"}

TypeOK ==
    /\ room \in [Rooms -> {"saved", "bound", "orphan"}]
    /\ queue \in [Rooms -> Seq(Messages)]
    /\ sess \in [Sessions -> {"new", "open", "closed"}]
    /\ presence \in [Sessions -> Users \cup {None}]
    /\ joining \in [Sessions -> SUBSET Rooms]
    /\ subs \in [Sessions -> SUBSET Rooms]
    /\ handler \in [Sessions -> Handler]
    /\ processed \subseteq Messages
    /\ msg \in [Messages -> Message]
    /\ copy \in [Messages -> CopyPlace]
    /\ got \in [Sessions -> [Messages -> 0..2]]
    /\ crashes \in 0..MaxCrashes

Init ==
    /\ room = [r \in Rooms |-> "saved"]
    /\ queue = [r \in Rooms |-> <<>>]
    /\ sess = [s \in Sessions |-> "new"]
    /\ presence = [s \in Sessions |-> None]
    /\ joining = [s \in Sessions |-> {}]
    /\ subs = [s \in Sessions |-> {}]
    /\ handler = [s \in Sessions |-> Idle]
    /\ processed = {}
    /\ msg = [m \in Messages |-> NotSent]
    /\ copy = [m \in Messages |-> "none"]
    /\ got = [s \in Sessions |-> [m \in Messages |-> 0]]
    /\ crashes = 0

Members(r) == {User1[r], User2[r]}
Other(r, u) == IF u = User1[r] THEN User2[r] ELSE User1[r]
IsUserOnline(u) == \E s \in Sessions : presence[s] = u

\* convertAndSend to /sub/chat/room/r: whoever is registered at that moment.
Broadcast(m, r) ==
    got' = [s \in Sessions |->
              IF r \in subs[s] THEN [got[s] EXCEPT ![m] = @ + 1] ELSE got[s]]

-----------------------------------------------------------------------------
(* The end of ChatRoomService.findOrCreateChatRoom                          *)

DeclareQueue(r) ==
    /\ room[r] = "saved"
    /\ room' = [room EXCEPT ![r] = "bound"]
    /\ UNCHANGED <<queueVars, sessionVars, handler, processed, msg, got, crashes>>

\* RabbitMQ does not answer.  The row is committed; later calls find it and
\* return it without declaring anything.
DeclareQueueFails(r) ==
    /\ room[r] = "saved"
    /\ room' = [room EXCEPT ![r] = "orphan"]
    /\ UNCHANGED <<queueVars, sessionVars, handler, processed, msg, got, crashes>>

-----------------------------------------------------------------------------
(* Sessions                                                                 *)

\* A valid token puts its user into the thread's SecurityContext, which nobody
\* clears; without one the thread still has what an earlier CONNECT left there,
\* which may be any user, or nothing.
Connect(s, valid) ==
    /\ sess[s] = "new"
    /\ sess' = [sess EXCEPT ![s] = "open"]
    /\ \/ valid /\ presence' = [presence EXCEPT ![s] = SessionUser[s]]
       \/ ~valid /\ \E u \in Users \cup {None} : presence' = [presence EXCEPT ![s] = u]
    /\ UNCHANGED <<room, queueVars, joining, subs, handler, processed, msg, got, crashes>>

\* Frames of a session are served one after the other.
Subscribe(s, r) ==
    /\ sess[s] = "open" /\ handler[s].pc = "idle"
    /\ r \notin joining[s] \cup subs[s]
    /\ joining' = [joining EXCEPT ![s] = @ \cup {r}]
    /\ handler' = [handler EXCEPT ![s] =
                     [Idle EXCEPT !.pc = "dispatch", !.todo = Listeners, !.room = r]]
    /\ UNCHANGED <<room, queueVars, sess, presence, subs, processed, msg, got, crashes>>

Register(s, r) ==
    /\ r \in joining[s]
    /\ joining' = [joining EXCEPT ![s] = @ \ {r}]
    /\ subs' = [subs EXCEPT ![s] = @ \cup {r}]
    /\ UNCHANGED <<room, queueVars, sess, presence, handler, processed, msg, got, crashes>>

\* The connection may break while its SUBSCRIBE event is still served.
Disconnect(s) ==
    /\ sess[s] = "open"
    /\ sess' = [sess EXCEPT ![s] = "closed"]
    /\ presence' = [presence EXCEPT ![s] = None]
    /\ joining' = [joining EXCEPT ![s] = {}]
    /\ subs' = [subs EXCEPT ![s] = {}]
    /\ UNCHANGED <<room, queueVars, handler, processed, msg, got, crashes>>

\* A listener returns; after the last one the event is served.
Return(s, l) ==
    handler' = [handler EXCEPT ![s] =
                  IF @.todo = {l} THEN Idle
                  ELSE [Idle EXCEPT !.pc = "dispatch", !.todo = handler[s].todo \ {l},
                                    !.room = handler[s].room]]

\* handleSubscribe runs on a thread with its own leftover context: it returns, or
\* looks that user up in the database...
Identify(s) ==
    /\ handler[s].pc = "dispatch" /\ "identify" \in handler[s].todo
    /\ \/ Return(s, "identify")
       \/ \E u \in Users :
             handler' = [handler EXCEPT ![s] = [@ EXCEPT !.pc = "identify", !.user = u]]
    /\ UNCHANGED <<room, queueVars, sessionVars, processed, msg, got, crashes>>

\* ...and only then records it, whether or not the session is still there.
PutPresence(s) ==
    /\ handler[s].pc = "identify"
    /\ presence' = [presence EXCEPT ![s] = handler[s].user]
    /\ Return(s, "identify")
    /\ UNCHANGED <<room, queueVars, sess, joining, subs, processed, msg, got, crashes>>

-----------------------------------------------------------------------------
(* MessageListener.onUserSubscribed                                         *)

\* A session nobody is recorded for is left alone.  Reading a queue that was
\* never declared throws, and the listeners still to come are not called.
StartDrain(s) ==
    /\ handler[s].pc = "dispatch" /\ "drain" \in handler[s].todo
    /\ \/ /\ presence[s] = None
          /\ Return(s, "drain")
       \/ /\ presence[s] # None /\ room[handler[s].room] # "bound"
          /\ handler' = [handler EXCEPT ![s] = Idle]
       \/ /\ presence[s] # None /\ room[handler[s].room] = "bound"
          /\ handler' = [handler EXCEPT ![s] = [@ EXCEPT !.pc = "drain", !.user = presence[s]]]
    /\ UNCHANGED <<room, queueVars, sessionVars, processed, msg, got, crashes>>

\* Mutant: the message leaves the queue only when it is acknowledged, later.
PopWithoutAck(s) ==
    LET r == handler[s].room IN
    /\ handler[s].pc = "drain"
    /\ queue[r] # <<>>
    /\ copy' = [copy EXCEPT ![Head(queue[r])] = "hand"]
    /\ handler' = [handler EXCEPT ![s] = [@ EXCEPT !.pc = "deliver", !.held = Head(queue[r])]]
    /\ UNCHANGED <<room, queue, sessionVars, processed, msg, got, crashes>>

\* receiveAndConvert acknowledges the message as it takes it.
Pop(s) ==
    LET r == handler[s].room IN
    /\ handler[s].pc = "drain"
    /\ queue[r] # <<>>
    /\ queue' = [queue EXCEPT ![r] = Tail(@)]
    /\ copy' = [copy EXCEPT ![Head(queue[r])] = "hand"]
    /\ handler' = [handler EXCEPT ![s] = [@ EXCEPT !.pc = "deliver", !.held = Head(queue[r])]]
    /\ UNCHANGED <<room, sessionVars, processed, msg, got, crashes>>

\* The held message is for the user this drain serves and was not sent before.
IsForDrain(s) ==
    LET m == handler[s].held IN
    /\ Other(msg[m].room, msg[m].from) = handler[s].user
    /\ m \notin processed

KeepDraining(s) == handler' = [handler EXCEPT ![s] = [@ EXCEPT !.pc = "drain", !.held = None]]

\* Another drain under way races the add on the unsynchronised HashSet.
Deliver(s) ==
    LET m == handler[s].held IN
    /\ handler[s].pc = "deliver" /\ IsForDrain(s)
    /\ Broadcast(m, msg[m].room)
    /\ copy' = [copy EXCEPT ![m] = "sent"]
    /\ \/ processed' = processed \cup {m}
       \/ /\ \E t \in Sessions \ {s} : handler[t].pc = "deliver"
          /\ UNCHANGED processed
    /\ KeepDraining(s)
    /\ UNCHANGED <<room, queue, sessionVars, msg, crashes>>

\* Mutant: the condition before the send is dropped.
SendAnyway(s) ==
    /\ handler[s].pc = "deliver" /\ ~IsForDrain(s)
    /\ Broadcast(handler[s].held, msg[handler[s].held].room)
    /\ copy' = [copy EXCEPT ![handler[s].held] = "parked"]
    /\ KeepDraining(s)
    /\ UNCHANGED <<room, queue, sessionVars, processed, msg, crashes>>

\* Mutant: the message really goes back into the queue it came from.
PutBack(s) ==
    /\ handler[s].pc = "deliver" /\ ~IsForDrain(s)
    /\ copy' = [copy EXCEPT ![handler[s].held] = "queue"]
    /\ queue' = [queue EXCEPT ![handler[s].room] = Append(@, handler[s].held)]
    /\ KeepDraining(s)
    /\ UNCHANGED <<room, sessionVars, processed, msg, got, crashes>>

\* storeMessageForLater publishes to "chat.queue", which nobody reads.
StoreForLater(s) ==
    /\ handler[s].pc = "deliver" /\ ~IsForDrain(s)
    /\ copy' = [copy EXCEPT ![handler[s].held] = "parked"]
    /\ KeepDraining(s)
    /\ UNCHANGED <<room, queue, sessionVars, processed, msg, got, crashes>>

\* RabbitMQ does not answer, or MySQL when the message's room is looked up: the
\* exception ends the event, and a message in hand is gone.
DrainFails(s) ==
    /\ \/ handler[s].pc = "drain" /\ UNCHANGED copy
       \/ /\ handler[s].pc = "deliver"
          /\ copy' = [copy EXCEPT ![handler[s].held] = "lost"]
    /\ handler' = [handler EXCEPT ![s] = Idle]
    /\ UNCHANGED <<room, queue, sessionVars, processed, msg, got, crashes>>

\* The queue hands its head over, acknowledged, and the converter cannot read it
\* (MessageSendResponse has no constructor without arguments) or the answer is lost.
ReceiveFails(s) ==
    LET r == handler[s].room IN
    /\ handler[s].pc = "drain"
    /\ queue[r] # <<>>
    /\ queue' = [queue EXCEPT ![r] = Tail(@)]
    /\ copy' = [copy EXCEPT ![Head(queue[r])] = "lost"]
    /\ handler' = [handler EXCEPT ![s] = Idle]
    /\ UNCHANGED <<room, sessionVars, processed, msg, got, crashes>>

DrainEnds(s) ==
    /\ handler[s].pc = "drain"
    /\ queue[handler[s].room] = <<>>
    /\ Return(s, "drain")
    /\ UNCHANGED <<room, queueVars, sessionVars, processed, msg, got, crashes>>

-----------------------------------------------------------------------------
(* ChatMessageController.sendMessage, ChatMessageService.saveMessage        *)

\* checkRecipientOnline, then the INSERT, which nobody waits for.
SaveMessage(m, r, u) ==
    /\ msg[m].pc = "new"
    /\ u \in Members(r)
    /\ msg' = [msg EXCEPT ![m] = [pc |-> "saved", room |-> r, from |-> u,
                                  online |-> IsUserOnline(Other(r, u))]]
    /\ UNCHANGED <<room, queueVars, sessionVars, handler, processed, got, crashes>>

\* Mutant: whether the recipient was online is not asked.
QueueRegardless(m) ==
    LET r == msg[m].room IN
    /\ msg[m].pc = "saved" /\ room[r] = "bound"
    /\ msg' = [msg EXCEPT ![m].pc = "queued"]
    /\ queue' = [queue EXCEPT ![r] = Append(@, m)]
    /\ copy' = [copy EXCEPT ![m] = "queue"]
    /\ UNCHANGED <<room, sessionVars, handler, processed, got, crashes>>

\* An exchange drops what no queue is bound for.
SendMessageToQueue(m) ==
    LET r == msg[m].room IN
    /\ msg[m].pc = "saved" /\ ~msg[m].online
    /\ msg' = [msg EXCEPT ![m].pc = "queued"]
    /\ \/ /\ room[r] = "bound"
          /\ queue' = [queue EXCEPT ![r] = Append(@, m)]
          /\ copy' = [copy EXCEPT ![m] = "queue"]
       \/ /\ room[r] # "bound"
          /\ copy' = [copy EXCEPT ![m] = "lost"]
          /\ UNCHANGED queue
    /\ UNCHANGED <<room, sessionVars, handler, processed, got, crashes>>

\* RabbitMQ does not answer: the exception ends the call before the broadcast.
SendMessageToQueueFails(m) ==
    /\ msg[m].pc = "saved" /\ ~msg[m].online
    /\ msg' = [msg EXCEPT ![m].pc = "done"]
    /\ UNCHANGED <<room, queueVars, sessionVars, handler, processed, got, crashes>>

\* Mutant: a broadcast that went out is sent again.
SendAgain(m) ==
    /\ \/ msg[m].pc = "queued"
       \/ msg[m].pc = "saved" /\ msg[m].online
    /\ Broadcast(m, msg[m].room)
    /\ UNCHANGED <<room, queueVars, sessionVars, handler, processed, msg, crashes>>

SendLive(m) ==
    /\ \/ msg[m].pc = "queued"
       \/ msg[m].pc = "saved" /\ msg[m].online
    /\ msg' = [msg EXCEPT ![m].pc = "done"]
    /\ Broadcast(m, msg[m].room)
    /\ UNCHANGED <<room, queueVars, sessionVars, handler, processed, crashes>>

-----------------------------------------------------------------------------
\* The server dies.  MySQL and the durable queue keep what they have; a popped
\* message is acknowledged already and goes with the thread that held it.
Crash ==
    /\ crashes < MaxCrashes
    /\ crashes' = crashes + 1
    /\ room' = [r \in Rooms |-> IF room[r] = "saved" THEN "orphan" ELSE room[r]]
    /\ sess' = [s \in Sessions |-> IF sess[s] = "open" THEN "closed" ELSE sess[s]]
    /\ presence' = [s \in Sessions |-> None]
    /\ joining' = [s \in Sessions |-> {}]
    /\ subs' = [s \in Sessions |-> {}]
    /\ handler' = [s \in Sessions |-> Idle]
    /\ processed' = {}
    /\ msg' = [m \in Messages |-> IF msg[m].pc = "new" THEN msg[m] ELSE [msg[m] EXCEPT !.pc = "done"]]
    /\ copy' = [m \in Messages |-> IF copy[m] = "hand" THEN "lost" ELSE copy[m]]
    /\ UNCHANGED <<queue, got>>

RoomStep(r) == DeclareQueue(r) \/ DeclareQueueFails(r)

HandlerStep(s) ==
    \/ Identify(s)
    \/ PutPresence(s)
    \/ StartDrain(s)
    \/ Pop(s)
    \/ Deliver(s)
    \/ StoreForLater(s)
    \/ DrainFails(s)
    \/ ReceiveFails(s)
    \/ DrainEnds(s)

MessageStep(m) ==
    \/ SendMessageToQueue(m)
    \/ SendMessageToQueueFails(m)
    \/ SendLive(m)

Next ==
    \/ \E r \in Rooms : RoomStep(r)
    \/ \E s \in Sessions, valid \in BOOLEAN : Connect(s, valid)
    \/ \E s \in Sessions, r \in Rooms : Subscribe(s, r) \/ Register(s, r)
    \/ \E s \in Sessions : Disconnect(s) \/ HandlerStep(s)
    \/ \E m \in Messages, r \in Rooms, u \in Users : SaveMessage(m, r, u)
    \/ \E m \in Messages : MessageStep(m)
    \/ Crash

\* Threads keep running; clients need not do anything.
Fairness ==
    /\ \A r \in Rooms : WF_vars(RoomStep(r))
    /\ \A s \in Sessions : WF_vars(HandlerStep(s))
    /\ \A m \in Messages : WF_vars(MessageStep(m))

Spec == Init /\ [][Next]_vars
FairSpec == Spec /\ Fairness

-----------------------------------------------------------------------------
(* Properties                                                               *)

Delivering(s) == handler[s].pc = "deliver"

\* A queue holds a message once, and only the room's own.
InQueue ==
    \A r \in Rooms : \A i, j \in 1..Len(queue[r]) :
        /\ queue[r][i] = queue[r][j] => i = j
        /\ copy[queue[r][i]] = "queue"
        /\ msg[queue[r][i]].room = r

InOneHand ==
    /\ \A s \in Sessions : Delivering(s) => copy[handler[s].held] = "hand"
    /\ \A s, t \in Sessions :
          Delivering(s) /\ Delivering(t) /\ handler[s].held = handler[t].held => s = t

OnlyForOffline ==
    \A m \in Messages : copy[m] # "none" => msg[m].pc \in {"queued", "done"} /\ ~msg[m].online

\* However many drains, sends and crashes overlap, the queued copy of a message
\* is in one place: once in its own room's queue, or in the hand of one drain,
\* and only a message whose recipient looked offline has one
\* (ChatMessageService 54-57, MessageListener 67-82).
CopyInOnePlace == InQueue /\ InOneHand /\ OnlyForOffline

Broadcasts(m) == IF msg[m].pc = "done" THEN 1 ELSE 0
Drains(m) == IF copy[m] = "sent" THEN 1 ELSE 0

\* A session is given a message at most once by the sender's broadcast and once
\* by a drain, and only after the row was saved (sendMessage 74-77).
AtMostLiveAndQueued ==
    \A s \in Sessions, m \in Messages : got[s][m] <= Broadcasts(m) + Drains(m)

\* What a drain takes was never taken before, so processedMessages never filters
\* anything (MessageListener 74), whatever its unsynchronised adds lose.
FilterNeverBites ==
    \A s \in Sessions : Delivering(s) => handler[s].held \notin processed

\* How far the sender of a message got, and what became of its queued copy, as
\* the abstract specification tells them apart.
StageOf(m) ==
    CASE msg[m].pc = "saved"  -> IF msg[m].online THEN "live" ELSE "late"
      [] msg[m].pc = "queued" -> "stored"
      [] msg[m].pc = "done"   -> "over"
      [] OTHER -> "new"

StoredOf(m) ==
    CASE copy[m] \in {"queue", "hand"}  -> "waiting"
      [] copy[m] \in {"parked", "lost"} -> "lost"
      [] copy[m] = "sent" -> "handed"
      [] OTHER -> "none"

Channel == INSTANCE Delivery WITH
    NoRoom  <- None,
    stage   <- [m \in Messages |-> StageOf(m)],
    place   <- [m \in Messages |-> msg[m].room],
    stored  <- [m \in Messages |-> StoredOf(m)],
    present <- subs,
    given   <- got

\* A message served by three kinds of threads, RabbitMQ and a crash still
\* goes its way through Delivery: stored at most once, spoken once and after
\* that, handed over or lost once, to whoever listens to its room right then
\* (ChatMessageService 54-77, MessageListener 67-100).
ImplementsDelivery == Channel!DeliverySpec

\* A SUBSCRIBE event is served to the end: the drain loop terminates once nobody
\* publishes any more, however its pops interleave with another drain's and
\* whatever it may not deliver (MessageListener 67-82).
EverySubscribeEnds ==
    \A s \in Sessions : handler[s].pc # "idle" ~> handler[s].pc = "idle"

\* MessageListener 73-77: a message is taken off the queue and sent when its
\* receiver is connected to the room, so somebody is given it.
SentReachesSomebody ==
    \A m \in Messages : copy[m] = "sent" => \E s \in Sessions : got[s][m] > 0
-----------------------------------------------------------------------------
(* The inductive invariant                                                  *)

\* A listener at work knows its room, and while it delivers, its user too.
HandlersSound ==
    \A s \in Sessions :
        /\ handler[s].pc # "idle" => handler[s].room \in Rooms
        /\ handler[s].pc = "deliver" => handler[s].held \in Messages
        /\ handler[s].pc = "identify" => handler[s].user \in Users

\* What processedMessages remembers was taken off a queue and sent.
ProcessedWereSent == \A m \in processed : copy[m] = "sent"

\* All of this holds together: the count of deliveries follows the one place of
\* the copy, and what is in a queue or a hand is not remembered as sent.
ChatInv ==
    /\ TypeOK
    /\ HandlersSound
    /\ CopyInOnePlace
    /\ ProcessedWereSent
    /\ AtMostLiveAndQueued
=============================================================================
