----------------------------- MODULE ChatProofs -----------------------------
(* Theorems about Chat, for any number of rooms, sessions and messages.    *)
EXTENDS Chat, SequenceTheorems, TLAPS

USE ChatAssumption

\* The queue of a room loses its head: what is left, and where.
LEMMA TailOf ==
    ASSUME NEW q \in Seq(Messages), q # <<>>
    PROVE  /\ Head(q) \in Messages /\ Head(q) = q[1] /\ 1 \in 1..Len(q)
           /\ Tail(q) \in Seq(Messages)
           /\ \A i \in 1..Len(Tail(q)) : i + 1 \in 1..Len(q) /\ Tail(q)[i] = q[i + 1]
           /\ Len(Tail(q)) = Len(q) - 1
<1>1. Len(q) \in Nat /\ Len(q) # 0
  BY EmptySeq, LenProperties
<1> QED
  BY <1>1, HeadTailProperties

LEMMA AppendTo ==
    ASSUME NEW q \in Seq(Messages), NEW m \in Messages
    PROVE  /\ Append(q, m) \in Seq(Messages)
           /\ \A i \in 1..Len(Append(q, m)) :
                 \/ i \in 1..Len(q) /\ Append(q, m)[i] = q[i]
                 \/ i = Len(q) + 1 /\ Append(q, m)[i] = m
<1>1. Len(q) \in Nat
  BY LenProperties
<1> QED
  BY <1>1, AppendProperties

LEMMA IdleType == Idle \in Handler
BY DEF Idle, Handler

\* A handler between two listeners.
LEMMA DispatchFields ==
    ASSUME NEW todo \in SUBSET Listeners, NEW r \in Rooms \cup {None}
    PROVE  /\ [Idle EXCEPT !.pc = "dispatch", !.todo = todo, !.room = r] \in Handler
           /\ [Idle EXCEPT !.pc = "dispatch", !.todo = todo, !.room = r].pc = "dispatch"
           /\ [Idle EXCEPT !.pc = "dispatch", !.todo = todo, !.room = r].room = r
BY DEF Handler, Idle

LEMMA InitInv == Init => ChatInv
<1> SUFFICES ASSUME Init PROVE ChatInv
  OBVIOUS
<1>1. TypeOK
  BY IdleType, EmptySeq DEF Init, TypeOK, NotSent, Message, CopyPlace
<1>2. \A s \in Sessions : handler[s].pc = "idle"
  BY DEF Init, Idle
<1>3. \A r \in Rooms : Len(queue[r]) = 0
  BY EmptySeq DEF Init
<1>4. InQueue
  BY <1>3 DEF InQueue
<1>5. InOneHand /\ HandlersSound
  BY <1>2 DEF InOneHand, HandlersSound, Delivering
<1>6. OnlyForOffline /\ ProcessedWereSent
  BY DEF Init, OnlyForOffline, ProcessedWereSent
<1>7. AtMostLiveAndQueued
  BY DEF Init, AtMostLiveAndQueued, Broadcasts, Drains, NotSent
<1> QED
  BY <1>1, <1>4, <1>5, <1>6, <1>7 DEF ChatInv, CopyInOnePlace

-----------------------------------------------------------------------------
(* Each step keeps the invariant                                            *)

\* The conjuncts that do not speak of the handlers.
Rows == InQueue /\ OnlyForOffline /\ ProcessedWereSent /\ AtMostLiveAndQueued

\* A listener's step that takes no message and holds none afterwards.
LEMMA QuietHandler ==
    ASSUME ChatInv, NEW s \in Sessions, NEW h \in Handler,
           handler' = [handler EXCEPT ![s] = h],
           h.pc # "deliver",
           h.pc # "idle" => h.room \in Rooms,
           h.pc = "identify" => h.user \in Users,
           UNCHANGED copy
    PROVE  handler' \in [Sessions -> Handler] /\ HandlersSound' /\ InOneHand'
<1> USE DEF ChatInv, TypeOK
<1>1. handler'[s] = h /\ \A t \in Sessions : t # s => handler'[t] = handler[t]
  OBVIOUS
<1>2. HandlersSound'
  BY <1>1 DEF HandlersSound
<1>3. InOneHand'
  BY <1>1 DEF CopyInOnePlace, InOneHand, Delivering
<1> QED
  BY <1>2, <1>3

LEMMA ReturnKeeps ==
    ASSUME ChatInv, NEW s \in Sessions, NEW l \in Listeners,
           handler[s].pc # "idle", Return(s, l), UNCHANGED copy
    PROVE  handler' \in [Sessions -> Handler] /\ HandlersSound' /\ InOneHand'
<1> DEFINE rest == [Idle EXCEPT !.pc = "dispatch", !.todo = handler[s].todo \ {l},
                                !.room = handler[s].room]
           h == IF handler[s].todo = {l} THEN Idle ELSE rest
<1>1. handler[s] \in Handler /\ handler[s].room \in Rooms
  BY DEF ChatInv, TypeOK, HandlersSound
<1>2. handler[s].todo \ {l} \in SUBSET Listeners
  BY <1>1 DEF Handler
<1>3. rest \in Handler /\ rest.pc = "dispatch" /\ rest.room \in Rooms
  BY <1>1, <1>2, DispatchFields
<1>4. Idle \in Handler /\ Idle.pc = "idle"
  BY IdleType DEF Idle
<1>5. h \in Handler /\ h.pc \in {"idle", "dispatch"} /\ (h.pc # "idle" => h.room \in Rooms)
  BY <1>3, <1>4
<1>6. handler' = [handler EXCEPT ![s] = h]
  BY DEF Return
<1> HIDE DEF h
<1> QED
  BY <1>5, <1>6, QuietHandler

LEMMA RowsKept ==
    ASSUME Rows, UNCHANGED <<queueVars, processed, msg, got>>
    PROVE  Rows'
BY DEF Rows, InQueue, OnlyForOffline, ProcessedWereSent, AtMostLiveAndQueued, Broadcasts,
       Drains, queueVars

LEMMA AtMostTwo ==
    ASSUME NEW x \in Nat, NEW a \in 0..1, NEW b \in 0..1, x <= a + b
    PROVE  x \in 0..2
OBVIOUS

\* How a counted delivery stays in its type.
LEMMA CountsTyped ==
    ASSUME AtMostLiveAndQueued', got' \in [Sessions -> [Messages -> Nat]]
    PROVE  got' \in [Sessions -> [Messages -> 0..2]]
<1>1. ASSUME NEW s \in Sessions, NEW m \in Messages PROVE got'[s][m] \in 0..2
  <2>1. got'[s][m] <= Broadcasts(m)' + Drains(m)'
    BY DEF AtMostLiveAndQueued
  <2>2. Broadcasts(m)' \in 0..1 /\ Drains(m)' \in 0..1 /\ got'[s][m] \in Nat
    BY DEF Broadcasts, Drains
  <2> QED
    BY ONLY <2>1, <2>2, AtMostTwo
<1>2. ASSUME NEW s \in Sessions PROVE got'[s] \in [Messages -> 0..2]
  <2>1. got'[s] \in [Messages -> Nat]
    OBVIOUS
  <2> QED
    BY <1>1, <2>1
<1> QED
  BY <1>2

LEMMA CountUp ==
    ASSUME NEW g \in [Messages -> 0..2], NEW m \in Messages,
           NEW h, h = [g EXCEPT ![m] = g[m] + 1] \/ h = g
    PROVE  /\ h \in [Messages -> Nat]
           /\ \A n \in Messages : n # m => h[n] = g[n]
           /\ h[m] <= g[m] + 1
OBVIOUS

LEMMA BroadcastCounts ==
    ASSUME TypeOK, NEW m \in Messages, NEW r, Broadcast(m, r)
    PROVE  /\ got' \in [Sessions -> [Messages -> Nat]]
           /\ \A s \in Sessions, n \in Messages : n # m => got'[s][n] = got[s][n]
           /\ \A s \in Sessions : got'[s][m] <= got[s][m] + 1
<1>1. ASSUME NEW s \in Sessions
      PROVE  /\ got'[s] \in [Messages -> Nat]
             /\ \A n \in Messages : n # m => got'[s][n] = got[s][n]
             /\ got'[s][m] <= got[s][m] + 1
  <2>1. got[s] \in [Messages -> 0..2]
    BY DEF TypeOK
  <2>2. got'[s] = [got[s] EXCEPT ![m] = got[s][m] + 1] \/ got'[s] = got[s]
    BY DEF Broadcast
  <2> QED
    BY ONLY <2>1, <2>2, m \in Messages, CountUp
<1>2. got' = [s \in Sessions |-> got'[s]]
  BY DEF Broadcast
<1> QED
  BY <1>1, <1>2

\* A delivering listener lets its message go: wherever it goes, nobody else has it.
LEMMA LetGo ==
    ASSUME ChatInv, NEW s \in Sessions, Delivering(s), NEW h \in Handler,
           handler' = [handler EXCEPT ![s] = h], h.pc \in {"drain", "idle"},
           h.room = handler[s].room \/ h.pc = "idle",
           NEW c \in {"parked", "lost", "sent"},
           copy' = [copy EXCEPT ![handler[s].held] = c],
           UNCHANGED <<queue, msg>>
    PROVE  /\ handler' \in [Sessions -> Handler] /\ copy' \in [Messages -> CopyPlace]
           /\ HandlersSound' /\ CopyInOnePlace'
           /\ \A m \in processed : copy'[m] = "sent"
<1> DEFINE m == handler[s].held
<1> USE DEF ChatInv, TypeOK
<1>1. m \in Messages /\ copy[m] = "hand" /\ handler[s].room \in Rooms
  BY DEF HandlersSound, CopyInOnePlace, InOneHand, Delivering
<1>2. handler'[s] = h /\ \A t \in Sessions : t # s => handler'[t] = handler[t]
  OBVIOUS
<1>3. copy'[m] = c /\ \A n \in Messages : n # m => copy'[n] = copy[n]
  BY <1>1
<1>4. HandlersSound'
  BY <1>1, <1>2 DEF HandlersSound
<1>5. InOneHand'
  BY <1>1, <1>2, <1>3 DEF CopyInOnePlace, InOneHand, Delivering, HandlersSound
<1>6. InQueue'
  <2>1. ASSUME NEW r \in Rooms, NEW i \in 1..Len(queue[r])
        PROVE  queue[r][i] \in Messages /\ queue[r][i] # m
    <3>1. queue[r][i] \in Messages
      BY ElementOfSeq
    <3> QED
      BY <1>1, <2>1, <3>1 DEF CopyInOnePlace, InQueue
  <2> QED
    BY <1>3, <2>1 DEF CopyInOnePlace, InQueue
<1>7. OnlyForOffline'
  BY <1>1, <1>3 DEF CopyInOnePlace, OnlyForOffline
<1>8. \A n \in processed : copy'[n] = "sent"
  BY <1>1, <1>3 DEF ProcessedWereSent
<1>9. copy' \in [Messages -> CopyPlace]
  BY <1>1 DEF CopyPlace
<1> QED
  BY <1>2, <1>4, <1>5, <1>6, <1>7, <1>8, <1>9 DEF CopyInOnePlace

\* The head of a queue is taken: nobody else has it, and no queue has it any more.
LEMMA TakeHead ==
    ASSUME ChatInv, NEW r \in Rooms, queue[r] # <<>>, NEW c \in {"hand", "lost"},
           queue' = [queue EXCEPT ![r] = Tail(queue[r])],
           copy' = [copy EXCEPT ![Head(queue[r])] = c],
           UNCHANGED <<msg, processed, got>>
    PROVE  /\ Head(queue[r]) \in Messages /\ copy[Head(queue[r])] = "queue"
           /\ queue' \in [Rooms -> Seq(Messages)] /\ copy' \in [Messages -> CopyPlace]
           /\ InQueue' /\ OnlyForOffline' /\ ProcessedWereSent' /\ AtMostLiveAndQueued'
<1> DEFINE m == Head(queue[r])
<1> USE DEF ChatInv, TypeOK
<1>1. /\ queue[r] \in Seq(Messages)
      /\ m \in Messages /\ m = queue[r][1] /\ 1 \in 1..Len(queue[r])
      /\ Tail(queue[r]) \in Seq(Messages)
      /\ \A i \in 1..Len(Tail(queue[r])) :
            i + 1 \in 1..Len(queue[r]) /\ i + 1 # 1 /\ Tail(queue[r])[i] = queue[r][i + 1]
  BY TailOf, LenProperties
<1>2. copy[m] = "queue" /\ msg[m].room = r
  BY <1>1 DEF CopyInOnePlace, InQueue
<1> HIDE DEF m
<1>3. copy'[m] = c /\ \A n \in Messages : n # m => copy'[n] = copy[n]
  BY <1>1 DEF m
<1>4. InQueue'
  <2>1. ASSUME NEW q \in Rooms, q # r, NEW i \in 1..Len(queue[q])
        PROVE  queue[q][i] \in Messages /\ queue[q][i] # m
    <3>1. queue[q][i] \in Messages
      BY ElementOfSeq
    <3>2. msg[queue[q][i]].room = q
      BY <2>1 DEF CopyInOnePlace, InQueue
    <3> QED
      BY <1>2, <2>1, <3>1, <3>2
  <2>2. ASSUME NEW q \in Rooms, q # r, NEW i \in 1..Len(queue'[q]), NEW j \in 1..Len(queue'[q])
        PROVE  /\ queue'[q][i] = queue'[q][j] => i = j
               /\ copy'[queue'[q][i]] = "queue" /\ msg'[queue'[q][i]].room = q
    <3>1. queue'[q] = queue[q]
      BY <2>2
    <3> QED
      BY <1>3, <2>1, <2>2, <3>1 DEF CopyInOnePlace, InQueue
  <2>3. ASSUME NEW i \in 1..Len(queue'[r]), NEW j \in 1..Len(queue'[r])
        PROVE  /\ queue'[r][i] = queue'[r][j] => i = j
               /\ copy'[queue'[r][i]] = "queue" /\ msg'[queue'[r][i]].room = r
    <3>1. queue'[r] = Tail(queue[r])
      BY <1>1
    <3>2. /\ i + 1 \in 1..Len(queue[r]) /\ i + 1 # 1 /\ queue'[r][i] = queue[r][i + 1]
          /\ j + 1 \in 1..Len(queue[r]) /\ queue'[r][j] = queue[r][j + 1]
      BY <1>1, <2>3, <3>1
    <3>3. queue'[r][i] \in Messages /\ queue'[r][i] # m
      <4>1. queue[r][i + 1] \in Messages
        BY <1>1, <3>2, ElementOfSeq
      <4>2. queue[r][i + 1] # queue[r][1]
        BY <1>1, <3>2 DEF CopyInOnePlace, InQueue
      <4> QED
        BY <1>1, <3>2, <4>1, <4>2
    <3>4. queue[r][i + 1] = queue[r][j + 1] => i + 1 = j + 1
      BY <1>1, <3>2 DEF CopyInOnePlace, InQueue
    <3>5. i \in Int /\ j \in Int
      BY <2>3
    <3>6. copy[queue[r][i + 1]] = "queue" /\ msg[queue[r][i + 1]].room = r
      BY <1>1, <3>2 DEF CopyInOnePlace, InQueue
    <3> QED
      BY <1>3, <3>2, <3>3, <3>4, <3>5, <3>6
  <2>4. ASSUME NEW q \in Rooms, NEW i \in 1..Len(queue'[q]), NEW j \in 1..Len(queue'[q])
        PROVE  /\ queue'[q][i] = queue'[q][j] => i = j
               /\ copy'[queue'[q][i]] = "queue" /\ msg'[queue'[q][i]].room = q
    <3>1. CASE q = r
      BY <2>3, <2>4, <3>1
    <3>2. CASE q # r
      BY <2>2, <2>4, <3>2
    <3> QED
      BY <3>1, <3>2
  <2> QED
    BY <2>4 DEF InQueue
<1>5. OnlyForOffline' /\ ProcessedWereSent'
  BY <1>2, <1>3 DEF CopyInOnePlace, OnlyForOffline, ProcessedWereSent
<1>6. AtMostLiveAndQueued'
  BY <1>2, <1>3 DEF AtMostLiveAndQueued, Broadcasts, Drains
<1>7. queue' \in [Rooms -> Seq(Messages)] /\ copy' \in [Messages -> CopyPlace]
  BY <1>1 DEF CopyPlace, m
<1> QED
  BY <1>1, <1>2, <1>4, <1>5, <1>6, <1>7 DEF m

LEMMA PopKeeps ==
    ASSUME ChatInv, NEW s \in Sessions, Pop(s)
    PROVE  ChatInv'
<1> DEFINE r == handler[s].room
           m == Head(queue[r])
           h == [handler[s] EXCEPT !.pc = "deliver", !.held = m]
<1> USE DEF ChatInv, TypeOK
<1>1. handler[s] \in Handler /\ r \in Rooms /\ queue[r] \in Seq(Messages) /\ queue[r] # <<>>
  BY DEF Pop, HandlersSound
<1>2. /\ m \in Messages /\ copy[m] = "queue"
      /\ queue' \in [Rooms -> Seq(Messages)] /\ copy' \in [Messages -> CopyPlace]
      /\ InQueue' /\ OnlyForOffline' /\ ProcessedWereSent' /\ AtMostLiveAndQueued'
  BY <1>1, TakeHead DEF Pop
<1>3. h \in Handler /\ h.pc = "deliver" /\ h.room = r /\ h.held = m
  <2>1. h = [handler[s] EXCEPT !.pc = "deliver", !.held = m]
    OBVIOUS
  <2> HIDE DEF h, m
  <2>2. m \in Messages \cup {None} /\ "deliver" \in {"drain", "deliver"}
    BY <1>2
  <2> QED
    BY <1>1, <2>1, <2>2 DEF Handler
<1>4. /\ handler' = [handler EXCEPT ![s] = h]
      /\ queue' = [queue EXCEPT ![r] = Tail(queue[r])]
      /\ copy' = [copy EXCEPT ![m] = "hand"]
      /\ UNCHANGED <<room, sessionVars, processed, msg, got, crashes>>
  BY DEF Pop
<1> HIDE DEF h, m
<1>6. handler'[s] = h /\ \A t \in Sessions : t # s => handler'[t] = handler[t]
  BY <1>4
<1>7. copy'[m] = "hand" /\ \A n \in Messages : n # m => copy'[n] = copy[n]
  BY <1>2, <1>4
<1>8. TypeOK'
  BY <1>1, <1>2, <1>3, <1>4 DEF CopyPlace, sessionVars
<1>9. HandlersSound'
  BY <1>1, <1>2, <1>3, <1>6 DEF HandlersSound
<1>10. InOneHand'
  <2>1. \A t \in Sessions : Delivering(t) =>
           /\ handler[t].held \in Messages /\ copy[handler[t].held] = "hand"
           /\ handler[t].held # m
    BY <1>2 DEF CopyInOnePlace, InOneHand, Delivering, HandlersSound
  <2>2. \A t \in Sessions : Delivering(t)' => t = s \/ Delivering(t)
    BY <1>6 DEF Delivering
  <2>3. \A t \in Sessions : Delivering(t)' => copy'[handler'[t].held] = "hand"
    <3>1. \A t \in Sessions \ {s} : Delivering(t)' => copy'[handler'[t].held] = "hand"
      BY <1>6, <1>7, <2>1, <2>2
    <3> QED
      BY <1>3, <1>6, <1>7, <3>1
  <2>4. ASSUME NEW t \in Sessions, NEW e \in Sessions, Delivering(t)', Delivering(e)',
               handler'[t].held = handler'[e].held
        PROVE  t = e
    <3>1. CASE t # s /\ e # s
      <4>1. handler'[t] = handler[t] /\ handler'[e] = handler[e]
        BY <1>6, <3>1
      <4>2. Delivering(t) /\ Delivering(e)
        BY <2>2, <2>4, <3>1
      <4> QED
        BY <2>4, <4>1, <4>2 DEF CopyInOnePlace, InOneHand
    <3>2. CASE t = s \/ e = s
      BY <1>3, <1>6, <2>1, <2>2, <2>4, <3>2
    <3> QED
      BY <3>1, <3>2
  <2> QED
    BY <2>3, <2>4 DEF InOneHand
<1> QED
  BY <1>2, <1>8, <1>9, <1>10 DEF CopyInOnePlace

\* A receive that fails lets the head go without ever holding it.
LEMMA ReceiveFailsKeeps ==
    ASSUME ChatInv, NEW s \in Sessions, ReceiveFails(s)
    PROVE  ChatInv'
<1> DEFINE r == handler[s].room
           m == Head(queue[r])
<1> USE DEF ChatInv, TypeOK
<1>1. r \in Rooms /\ queue[r] # <<>> /\ Idle \in Handler /\ Idle.pc = "idle"
  BY IdleType DEF ReceiveFails, HandlersSound, Idle
<1>2. /\ m \in Messages /\ copy[m] = "queue"
      /\ queue' \in [Rooms -> Seq(Messages)] /\ copy' \in [Messages -> CopyPlace]
      /\ InQueue' /\ OnlyForOffline' /\ ProcessedWereSent' /\ AtMostLiveAndQueued'
  BY <1>1, TakeHead DEF ReceiveFails
<1>3. /\ handler' = [handler EXCEPT ![s] = Idle]
      /\ copy' = [copy EXCEPT ![m] = "lost"]
      /\ UNCHANGED <<room, sessionVars, processed, msg, got, crashes>>
  BY DEF ReceiveFails
<1> HIDE DEF m
<1>4. handler'[s] = Idle /\ \A t \in Sessions : t # s => handler'[t] = handler[t]
  BY <1>3
<1>5. HandlersSound'
  BY <1>1, <1>4 DEF HandlersSound
<1>6. InOneHand'
  <2>1. \A t \in Sessions : Delivering(t) =>
           handler[t].held \in Messages /\ copy'[handler[t].held] = "hand"
    BY <1>2, <1>3 DEF CopyInOnePlace, InOneHand, Delivering, HandlersSound
  <2>2. \A t \in Sessions : Delivering(t)' => Delivering(t) /\ handler'[t] = handler[t]
    BY <1>1, <1>4 DEF Delivering
  <2> QED
    BY <2>1, <2>2 DEF CopyInOnePlace, InOneHand
<1>7. TypeOK'
  BY <1>1, <1>2, <1>3 DEF sessionVars
<1> QED
  BY <1>2, <1>5, <1>6, <1>7 DEF CopyInOnePlace

LEMMA DeliverKeeps ==
    ASSUME ChatInv, NEW s \in Sessions, Deliver(s) \/ StoreForLater(s) \/ DrainFails(s)
    PROVE  ChatInv'
<1> DEFINE m == handler[s].held
           next == [handler[s] EXCEPT !.pc = "drain", !.held = None]
<1> USE DEF ChatInv, TypeOK
<1>1. handler[s] \in Handler
  OBVIOUS
<1>2. next \in Handler /\ next.pc = "drain" /\ next.room = handler[s].room
  BY <1>1 DEF Handler
<1>3. Idle \in Handler /\ Idle.pc = "idle"
  BY IdleType DEF Idle
<1>4. Delivering(s) => m \in Messages /\ copy[m] = "hand"
  BY DEF HandlersSound, CopyInOnePlace, InOneHand, Delivering
<1> HIDE DEF next
<1>5. ASSUME KeepDraining(s) PROVE handler' = [handler EXCEPT ![s] = next]
  BY <1>5 DEF KeepDraining, next
<1>6. CASE Deliver(s)
  <2>1. /\ Delivering(s) /\ Broadcast(m, msg[m].room) /\ copy' = [copy EXCEPT ![m] = "sent"]
        /\ processed' \in SUBSET (processed \cup {m})
        /\ handler' = [handler EXCEPT ![s] = next]
        /\ UNCHANGED <<room, queue, sessionVars, msg, crashes>>
    BY <1>5, <1>6 DEF Deliver, Delivering
  <2>2. /\ handler' \in [Sessions -> Handler] /\ copy' \in [Messages -> CopyPlace]
        /\ HandlersSound' /\ CopyInOnePlace'
        /\ \A n \in processed : copy'[n] = "sent"
    BY <1>2, <2>1, LetGo
  <2>3. m \in Messages /\ copy[m] = "hand" /\ copy'[m] = "sent"
        /\ \A n \in Messages : n # m => copy'[n] = copy[n]
    BY <1>4, <2>1
  <2>4. ProcessedWereSent'
    BY <2>1, <2>2, <2>3 DEF ProcessedWereSent
  <2>5. /\ got' \in [Sessions -> [Messages -> Nat]]
        /\ \A t \in Sessions, n \in Messages : n # m => got'[t][n] = got[t][n]
        /\ \A t \in Sessions : got'[t][m] <= got[t][m] + 1
    BY <2>1, <2>3, BroadcastCounts
  <2>6. AtMostLiveAndQueued'
    <3>1. \A n \in Messages : n = m => Drains(n) = 0 /\ Drains(n)' = 1
      BY ONLY <2>3 DEF Drains
    <3>2. \A n \in Messages : n # m => Drains(n)' = Drains(n)
      BY ONLY <2>3 DEF Drains
    <3>3. \A n \in Messages : Broadcasts(n)' = Broadcasts(n) /\ Broadcasts(n) \in 0..1
      BY ONLY <2>1 DEF Broadcasts
    <3>4. \A n \in Messages : Drains(n) \in 0..1
      BY ONLY TRUE DEF Drains
    <3>5. ASSUME NEW t \in Sessions, NEW n \in Messages
          PROVE  got'[t][n] <= Broadcasts(n)' + Drains(n)'
      <4>1. got[t][n] <= Broadcasts(n) + Drains(n)
        BY DEF AtMostLiveAndQueued
      <4>2. got[t][n] \in 0..2 /\ got'[t][n] \in Nat
        <5>1. got[t] \in [Messages -> 0..2] /\ got'[t] \in [Messages -> Nat]
          BY <2>5
        <5> QED
          BY <5>1
      <4>3. CASE n # m
        BY ONLY <2>5, <3>2, <3>3, <4>1, <4>3, t \in Sessions, n \in Messages
      <4>4. CASE n = m
        BY ONLY <2>5, <3>1, <3>3, <4>1, <4>2, <4>4, t \in Sessions, n \in Messages
      <4> QED
        BY <4>3, <4>4
    <3> QED
      BY <3>5 DEF AtMostLiveAndQueued
  <2>7. got' \in [Sessions -> [Messages -> 0..2]]
    BY <2>5, <2>6, CountsTyped
  <2>8. processed' \subseteq Messages
    BY <2>1, <2>3
  <2> QED
    BY <2>1, <2>2, <2>4, <2>6, <2>7, <2>8 DEF sessionVars
<1>7. ASSUME Delivering(s), NEW h \in Handler, NEW c \in {"parked", "lost"},
             handler' = [handler EXCEPT ![s] = h], h.pc \in {"drain", "idle"},
             h.room = handler[s].room \/ h.pc = "idle",
             copy' = [copy EXCEPT ![m] = c],
             UNCHANGED <<room, queue, sessionVars, processed, msg, got, crashes>>
      PROVE  ChatInv'
  <2>1. /\ handler' \in [Sessions -> Handler] /\ copy' \in [Messages -> CopyPlace]
        /\ HandlersSound' /\ CopyInOnePlace'
        /\ \A n \in processed : copy'[n] = "sent"
    BY <1>7, LetGo
  <2>2. m \in Messages /\ copy[m] = "hand" /\ \A n \in Messages : n # m => copy'[n] = copy[n]
    BY <1>4, <1>7
  <2>3. AtMostLiveAndQueued'
    BY <1>7, <2>2 DEF AtMostLiveAndQueued, Broadcasts, Drains
  <2>4. ProcessedWereSent'
    BY <1>7, <2>1 DEF ProcessedWereSent
  <2> QED
    BY <1>7, <2>1, <2>3, <2>4 DEF sessionVars
<1>8. CASE StoreForLater(s)
  BY <1>2, <1>5, <1>7, <1>8 DEF StoreForLater, Delivering
<1>9. CASE DrainFails(s)
  <2>1. CASE Delivering(s)
    BY <1>3, <1>7, <1>9, <2>1 DEF DrainFails, Delivering
  <2>2. CASE ~Delivering(s)
    <3>1. /\ handler' = [handler EXCEPT ![s] = Idle]
          /\ UNCHANGED <<room, queueVars, sessionVars, processed, msg, got, crashes>>
      BY <1>9, <2>2 DEF DrainFails, Delivering, queueVars
    <3>2. handler' \in [Sessions -> Handler] /\ HandlersSound' /\ InOneHand'
      BY <1>3, <3>1, QuietHandler DEF queueVars
    <3>3. Rows'
      BY <3>1, RowsKept DEF Rows, CopyInOnePlace
    <3> QED
      BY <3>1, <3>2, <3>3 DEF Rows, CopyInOnePlace, queueVars, sessionVars
  <2> QED
    BY <2>1, <2>2
<1> QED
  BY <1>6, <1>8, <1>9

\* A listener's other steps move its own handler and, one of them, who is online.
LEMMA ListenerKeeps ==
    ASSUME ChatInv, NEW s \in Sessions,
           \/ \E r \in Rooms : Subscribe(s, r)
           \/ Identify(s) \/ PutPresence(s) \/ StartDrain(s) \/ DrainEnds(s)
    PROVE  ChatInv'
<1> USE DEF ChatInv, TypeOK
<1>1. handler[s] \in Handler /\ presence[s] \in Users \cup {None}
  OBVIOUS
<1>2. ASSUME handler' \in [Sessions -> Handler], HandlersSound', InOneHand',
             UNCHANGED <<room, queueVars, sess, subs, processed, msg, got, crashes>>,
             presence' \in [Sessions -> Users \cup {None}],
             joining' \in [Sessions -> SUBSET Rooms]
      PROVE  ChatInv'
  <2>1. Rows'
    BY <1>2, RowsKept DEF Rows, CopyInOnePlace
  <2> QED
    BY <1>2, <2>1 DEF Rows, CopyInOnePlace, queueVars
<1>3. ASSUME NEW l \in Listeners, Return(s, l), handler[s].pc # "idle", UNCHANGED queueVars
      PROVE  handler' \in [Sessions -> Handler] /\ HandlersSound' /\ InOneHand'
  BY <1>3, ReturnKeeps DEF queueVars
<1>4. ASSUME NEW u \in Users \cup {None}, NEW pc \in {"identify", "drain"},
             handler' = [handler EXCEPT ![s] = [@ EXCEPT !.pc = pc, !.user = u]],
             handler[s].pc = "dispatch", pc = "identify" => u \in Users, UNCHANGED queueVars
      PROVE  handler' \in [Sessions -> Handler] /\ HandlersSound' /\ InOneHand'
  <2> DEFINE h == [handler[s] EXCEPT !.pc = pc, !.user = u]
  <2>1. h \in Handler /\ h.pc = pc /\ h.room = handler[s].room /\ h.user = u
    BY <1>1 DEF Handler
  <2>2. handler' = [handler EXCEPT ![s] = h]
    BY <1>4
  <2>3. h.room \in Rooms
    BY <1>4, <2>1 DEF HandlersSound
  <2> HIDE DEF h
  <2> QED
    BY <1>4, <2>1, <2>2, <2>3, QuietHandler DEF queueVars
<1>5. CASE \E r \in Rooms : Subscribe(s, r)
  <2>1. PICK r \in Rooms : Subscribe(s, r)
    BY <1>5
  <2> DEFINE h == [Idle EXCEPT !.pc = "dispatch", !.todo = Listeners, !.room = r]
  <2>2. h \in Handler /\ h.pc = "dispatch" /\ h.room = r
    BY DispatchFields
  <2>3. handler' = [handler EXCEPT ![s] = h] /\ UNCHANGED queueVars
    BY <2>1 DEF Subscribe
  <2> HIDE DEF h
  <2>4. handler' \in [Sessions -> Handler] /\ HandlersSound' /\ InOneHand'
    BY <2>2, <2>3, QuietHandler DEF queueVars
  <2>5. joining' \in [Sessions -> SUBSET Rooms]
    BY <2>1 DEF Subscribe
  <2> QED
    BY <1>2, <2>1, <2>4, <2>5 DEF Subscribe
<1>6. CASE Identify(s)
  <2>1. CASE Return(s, "identify")
    BY <1>2, <1>3, <1>6, <2>1 DEF Identify, Listeners, sessionVars
  <2>2. CASE ~Return(s, "identify")
    <3>1. PICK u \in Users :
             handler' = [handler EXCEPT ![s] = [@ EXCEPT !.pc = "identify", !.user = u]]
      BY <1>6, <2>2 DEF Identify
    <3>2. handler' \in [Sessions -> Handler] /\ HandlersSound' /\ InOneHand'
      BY <1>4, <1>6, <3>1 DEF Identify
    <3> QED
      BY <1>2, <1>6, <3>2 DEF Identify, sessionVars
  <2> QED
    BY <2>1, <2>2
<1>7. CASE PutPresence(s)
  <2>1. handler' \in [Sessions -> Handler] /\ HandlersSound' /\ InOneHand'
    BY <1>3, <1>7 DEF PutPresence, Listeners
  <2>2. presence' \in [Sessions -> Users \cup {None}]
    BY <1>7 DEF PutPresence, HandlersSound
  <2> QED
    BY <1>2, <1>7, <2>1, <2>2 DEF PutPresence
<1>8. CASE StartDrain(s)
  <2>1. handler' \in [Sessions -> Handler] /\ HandlersSound' /\ InOneHand'
    <3>1. CASE Return(s, "drain")
      BY <1>3, <1>8, <3>1 DEF StartDrain, Listeners
    <3>2. CASE handler' = [handler EXCEPT ![s] = Idle]
      <4>1. Idle \in Handler /\ Idle.pc = "idle"
        BY IdleType DEF Idle
      <4> QED
        BY <1>8, <3>2, <4>1, QuietHandler DEF StartDrain, queueVars
    <3>3. CASE handler' = [handler EXCEPT ![s] = [@ EXCEPT !.pc = "drain", !.user = presence[s]]]
      BY <1>1, <1>4, <1>8, <3>3 DEF StartDrain
    <3> QED
      BY <1>8, <3>1, <3>2, <3>3 DEF StartDrain
  <2> QED
    BY <1>2, <1>8, <2>1 DEF StartDrain, sessionVars
<1>9. CASE DrainEnds(s)
  BY <1>2, <1>3, <1>9 DEF DrainEnds, Listeners, sessionVars
<1> QED
  BY <1>5, <1>6, <1>7, <1>8, <1>9

\* The handlers, and what they have in hand, are as they were.
LEMMA HandsKept ==
    ASSUME HandlersSound, InOneHand, UNCHANGED handler,
           \A s \in Sessions : Delivering(s) => copy'[handler[s].held] = copy[handler[s].held]
    PROVE  HandlersSound' /\ InOneHand'
BY DEF HandlersSound, InOneHand, Delivering

LEMMA EnqueueKeeps ==
    ASSUME ChatInv, NEW m \in Messages, SendMessageToQueue(m)
    PROVE  ChatInv'
<1> DEFINE r == msg[m].room
           s == [msg[m] EXCEPT !.pc = "queued"]
<1> USE DEF ChatInv, TypeOK
<1>1. /\ msg[m] \in Message /\ msg[m].pc = "saved" /\ ~msg[m].online /\ copy[m] = "none"
      /\ msg' = [msg EXCEPT ![m] = s]
      /\ UNCHANGED <<room, sessionVars, handler, processed, got, crashes>>
  BY DEF SendMessageToQueue, CopyInOnePlace, OnlyForOffline
<1>2. s \in Message /\ s.pc = "queued" /\ s.room = r /\ ~s.online
  BY <1>1 DEF Message
<1> HIDE DEF s
<1>3. msg'[m] = s /\ msg' \in [Messages -> Message] /\ \A n \in Messages : n # m => msg'[n] = msg[n]
  BY <1>1, <1>2
<1>4. /\ \A n \in Messages : n # m => copy'[n] = copy[n]
      /\ copy'[m] \in {"queue", "lost"} /\ copy' \in [Messages -> CopyPlace]
  BY DEF SendMessageToQueue, CopyPlace
<1>5. HandlersSound' /\ InOneHand'
  <2>1. \A t \in Sessions : Delivering(t) => handler[t].held \in Messages /\ handler[t].held # m
    BY <1>1 DEF HandlersSound, CopyInOnePlace, InOneHand, Delivering
  <2> QED
    BY <1>1, <1>4, <2>1, HandsKept DEF CopyInOnePlace
<1>6. OnlyForOffline' /\ ProcessedWereSent'
  BY <1>1, <1>2, <1>3, <1>4 DEF CopyInOnePlace, OnlyForOffline, ProcessedWereSent
<1>7. AtMostLiveAndQueued'
  BY <1>1, <1>2, <1>3, <1>4 DEF AtMostLiveAndQueued, Broadcasts, Drains
<1>8. \A q \in Rooms : \A i \in 1..Len(queue[q]) : queue[q][i] \in Messages /\ queue[q][i] # m
  <2>1. \A q \in Rooms : \A i \in 1..Len(queue[q]) : queue[q][i] \in Messages
    BY ElementOfSeq
  <2> QED
    BY <1>1, <2>1 DEF CopyInOnePlace, InQueue
<1>9. CASE UNCHANGED queue
  <2>1. InQueue'
    BY <1>3, <1>4, <1>8, <1>9 DEF CopyInOnePlace, InQueue
  <2> QED
    BY <1>1, <1>3, <1>4, <1>5, <1>6, <1>7, <1>9, <2>1 DEF CopyInOnePlace, sessionVars
<1>10. CASE ~UNCHANGED queue
  <2>1. r \in Rooms \cup {None}
    BY <1>1 DEF Message
  <2>2. CASE r \notin Rooms
    <3>1. queue' = queue
      BY <1>10, <2>2 DEF SendMessageToQueue
    <3> QED
      BY <1>10, <3>1
  <2>3. CASE r \in Rooms
    <3>1. /\ queue' = [queue EXCEPT ![r] = Append(queue[r], m)] /\ copy'[m] = "queue"
          /\ queue[r] \in Seq(Messages)
      BY <1>10, <2>3 DEF SendMessageToQueue
    <3>2. /\ Append(queue[r], m) \in Seq(Messages)
          /\ \A i \in 1..Len(Append(queue[r], m)) :
                \/ i \in 1..Len(queue[r]) /\ Append(queue[r], m)[i] = queue[r][i]
                \/ i = Len(queue[r]) + 1 /\ Append(queue[r], m)[i] = m
      BY <3>1, AppendTo
    <3>3. queue' \in [Rooms -> Seq(Messages)]
      BY <3>1, <3>2
    <3>4. ASSUME NEW q \in Rooms, NEW i \in 1..Len(queue'[q])
          PROVE  \/ i \in 1..Len(queue[q]) /\ queue'[q][i] = queue[q][i]
                 \/ q = r /\ i = Len(queue[q]) + 1 /\ queue'[q][i] = m
      <4>1. CASE q = r
        BY <2>3, <3>1, <3>2, <3>4, <4>1
      <4>2. CASE q # r
        BY <3>1, <3>4, <4>2
      <4> QED
        BY <4>1, <4>2
    <3>5. ASSUME NEW q \in Rooms, NEW i \in 1..Len(queue'[q]), NEW j \in 1..Len(queue'[q])
          PROVE  /\ queue'[q][i] = queue'[q][j] => i = j
                 /\ copy'[queue'[q][i]] = "queue" /\ msg'[queue'[q][i]].room = q
      <4>1. \/ i \in 1..Len(queue[q]) /\ queue'[q][i] = queue[q][i]
            \/ q = r /\ i = Len(queue[q]) + 1 /\ queue'[q][i] = m
        BY <3>4
      <4>2. \/ j \in 1..Len(queue[q]) /\ queue'[q][j] = queue[q][j]
            \/ q = r /\ j = Len(queue[q]) + 1 /\ queue'[q][j] = m
        BY <3>4
      <4>3. queue'[q][i] = queue'[q][j] => i = j
        BY <1>8, <4>1, <4>2 DEF CopyInOnePlace, InQueue
      <4>4. copy'[queue'[q][i]] = "queue" /\ msg'[queue'[q][i]].room = q
        <5>1. CASE i \in 1..Len(queue[q]) /\ queue'[q][i] = queue[q][i]
          <6>1. copy[queue[q][i]] = "queue" /\ msg[queue[q][i]].room = q
            BY <5>1 DEF CopyInOnePlace, InQueue
          <6>2. queue[q][i] \in Messages /\ queue[q][i] # m
            BY <1>8, <5>1
          <6> QED
            BY <1>3, <1>4, <5>1, <6>1, <6>2
        <5>2. CASE q = r /\ i = Len(queue[q]) + 1 /\ queue'[q][i] = m
          BY <1>2, <1>3, <3>1, <5>2
        <5> QED
          BY <4>1, <5>1, <5>2
      <4> QED
        BY <4>3, <4>4
    <3>6. InQueue'
      BY <3>5 DEF InQueue
    <3> QED
      BY <1>1, <1>3, <1>4, <1>5, <1>6, <1>7, <3>3, <3>6 DEF CopyInOnePlace, sessionVars
  <2> QED
    BY <2>1, <2>2, <2>3
<1> QED
  BY <1>9, <1>10

\* The other steps of a SEND leave queues and handlers alone.
LEMMA MessageKeeps ==
    ASSUME ChatInv, NEW m \in Messages,
           \/ \E r \in Rooms, u \in Users : SaveMessage(m, r, u)
           \/ SendMessageToQueueFails(m)
           \/ SendLive(m)
    PROVE  ChatInv'
<1> USE DEF ChatInv, TypeOK
<1>1. msg[m] \in Message
  OBVIOUS
<1>2. ASSUME NEW s \in Message, msg' = [msg EXCEPT ![m] = s],
             UNCHANGED <<room, queueVars, sessionVars, handler, processed, crashes>>,
             copy[m] # "none" => s.pc = "done" /\ s.room = msg[m].room /\ ~s.online,
             AtMostLiveAndQueued', got' \in [Sessions -> [Messages -> 0..2]]
      PROVE  ChatInv'
  <2>1. msg'[m] = s /\ \A n \in Messages : n # m => msg'[n] = msg[n]
    BY <1>2
  <2>2. HandlersSound' /\ InOneHand'
    BY <1>2, HandsKept DEF CopyInOnePlace, queueVars
  <2>3. OnlyForOffline' /\ ProcessedWereSent'
    BY <1>2, <2>1 DEF CopyInOnePlace, OnlyForOffline, ProcessedWereSent, queueVars
  <2>4. InQueue'
    <3>1. \A q \in Rooms : \A i \in 1..Len(queue[q]) : queue[q][i] \in Messages
      BY ElementOfSeq
    <3>2. ASSUME NEW q \in Rooms, NEW i \in 1..Len(queue[q])
          PROVE  msg'[queue[q][i]].room = q
      <4>1. copy[queue[q][i]] = "queue" /\ msg[queue[q][i]].room = q
        BY DEF CopyInOnePlace, InQueue
      <4> QED
        BY <1>2, <2>1, <3>1, <4>1
    <3> QED
      BY <1>2, <3>2 DEF CopyInOnePlace, InQueue, queueVars
  <2> QED
    BY <1>2, <2>2, <2>3, <2>4 DEF CopyInOnePlace, queueVars, sessionVars
<1>3. CASE \E r \in Rooms, u \in Users : SaveMessage(m, r, u)
  <2>1. PICK r \in Rooms, u \in Users : SaveMessage(m, r, u)
    BY <1>3
  <2> DEFINE s == [pc |-> "saved", room |-> r, from |-> u, online |-> IsUserOnline(Other(r, u))]
  <2>2. msg' = [msg EXCEPT ![m] = s] /\ s \in Message /\ s.pc = "saved"
    BY <2>1 DEF SaveMessage, Message, IsUserOnline
  <2>3. copy[m] = "none"
    BY <2>1 DEF SaveMessage, CopyInOnePlace, OnlyForOffline
  <2> HIDE DEF s
  <2>4. AtMostLiveAndQueued'
    BY <2>1, <2>2 DEF SaveMessage, AtMostLiveAndQueued, Broadcasts, Drains, queueVars
  <2> QED
    BY <1>2, <2>1, <2>2, <2>3, <2>4 DEF SaveMessage
<1>4. CASE SendMessageToQueueFails(m) \/ SendLive(m)
  <2> DEFINE s == [msg[m] EXCEPT !.pc = "done"]
  <2>1. /\ msg' = [msg EXCEPT ![m] = s] /\ s \in Message /\ s.pc = "done"
        /\ s.room = msg[m].room /\ s.online = msg[m].online
    BY <1>1, <1>4 DEF SendMessageToQueueFails, SendLive, Message
  <2>2. copy[m] # "none" => ~msg[m].online
    BY DEF CopyInOnePlace, OnlyForOffline
  <2>3. /\ got' \in [Sessions -> [Messages -> Nat]]
        /\ \A t \in Sessions, n \in Messages : n # m => got'[t][n] = got[t][n]
        /\ \A t \in Sessions : got'[t][m] <= got[t][m] + 1
    <3>1. CASE SendLive(m)
      BY <3>1, BroadcastCounts DEF SendLive
    <3>2. CASE got' = got
      <4>1. \A t \in Sessions : got[t] \in [Messages -> 0..2]
        OBVIOUS
      <4>2. ASSUME NEW t \in Sessions
            PROVE  got[t] \in [Messages -> Nat] /\ got[t][m] <= got[t][m] + 1
        BY ONLY <4>1, CountUp, m \in Messages, t \in Sessions
      <4>3. got \in [Sessions -> [Messages -> Nat]]
        BY <4>2
      <4> QED
        BY <3>2, <4>2, <4>3
    <3> QED
      BY <1>4, <3>1, <3>2 DEF SendMessageToQueueFails
  <2>4. UNCHANGED <<room, queueVars, sessionVars, handler, processed, crashes>> /\ msg[m].pc # "done"
    BY <1>4 DEF SendMessageToQueueFails, SendLive
  <2> HIDE DEF s
  <2>5. Broadcasts(m) = 0 /\ Broadcasts(m)' = 1
    BY ONLY <2>1, <2>4, m \in Messages, msg \in [Messages -> Message] DEF Broadcasts
  <2>6. \A n \in Messages : n # m => Broadcasts(n)' = Broadcasts(n)
    BY ONLY <2>1, m \in Messages, msg \in [Messages -> Message] DEF Broadcasts
  <2>7. \A n \in Messages : Drains(n)' = Drains(n) /\ Drains(n) \in 0..1
    BY ONLY <2>4 DEF Drains, queueVars
  <2>8. ASSUME NEW t \in Sessions, NEW n \in Messages
        PROVE  got'[t][n] <= Broadcasts(n)' + Drains(n)'
    <3>1. got[t][n] <= Broadcasts(n) + Drains(n)
      BY DEF AtMostLiveAndQueued
    <3>2. got[t][n] \in 0..2 /\ got'[t][n] \in Nat
      <4>1. got[t] \in [Messages -> 0..2] /\ got'[t] \in [Messages -> Nat]
        BY <2>3
      <4> QED
        BY <4>1
    <3>3. CASE n # m
      BY ONLY <2>3, <2>6, <2>7, <3>1, <3>3, t \in Sessions, n \in Messages
    <3>4. CASE n = m
      BY ONLY <2>3, <2>5, <2>7, <3>1, <3>2, <3>4, t \in Sessions, n \in Messages
    <3> QED
      BY <3>3, <3>4
  <2>9. AtMostLiveAndQueued'
    BY <2>8 DEF AtMostLiveAndQueued
  <2>10. got' \in [Sessions -> [Messages -> 0..2]]
    BY <2>3, <2>9, CountsTyped
  <2> QED
    BY <1>2, <2>1, <2>2, <2>4, <2>9, <2>10
<1> QED
  BY <1>3, <1>4

\* Sockets and rooms: nothing a queue, a handler or a message holds is touched.
LEMMA SocketKeeps ==
    ASSUME ChatInv,
           \/ \E r \in Rooms : RoomStep(r)
           \/ \E s \in Sessions, valid \in BOOLEAN : Connect(s, valid)
           \/ \E s \in Sessions, r \in Rooms : Register(s, r)
           \/ \E s \in Sessions : Disconnect(s)
    PROVE  ChatInv'
<1> USE DEF ChatInv, TypeOK
<1>1. UNCHANGED <<queueVars, handler, processed, msg, got, crashes>>
  BY DEF RoomStep, DeclareQueue, DeclareQueueFails, Connect, Register, Disconnect
<1>2. HandlersSound' /\ InOneHand'
  BY <1>1, HandsKept DEF CopyInOnePlace, queueVars
<1>3. Rows'
  BY <1>1, RowsKept DEF Rows, CopyInOnePlace
<1>4. /\ room' \in [Rooms -> {"saved", "bound", "orphan"}]
      /\ sess' \in [Sessions -> {"new", "open", "closed"}]
      /\ presence' \in [Sessions -> Users \cup {None}]
      /\ joining' \in [Sessions -> SUBSET Rooms] /\ subs' \in [Sessions -> SUBSET Rooms]
  <2>1. CASE \E r \in Rooms : RoomStep(r)
    BY <2>1 DEF RoomStep, DeclareQueue, DeclareQueueFails, sessionVars
  <2>2. CASE \E s \in Sessions, valid \in BOOLEAN : Connect(s, valid)
    <3>1. PICK s \in Sessions, u \in Users \cup {None} :
             /\ presence' = [presence EXCEPT ![s] = u]
             /\ sess' = [sess EXCEPT ![s] = "open"]
             /\ UNCHANGED <<room, joining, subs>>
      <4>1. PICK s \in Sessions, valid \in BOOLEAN : Connect(s, valid)
        BY <2>2
      <4>2. SessionUser[s] \in Users
        OBVIOUS
      <4> QED
        BY <4>1, <4>2 DEF Connect
    <3> QED
      BY <3>1
  <2>3. CASE \E s \in Sessions, r \in Rooms : Register(s, r)
    BY <2>3 DEF Register
  <2>4. CASE \E s \in Sessions : Disconnect(s)
    BY <2>4 DEF Disconnect
  <2> QED
    BY <2>1, <2>2, <2>3, <2>4
<1> QED
  BY <1>1, <1>2, <1>3, <1>4 DEF Rows, CopyInOnePlace, queueVars

LEMMA CrashKeeps == ASSUME ChatInv, Crash PROVE ChatInv'
<1> USE DEF ChatInv, TypeOK
<1>1. \A s \in Sessions : handler'[s] = Idle /\ ~Delivering(s)'
  BY DEF Crash, Delivering, Idle
<1>2. handler' \in [Sessions -> Handler] /\ HandlersSound' /\ InOneHand'
  <2>1. handler' \in [Sessions -> Handler]
    BY IdleType DEF Crash
  <2>2. Idle.pc = "idle"
    BY DEF Idle
  <2>3. HandlersSound'
    BY <1>1, <2>2 DEF HandlersSound
  <2> QED
    BY <1>1, <2>1, <2>3 DEF InOneHand
<1>3. \A m \in Messages :
         /\ msg'[m] \in Message
         /\ msg'[m].room = msg[m].room /\ msg'[m].online = msg[m].online
         /\ msg'[m].pc = IF msg[m].pc = "new" THEN "new" ELSE "done"
  <2>1. ASSUME NEW m \in Messages
        PROVE  /\ msg[m] \in Message
               /\ msg'[m] = IF msg[m].pc = "new" THEN msg[m] ELSE [msg[m] EXCEPT !.pc = "done"]
    BY DEF Crash
  <2>2. ASSUME NEW m \in Messages, msg[m].pc = "new"
        PROVE  /\ msg'[m] \in Message /\ msg'[m].pc = "new"
               /\ msg'[m].room = msg[m].room /\ msg'[m].online = msg[m].online
    BY ONLY <2>1, <2>2
  <2>3. ASSUME NEW m \in Messages, msg[m].pc # "new"
        PROVE  /\ msg'[m] \in Message /\ msg'[m].pc = "done"
               /\ msg'[m].room = msg[m].room /\ msg'[m].online = msg[m].online
    <3>1. msg[m] \in Message /\ msg'[m] = [msg[m] EXCEPT !.pc = "done"]
      BY ONLY <2>1, <2>3
    <3> QED
      BY ONLY <3>1 DEF Message
  <2> QED
    BY ONLY <2>2, <2>3
<1>4. \A m \in Messages : copy'[m] = IF copy[m] = "hand" THEN "lost" ELSE copy[m]
  BY DEF Crash
<1>5. InQueue'
  <2>1. \A q \in Rooms : \A i \in 1..Len(queue[q]) : queue[q][i] \in Messages
    BY ElementOfSeq
  <2>2. ASSUME NEW q \in Rooms, NEW i \in 1..Len(queue[q])
        PROVE  copy'[queue[q][i]] = "queue" /\ msg'[queue[q][i]].room = q
    <3>1. copy[queue[q][i]] = "queue" /\ msg[queue[q][i]].room = q
      BY DEF CopyInOnePlace, InQueue
    <3> QED
      BY <1>3, <1>4, <2>1, <3>1
  <2>3. queue' = queue
    BY DEF Crash
  <2> QED
    BY <2>2, <2>3 DEF CopyInOnePlace, InQueue
<1>6. OnlyForOffline' /\ ProcessedWereSent'
  BY <1>3, <1>4 DEF Crash, CopyInOnePlace, OnlyForOffline, ProcessedWereSent
<1>7. AtMostLiveAndQueued'
  <2>1. \A m \in Messages : Drains(m)' = Drains(m) /\ Drains(m) \in 0..1
    BY ONLY <1>4 DEF Drains
  <2>2. \A m \in Messages : Broadcasts(m) <= Broadcasts(m)' /\ Broadcasts(m) \in 0..1
                            /\ Broadcasts(m)' \in 0..1
    BY ONLY <1>3 DEF Broadcasts
  <2>3. ASSUME NEW t \in Sessions, NEW m \in Messages
        PROVE  got'[t][m] <= Broadcasts(m)' + Drains(m)'
    <3>1. got'[t][m] <= Broadcasts(m) + Drains(m)
      BY DEF Crash, AtMostLiveAndQueued
    <3>2. got'[t][m] \in 0..2
      <4>1. got'[t] \in [Messages -> 0..2]
        BY DEF Crash
      <4> QED
        BY <4>1
    <3> QED
      BY ONLY <2>1, <2>2, <3>1, <3>2, m \in Messages
  <2> QED
    BY <2>3 DEF AtMostLiveAndQueued
<1>8. TypeOK'
  <2>1. msg' \in [Messages -> Message]
    BY <1>3 DEF Crash
  <2>2. copy' \in [Messages -> CopyPlace]
    BY DEF Crash, CopyPlace
  <2> QED
    BY <1>2, <2>1, <2>2 DEF Crash
<1> QED
  BY <1>2, <1>5, <1>6, <1>7, <1>8 DEF CopyInOnePlace

LEMMA NextInv == ChatInv /\ [Next]_vars => ChatInv'
<1> SUFFICES ASSUME ChatInv, [Next]_vars PROVE ChatInv'
  OBVIOUS
<1>1. CASE \/ \E r \in Rooms : RoomStep(r)
           \/ \E s \in Sessions, valid \in BOOLEAN : Connect(s, valid)
           \/ \E s \in Sessions, r \in Rooms : Register(s, r)
           \/ \E s \in Sessions : Disconnect(s)
  BY <1>1, SocketKeeps
<1>2. ASSUME NEW s \in Sessions, NEW r \in Rooms, Subscribe(s, r) PROVE ChatInv'
  BY <1>2, ListenerKeeps
<1>3. ASSUME NEW s \in Sessions, HandlerStep(s) PROVE ChatInv'
  BY <1>3, ListenerKeeps, PopKeeps, ReceiveFailsKeeps, DeliverKeeps DEF HandlerStep
<1>4. ASSUME NEW m \in Messages, NEW r \in Rooms, NEW u \in Users, SaveMessage(m, r, u)
      PROVE ChatInv'
  BY <1>4, MessageKeeps
<1>5. ASSUME NEW m \in Messages, MessageStep(m) PROVE ChatInv'
  BY <1>5, EnqueueKeeps, MessageKeeps DEF MessageStep
<1>6. CASE Crash
  BY <1>6, CrashKeeps
<1>7. CASE UNCHANGED vars
  BY <1>7 DEF vars, queueVars, sessionVars, ChatInv, TypeOK, HandlersSound, CopyInOnePlace,
              InQueue, InOneHand, Delivering, OnlyForOffline, ProcessedWereSent,
              AtMostLiveAndQueued, Broadcasts, Drains
<1> QED
  BY <1>1, <1>2, <1>3, <1>4, <1>5, <1>6, <1>7 DEF Next

-----------------------------------------------------------------------------
(* What the invariant gives                                                 *)

\* The handlers, the queues, the copies and the counts fit together in every
\* reachable state, for any number of rooms, sessions, messages and crashes.
THEOREM Inductive == Spec => []ChatInv
BY InitInv, NextInv, PTL DEF Spec

\* Every reachable state has its type; no session is given a message three times.
THEOREM TypeCorrect == Spec => []TypeOK
<1>1. ChatInv => TypeOK
  BY DEF ChatInv
<1> QED
  BY <1>1, Inductive, PTL

\* The queued copy of a message is in one queue, once, or in one listener's hand.
THEOREM OnePlace == Spec => []CopyInOnePlace
<1>1. ChatInv => CopyInOnePlace
  BY DEF ChatInv
<1> QED
  BY <1>1, Inductive, PTL

\* A session is given a message by its sender's broadcast and by one drain at most.
THEOREM AtMostTwice == Spec => []AtMostLiveAndQueued
<1>1. ChatInv => AtMostLiveAndQueued
  BY DEF ChatInv
<1> QED
  BY <1>1, Inductive, PTL

\* processedMessages never holds a message a drain has in hand.
THEOREM FilterIdle == Spec => []FilterNeverBites
<1>1. ChatInv => FilterNeverBites
  BY DEF ChatInv, CopyInOnePlace, InOneHand, ProcessedWereSent, FilterNeverBites, Delivering
<1> QED
  BY <1>1, Inductive, PTL

-----------------------------------------------------------------------------
(* Chat implements Delivery                                                 *)

stageBar  == [m \in Messages |-> StageOf(m)]
placeBar  == [m \in Messages |-> msg[m].room]
storedBar == [m \in Messages |-> StoredOf(m)]

barVars == <<stageBar, placeBar, storedBar, subs, got>>

LEMMA DeliveryInitially == Init => Channel!DeliveryInit
BY DEF Init, NotSent, Channel!DeliveryInit, StageOf, StoredOf

\* One message's record changes, seen from above.
LEMMA NewRecord ==
    ASSUME TypeOK, NEW m \in Messages, NEW x \in Message, msg' = [msg EXCEPT ![m] = x]
    PROVE  /\ stageBar' = [stageBar EXCEPT ![m] = StageOf(m)']
           /\ placeBar' = [placeBar EXCEPT ![m] = x.room]
           /\ msg'[m] = x
<1>1. msg'[m] = x /\ \A n \in Messages : n # m => msg'[n] = msg[n]
  BY DEF TypeOK
<1>2. \A n \in Messages : n # m => StageOf(n)' = StageOf(n)
  BY <1>1 DEF StageOf
<1>3. stageBar' = [stageBar EXCEPT ![m] = StageOf(m)']
  BY <1>2 DEF stageBar
<1>4. placeBar' = [placeBar EXCEPT ![m] = x.room]
  <2>1. \A n \in Messages : msg'[n].room = IF n = m THEN x.room ELSE msg[n].room
    BY <1>1
  <2> QED
    BY <2>1 DEF placeBar
<1> QED
  BY <1>1, <1>3, <1>4

\* One message's copy goes somewhere else, seen from above.
LEMMA NewCopy ==
    ASSUME TypeOK, NEW m \in Messages, NEW c, copy' = [copy EXCEPT ![m] = c]
    PROVE  /\ storedBar' = [storedBar EXCEPT ![m] = StoredOf(m)']
           /\ copy'[m] = c
<1>1. copy'[m] = c /\ \A n \in Messages : n # m => copy'[n] = copy[n]
  BY DEF TypeOK
<1>2. \A n \in Messages : n # m => StoredOf(n)' = StoredOf(n)
  BY <1>1 DEF StoredOf
<1> QED
  BY <1>1, <1>2 DEF storedBar

LEMMA SameStages == UNCHANGED msg => UNCHANGED <<stageBar, placeBar>>
BY DEF stageBar, placeBar, StageOf

LEMMA SameStored == UNCHANGED copy => UNCHANGED storedBar
BY DEF storedBar, StoredOf

\* A broadcast gives the message to whoever listens to the room it was posted in.
LEMMA BroadcastGives ==
    ASSUME NEW m \in Messages, Broadcast(m, msg[m].room)
    PROVE  got' = [s \in Sessions |-> IF placeBar[m] \in subs[s]
                                     THEN [got[s] EXCEPT ![m] = @ + 1] ELSE got[s]]
BY DEF Broadcast, placeBar

LEMMA SocketDelivers ==
    ASSUME ChatInv,
           \/ \E r \in Rooms : RoomStep(r)
           \/ \E s \in Sessions, valid \in BOOLEAN : Connect(s, valid)
           \/ \E s \in Sessions, r \in Rooms : Subscribe(s, r) \/ Register(s, r)
           \/ \E s \in Sessions : Disconnect(s)
    PROVE  [Channel!DeliveryNext]_barVars
<1>1. UNCHANGED <<stageBar, placeBar, storedBar, got>>
  <2>1. UNCHANGED <<msg, copy, got>>
    BY DEF RoomStep, DeclareQueue, DeclareQueueFails, Connect, Subscribe, Register, Disconnect,
           queueVars
  <2> QED
    BY <2>1, SameStages, SameStored
<1>2. CASE \E s \in Sessions, r \in Rooms : Register(s, r)
  <2>1. PICK s \in Sessions, r \in Rooms : Register(s, r)
    BY <1>2
  <2>2. Channel!Join(s, r)
    BY <1>1, <2>1 DEF Register, Channel!Join, Channel!postVars, stageBar, placeBar, storedBar
  <2> QED
    BY <2>2 DEF Channel!DeliveryNext
<1>3. CASE \E s \in Sessions : Disconnect(s)
  <2>1. PICK s \in Sessions : Disconnect(s)
    BY <1>3
  <2>2. Channel!Leave(s)
    BY <1>1, <2>1 DEF Disconnect, Channel!Leave, Channel!postVars, stageBar, placeBar, storedBar
  <2> QED
    BY <2>2 DEF Channel!DeliveryNext
<1>4. CASE UNCHANGED subs
  BY <1>1, <1>4 DEF barVars
<1> QED
  BY <1>2, <1>3, <1>4 DEF RoomStep, DeclareQueue, DeclareQueueFails, Connect, Subscribe, sessionVars

\* A listener at work: its message is handed over, or lost, or nothing is seen.
LEMMA HandlerDelivers ==
    ASSUME ChatInv, NEW s \in Sessions, HandlerStep(s)
    PROVE  [Channel!DeliveryNext]_barVars
<1> DEFINE m == handler[s].held
<1> USE DEF ChatInv
<1>1. UNCHANGED <<stageBar, placeBar, subs>>
  <2>1. UNCHANGED <<msg, subs>>
    BY DEF HandlerStep, Identify, PutPresence, StartDrain, Pop, Deliver, StoreForLater, DrainFails,
           ReceiveFails, DrainEnds, sessionVars
  <2> QED
    BY <2>1, SameStages
<1>2. CASE Identify(s) \/ PutPresence(s) \/ StartDrain(s) \/ DrainEnds(s)
  <2>1. UNCHANGED <<copy, got>>
    BY <1>2 DEF Identify, PutPresence, StartDrain, DrainEnds, queueVars
  <2> QED
    BY <1>1, <2>1, SameStored DEF barVars
<1>3. ASSUME NEW n \in Messages, copy[n] \in {"queue", "hand"}, UNCHANGED got,
             NEW c \in {"parked", "lost"}, copy' = [copy EXCEPT ![n] = c]
      PROVE  Channel!Lose(n)
  <2>1. storedBar' = [storedBar EXCEPT ![n] = "lost"] /\ storedBar[n] = "waiting"
    BY <1>3, NewCopy DEF StoredOf, storedBar
  <2> QED
    BY <1>1, <1>3, <2>1 DEF Channel!Lose, Channel!postVars, stageBar, placeBar, storedBar
<1>4. handler[s].pc = "deliver" => m \in Messages /\ copy[m] = "hand"
  BY DEF HandlersSound, CopyInOnePlace, InOneHand, Delivering
<1>5. handler[s].pc = "drain" => handler[s].room \in Rooms
  BY DEF HandlersSound
<1>6. handler[s].pc = "drain" /\ queue[handler[s].room] # <<>> =>
        /\ Head(queue[handler[s].room]) \in Messages
        /\ copy[Head(queue[handler[s].room])] = "queue"
  <2>1. ASSUME NEW r \in Rooms, queue[r] # <<>>
        PROVE  Head(queue[r]) \in Messages /\ copy[Head(queue[r])] = "queue"
    <3>1. queue[r] \in Seq(Messages)
      BY DEF TypeOK
    <3>2. Head(queue[r]) \in Messages /\ Head(queue[r]) = queue[r][1] /\ 1 \in 1..Len(queue[r])
      BY <2>1, <3>1, TailOf
    <3> QED
      BY <3>2 DEF CopyInOnePlace, InQueue
  <2> QED
    BY <1>5, <2>1
<1>7. CASE Pop(s)
  <2>1. PICK n \in Messages : n = Head(queue[handler[s].room]) /\ copy[n] = "queue"
    BY <1>6, <1>7 DEF Pop
  <2>2. copy' = [copy EXCEPT ![n] = "hand"] /\ UNCHANGED got
    BY <1>7, <2>1 DEF Pop
  <2>3. storedBar' = [storedBar EXCEPT ![n] = StoredOf(n)'] /\ copy'[n] = "hand"
    BY <2>2, NewCopy
  <2>4. storedBar' = storedBar
    BY <2>1, <2>3 DEF StoredOf, storedBar
  <2> QED
    BY <1>1, <2>2, <2>4 DEF barVars
<1>8. CASE Deliver(s)
  <2>1. PICK n \in Messages : n = m
    BY <1>4, <1>8 DEF Deliver
  <2>2. copy[n] = "hand" /\ copy' = [copy EXCEPT ![n] = "sent"] /\ Broadcast(n, msg[n].room)
    BY <1>4, <1>8, <2>1 DEF Deliver
  <2>3. storedBar' = [storedBar EXCEPT ![n] = "handed"] /\ storedBar[n] = "waiting"
    <3>1. storedBar' = [storedBar EXCEPT ![n] = StoredOf(n)'] /\ copy'[n] = "sent"
      BY <2>2, NewCopy
    <3> QED
      BY <2>2, <3>1 DEF StoredOf, storedBar
  <2>4. Channel!GiveAround(n)
    BY <2>2, BroadcastGives DEF Channel!GiveAround, placeBar
  <2>5. Channel!HandOver(n)
    BY <1>1, <2>3, <2>4 DEF Channel!HandOver, Channel!postVars, stageBar, placeBar, storedBar
  <2> QED
    BY <2>5 DEF Channel!DeliveryNext
<1>9. CASE StoreForLater(s)
  BY <1>3, <1>4, <1>9 DEF StoreForLater, Channel!DeliveryNext
<1>10. CASE DrainFails(s)
  <2>1. CASE UNCHANGED copy
    BY <1>1, <1>10, <2>1, SameStored DEF DrainFails, barVars
  <2>2. CASE handler[s].pc = "deliver" /\ copy' = [copy EXCEPT ![m] = "lost"]
    BY <1>3, <1>4, <1>10, <2>2 DEF DrainFails, Channel!DeliveryNext
  <2> QED
    BY <1>10, <2>1, <2>2 DEF DrainFails
<1>11. CASE ReceiveFails(s)
  BY <1>3, <1>6, <1>11 DEF ReceiveFails, Channel!DeliveryNext
<1> QED
  BY <1>2, <1>7, <1>8, <1>9, <1>10, <1>11 DEF HandlerStep

\* A SEND: its message is posted, stored, given up or spoken.
LEMMA SenderDelivers ==
    ASSUME ChatInv, NEW m \in Messages,
           MessageStep(m) \/ \E r \in Rooms, u \in Users : SaveMessage(m, r, u)
    PROVE  [Channel!DeliveryNext]_barVars
<1> USE DEF ChatInv
<1>1. msg[m] \in Message /\ UNCHANGED subs
  BY DEF TypeOK, MessageStep, SendMessageToQueue, SendMessageToQueueFails, SendLive, SaveMessage,
         sessionVars
<1>2. ASSUME NEW pc \in {"queued", "done"}, msg' = [msg EXCEPT ![m].pc = pc]
      PROVE  /\ stageBar' = [stageBar EXCEPT ![m] = IF pc = "queued" THEN "stored" ELSE "over"]
             /\ placeBar' = placeBar
  <2> DEFINE x == [msg[m] EXCEPT !.pc = pc]
  <2>1. x \in Message /\ x.pc = pc /\ x.room = msg[m].room
    BY <1>1 DEF Message
  <2>2. msg' = [msg EXCEPT ![m] = x]
    BY <1>2
  <2> HIDE DEF x
  <2>3. /\ stageBar' = [stageBar EXCEPT ![m] = StageOf(m)']
        /\ placeBar' = [placeBar EXCEPT ![m] = x.room] /\ msg'[m] = x
    BY <2>1, <2>2, NewRecord
  <2> QED
    BY <2>1, <2>3 DEF StageOf, placeBar
<1>3. CASE \E r \in Rooms, u \in Users : SaveMessage(m, r, u)
  <2>1. PICK r \in Rooms, u \in Users : SaveMessage(m, r, u)
    BY <1>3
  <2> DEFINE x == [pc |-> "saved", room |-> r, from |-> u, online |-> IsUserOnline(Other(r, u))]
  <2>2. msg' = [msg EXCEPT ![m] = x] /\ x \in Message /\ x.pc = "saved" /\ x.room = r
    BY <2>1 DEF SaveMessage, Message, IsUserOnline
  <2> HIDE DEF x
  <2>3. PICK how \in {"live", "late"} : how = IF x.online THEN "live" ELSE "late"
    OBVIOUS
  <2>4. /\ stageBar' = [stageBar EXCEPT ![m] = how] /\ stageBar[m] = "new"
        /\ placeBar' = [placeBar EXCEPT ![m] = r]
    <3>1. /\ stageBar' = [stageBar EXCEPT ![m] = StageOf(m)'] /\ msg'[m] = x
          /\ placeBar' = [placeBar EXCEPT ![m] = x.room]
      BY <2>2, NewRecord
    <3>2. msg[m].pc = "new"
      BY <2>1 DEF SaveMessage
    <3>3. StageOf(m)' = how
      BY <2>2, <2>3, <3>1 DEF StageOf
    <3>4. stageBar[m] = "new"
      BY <3>2 DEF StageOf, stageBar
    <3> QED
      BY <2>2, <3>1, <3>3, <3>4
  <2>5. UNCHANGED <<storedBar, got>>
    BY <2>1, SameStored DEF SaveMessage, queueVars
  <2>6. Channel!Post(m, r, how)
    BY <1>1, <2>4, <2>5 DEF Channel!Post, stageBar, placeBar, storedBar
  <2> QED
    BY <2>6 DEF Channel!DeliveryNext
<1>4. CASE SendMessageToQueue(m)
  <2>1. PICK c \in {"queue", "lost"} : copy' = [copy EXCEPT ![m] = c]
    BY <1>4 DEF SendMessageToQueue
  <2>2. copy[m] = "none"
    BY <1>4 DEF SendMessageToQueue, CopyInOnePlace, OnlyForOffline
  <2> DEFINE k == IF c = "queue" THEN "waiting" ELSE "lost"
  <2>3. storedBar' = [storedBar EXCEPT ![m] = k] /\ storedBar[m] = "none"
    BY <2>1, <2>2, NewCopy DEF StoredOf, storedBar
  <2>4. /\ stageBar' = [stageBar EXCEPT ![m] = "stored"] /\ placeBar' = placeBar
        /\ stageBar[m] = "late" /\ UNCHANGED got
    BY <1>2, <1>4 DEF SendMessageToQueue, StageOf, stageBar
  <2>5. Channel!Store(m, k)
    BY <1>1, <2>3, <2>4 DEF Channel!Store, stageBar, placeBar, storedBar
  <2> QED
    BY <2>5 DEF Channel!DeliveryNext
<1>5. CASE SendMessageToQueueFails(m)
  <2>1. /\ stageBar' = [stageBar EXCEPT ![m] = "over"] /\ stageBar[m] = "late"
        /\ UNCHANGED <<placeBar, storedBar, got>>
    BY <1>2, <1>5, SameStored DEF SendMessageToQueueFails, StageOf, stageBar, queueVars
  <2>2. Channel!GiveUp(m)
    BY <1>1, <2>1 DEF Channel!GiveUp, stageBar, placeBar, storedBar
  <2> QED
    BY <2>2 DEF Channel!DeliveryNext
<1>6. CASE SendLive(m)
  <2>1. /\ stageBar' = [stageBar EXCEPT ![m] = "over"] /\ stageBar[m] \in {"live", "stored"}
        /\ UNCHANGED <<placeBar, storedBar>>
    BY <1>2, <1>6, SameStored DEF SendLive, StageOf, stageBar, queueVars
  <2>2. Channel!GiveAround(m)
    BY <1>6, BroadcastGives DEF SendLive, Channel!GiveAround, placeBar
  <2>3. Channel!Speak(m)
    BY <1>1, <2>1, <2>2 DEF Channel!Speak, stageBar, placeBar, storedBar
  <2> QED
    BY <2>3 DEF Channel!DeliveryNext
<1> QED
  BY <1>3, <1>4, <1>5, <1>6 DEF MessageStep

\* A crash interrupts everybody; the copies in a listener's hand are gone.
LEMMA CrashDelivers ==
    ASSUME ChatInv, Crash
    PROVE  [Channel!DeliveryNext]_barVars
<1> DEFINE L == {m \in Messages : copy[m] = "hand"}
<1> USE DEF ChatInv, TypeOK
<1>1. \A m \in Messages :
         /\ msg'[m].room = msg[m].room
         /\ StageOf(m)' = IF StageOf(m) = "new" THEN "new" ELSE "over"
  <2>1. ASSUME NEW m \in Messages
        PROVE  /\ msg[m] \in Message
               /\ msg'[m] = IF msg[m].pc = "new" THEN msg[m] ELSE [msg[m] EXCEPT !.pc = "done"]
    BY DEF Crash
  <2>2. ASSUME NEW m \in Messages
        PROVE  /\ msg'[m].room = msg[m].room
               /\ msg'[m].pc = IF msg[m].pc = "new" THEN "new" ELSE "done"
    BY ONLY <2>1, <2>2 DEF Message
  <2> QED
    BY <2>1, <2>2 DEF StageOf, Message
<1>2. \A m \in Messages : StoredOf(m)' = IF m \in L THEN "lost" ELSE StoredOf(m)
  BY DEF Crash, StoredOf
<1>3. /\ stageBar' = [m \in Messages |-> IF stageBar[m] = "new" THEN "new" ELSE "over"]
      /\ placeBar' = placeBar
      /\ storedBar' = [m \in Messages |-> IF m \in L THEN "lost" ELSE storedBar[m]]
      /\ \A m \in L : storedBar[m] = "waiting"
  BY <1>1, <1>2 DEF stageBar, placeBar, storedBar, StoredOf
<1>4. Channel!Interrupt(L)
  BY <1>3 DEF Crash, Channel!Interrupt, stageBar, placeBar, storedBar
<1> QED
  BY <1>4 DEF Channel!DeliveryNext

LEMMA DeliveryStep == ChatInv /\ [Next]_vars => [Channel!DeliveryNext]_barVars
<1>1. UNCHANGED vars => UNCHANGED barVars
  BY DEF vars, queueVars, barVars, stageBar, placeBar, storedBar, StageOf, StoredOf
<1> QED
  BY <1>1, SocketDelivers, HandlerDelivers, SenderDelivers, CrashDelivers DEF Next

\* Every step of the chat is a step of Delivery or none, for any rooms, sessions
\* and messages: a copy is stored once, before the broadcast, and handed over or
\* lost once, and what a session was given never changes otherwise.
THEOREM DeliveryRefinement == Spec => ImplementsDelivery
<1>1. ChatInv /\ [Next]_vars => [Channel!DeliveryNext]_(Channel!deliveryVars)
  BY DeliveryStep DEF Channel!deliveryVars, barVars, stageBar, placeBar, storedBar
<1> QED
  BY <1>1, DeliveryInitially, Inductive, PTL DEF Spec, ImplementsDelivery, Channel!DeliverySpec
=============================================================================
