---------------------------- MODULE RentalProofs ----------------------------
(* Theorems about Rental, for any number of bookings, calls and products.  *)
EXTENDS Rental, TLAPS

USE RentalAssumption

-----------------------------------------------------------------------------
(* Type correctness                                                         *)

LEMMA IdleType == Idle \in CallRecord
BY DEF Idle, CallRecord, CallPc

LEMMA NewPcType ==
    ASSUME NEW r \in CallRecord, NEW pc \in CallPc
    PROVE  [r EXCEPT !.pc = pc] \in CallRecord
BY DEF CallRecord

\* Moving one call's program counter keeps the type of all calls.
LEMMA NewPcCalls ==
    ASSUME call \in [Calls -> CallRecord], NEW d \in Calls, NEW pc \in CallPc,
           call' = [call EXCEPT ![d].pc = pc]
    PROVE  /\ call' \in [Calls -> CallRecord]
           /\ call'[d] = [call[d] EXCEPT !.pc = pc]
           /\ \A e \in Calls : e # d => call'[e] = call[e]
<1>1. call' = [call EXCEPT ![d] = [call[d] EXCEPT !.pc = pc]]
  OBVIOUS
<1>2. [call[d] EXCEPT !.pc = pc] \in CallRecord
  BY NewPcType
<1> QED
  BY <1>1, <1>2

LEMMA InitTypeOK == Init => TypeOK
BY IdleType DEF Init, TypeOK

LEMMA NextTypeOK == TypeOK /\ [Next]_vars => TypeOK'
<1> SUFFICES ASSUME TypeOK, [Next]_vars PROVE TypeOK'
  OBVIOUS
<1> USE DEF TypeOK, Slots, ApplicationStatus
<1>1. ASSUME NEW b \in Bookings, NEW p \in Products, NEW t \in Periods, ReadTemplate(b, p, t)
      PROVE TypeOK'
  BY <1>1 DEF ReadTemplate, rowVars, lockVars
<1>2. ASSUME NEW b \in Bookings, BookingStep(b) PROVE TypeOK'
  BY <1>2 DEF BookingStep, SaveApplication, SaveApplicationRefused, DraftContract,
              DraftContractFails, rowVars, lockVars
<1>3. ASSUME NEW p \in Products, DeleteTemplate(p) PROVE TypeOK'
  BY <1>3 DEF DeleteTemplate, bookingVars, rowVars, lockVars
<1>4. ASSUME NEW d \in Calls, NEW b \in Bookings, NEW u \in Users,
             Approve(d, b, u) \/ Reject(d, b, u)
      PROVE TypeOK'
  BY <1>4 DEF Approve, Reject, MayDecide, CallRecord, CallPc, ApplicationStatus,
              bookingVars, rowVars, lockVars
<1>5. ASSUME NEW d \in Calls, Rollback(d) PROVE TypeOK'
  <2>1. call' \in [Calls -> CallRecord]
    BY IdleType, <1>5 DEF Rollback
  <2> QED
    BY <2>1, <1>5 DEF Rollback, ReleaseLocks, bookingVars, rowVars
<1>6. ASSUME NEW d \in Calls, CallStep(d) PROVE TypeOK'
  <2>1. CASE UploadContractFile(d)
    <3>1. call' \in [Calls -> CallRecord]
      BY <2>1, NewPcCalls DEF UploadContractFile, CallPc
    <3> QED
      BY <3>1, <2>1 DEF UploadContractFile, bookingVars, rowVars, lockVars
  <2>2. CASE UploadFails(d) \/ WriteContractStale(d)
    BY <2>2, <1>5 DEF UploadFails, WriteContractStale
  <2>3. ASSUME NextWrite(d) PROVE call' \in [Calls -> CallRecord]
    <3> DEFINE pc == IF call[d].pc = "write1" THEN "write2" ELSE "commit"
    <3>1. pc \in CallPc
      BY DEF CallPc
    <3>2. call' = [call EXCEPT ![d].pc = pc]
      BY <2>3 DEF NextWrite
    <3> QED
      BY <3>1, <3>2, NewPcCalls
  <2>4. CASE WriteContract(d)
    <3>1. call' \in [Calls -> CallRecord]
      BY <2>3, <2>4 DEF WriteContract
    <3> QED
      BY <3>1, <2>4 DEF WriteContract, bookingVars, rowVars
  <2>5. CASE WriteApplication(d)
    <3>1. call' \in [Calls -> CallRecord]
      BY <2>3, <2>5 DEF WriteApplication
    <3> QED
      BY <3>1, <2>5 DEF WriteApplication, bookingVars, rowVars
  <2>6. CASE SkipApplication(d)
    <3>1. call' \in [Calls -> CallRecord]
      BY <2>3, <2>6 DEF SkipApplication
    <3> QED
      BY <3>1, <2>6 DEF SkipApplication, bookingVars, rowVars, lockVars
  <2>7. CASE CommitApproval(d)
    <3>1. call' \in [Calls -> CallRecord]
      BY IdleType, <2>7 DEF CommitApproval
    <3> QED
      BY <3>1, <2>7 DEF CommitApproval, NewStatus, ReleaseLocks, bookingVars
  <2>8. CASE CommitRejection(d)
    <3>1. call' \in [Calls -> CallRecord]
      BY IdleType, <2>8 DEF CommitRejection
    <3> QED
      BY <3>1, <2>8 DEF CommitRejection, NewStatus, ReleaseLocks, bookingVars
  <2> QED
    BY <1>6, <2>1, <2>2, <2>4, <2>5, <2>6, <2>7, <2>8 DEF CallStep
<1>7. ASSUME NEW d \in Calls, DeadlockVictim(d) PROVE TypeOK'
  BY <1>5, <1>7 DEF DeadlockVictim
<1>8. CASE Crash
  <2>1. call' \in [Calls -> CallRecord]
    BY IdleType, <1>8 DEF Crash
  <2> QED
    BY <2>1, <1>8 DEF Crash, ReleaseLocks, rowVars
<1>9. CASE UNCHANGED vars
  BY <1>9 DEF vars
<1> QED
  BY <1>1, <1>2, <1>3, <1>4, <1>6, <1>7, <1>8, <1>9 DEF Next

\* Every reachable state has its type (the domain of every row, lock and call).
THEOREM TypeCorrect == Spec => []TypeOK
BY InitTypeOK, NextTypeOK, PTL DEF Spec

-----------------------------------------------------------------------------
(* The inductive invariant                                                  *)

LEMMA NoSlotIsNone == NoSlot \notin Slots
BY DEF NoSlot, Slots

LEMMA NoneActive == ASSUME NEW d \in Calls, call[d] = Idle PROVE ~Active(d)
BY DEF Active, Idle

\* What UploadContractFile and NextWrite do to the calls.
LEMMA NewPcFields ==
    ASSUME call \in [Calls -> CallRecord], NEW d \in Calls, NEW pc \in CallPc,
           call' = [call EXCEPT ![d].pc = pc]
    PROVE  /\ call'[d].pc = pc
           /\ call'[d].kind = call[d].kind
           /\ call'[d].b = call[d].b
           /\ call'[d].seen = call[d].seen
           /\ \A e \in Calls : e # d => call'[e] = call[e]
<1>1. call[d] \in CallRecord
  OBVIOUS
<1>2. call'[d] = [call[d] EXCEPT !.pc = pc] /\ \A e \in Calls : e # d => call'[e] = call[e]
  BY NewPcCalls
<1> QED
  BY <1>1, <1>2 DEF CallRecord

LEMMA NextWriteFields ==
    ASSUME TypeOK, NEW d \in Calls, NextWrite(d)
    PROVE  /\ call'[d].pc = IF call[d].pc = "write1" THEN "write2" ELSE "commit"
           /\ call'[d].kind = call[d].kind
           /\ call'[d].b = call[d].b
           /\ call'[d].seen = call[d].seen
           /\ \A e \in Calls : e # d => call'[e] = call[e]
<1> DEFINE pc == IF call[d].pc = "write1" THEN "write2" ELSE "commit"
<1>1. pc \in CallPc
  BY DEF CallPc
<1>2. call' = [call EXCEPT ![d].pc = pc]
  BY DEF NextWrite
<1> QED
  BY <1>1, <1>2, NewPcFields DEF TypeOK

LEMMA InitInv == Init => RentalInv
<1> SUFFICES ASSUME Init PROVE RentalInv
  OBVIOUS
<1>1. \A d \in Calls : ~Active(d)
  BY NoneActive DEF Init
<1>2. BookingProgress /\ RowsAgree /\ OneApplicationPerSlot
  BY DEF Init, BookingProgress, RowsAgree, OneApplicationPerSlot
<1>3. CallsSound /\ ReadsSound
  BY <1>1 DEF CallsSound, ReadsSound
<1>4. LocksSound
  BY <1>1 DEF Init, LocksSound
<1> QED
  BY <1>2, <1>3, <1>4, InitTypeOK DEF RentalInv

\* A call that commits holds the contract's lock, alone, and the row is there.
LEMMA CommitHolds ==
    ASSUME RentalInv, NEW d \in Calls, CommitApproval(d) \/ CommitRejection(d)
    PROVE  /\ call'[d] = Idle /\ ~Active(d)' /\ Active(d)
           /\ \A e \in Calls : e # d => call'[e] = call[e]
           /\ call[d].b \in Bookings /\ booking[call[d].b] = "done"
           /\ conLock[call[d].b] = d /\ contract[call[d].b] # "NONE"
<1>1. call'[d] = Idle /\ \A e \in Calls : e # d => call'[e] = call[e]
  BY DEF CommitApproval, CommitRejection, RentalInv, TypeOK
<1>2. Active(d) /\ HoldsContract(d)
  BY DEF CommitApproval, CommitRejection, Active, HoldsContract
<1>3. call[d].b \in Bookings /\ booking[call[d].b] = "done"
  BY <1>2 DEF RentalInv, CallsSound
<1>4. conLock[call[d].b] = d /\ contract[call[d].b] # "NONE"
  BY <1>2, <1>3 DEF RentalInv, LocksSound
<1> QED
  BY <1>1, <1>2, <1>3, <1>4 DEF Active, Idle

\* An approval that skips the application's UPDATE finds it in use already.
LEMMA ApprovalRows ==
    ASSUME RentalInv, NEW d \in Calls, CommitApproval(d)
    PROVE  /\ status' = [status EXCEPT ![call[d].b] = "USING"]
           /\ contract' = [contract EXCEPT ![call[d].b] = "SIGNED"]
           /\ url' = [url EXCEPT ![call[d].b] = d]
           /\ UNCHANGED <<bookingVars, stored>>
           /\ status[call[d].b] \in {"RESERVING", "USING"}
<1>1. DirtyApplication(d) \/ status[call[d].b] = "USING"
  BY CommitHolds DEF DirtyApplication, NewStatus, CommitApproval, ReadsSound, RentalInv
<1>2. status[call[d].b] \in {"RESERVING", "USING"}
  BY CommitHolds DEF RentalInv, TypeOK, RowsAgree, ApplicationStatus
<1>3. status' = [status EXCEPT ![call[d].b] = "USING"]
  BY <1>1, CommitHolds DEF CommitApproval, NewStatus, RentalInv, TypeOK
<1> QED
  BY <1>2, <1>3 DEF CommitApproval

\* A rejection never skips it.
LEMMA RejectionRows ==
    ASSUME RentalInv, NEW d \in Calls, CommitRejection(d)
    PROVE  /\ status' = [status EXCEPT ![call[d].b] = "REJECTED"]
           /\ contract' = [contract EXCEPT ![call[d].b] = "NONE"]
           /\ url' = [url EXCEPT ![call[d].b] = None]
           /\ UNCHANGED <<bookingVars, stored>>
<1>1. DirtyApplication(d)
  BY CommitHolds DEF DirtyApplication, NewStatus, CommitRejection, CallsSound, RentalInv
<1> QED
  BY <1>1 DEF CommitRejection, NewStatus

LEMMA NextInv == RentalInv /\ [Next]_vars => RentalInv'
<1> SUFFICES ASSUME RentalInv, [Next]_vars PROVE RentalInv'
  OBVIOUS
<1>0. TypeOK /\ TypeOK'
  BY NextTypeOK DEF RentalInv
<1> USE <1>0
<1> DEFINE Rest == BookingProgress /\ RowsAgree /\ OneApplicationPerSlot
                   /\ CallsSound /\ LocksSound /\ ReadsSound
<1> USE DEF RentalInv
<1>1. ASSUME NEW b \in Bookings, NEW p \in Products, NEW t \in Periods, ReadTemplate(b, p, t)
      PROVE Rest'
  <2> USE <1>1 DEF ReadTemplate, rowVars, lockVars, TypeOK
  <2>1. BookingProgress'
    BY DEF BookingProgress, Slots
  <2>2. RowsAgree'
    BY DEF RowsAgree
  <2>3. OneApplicationPerSlot'
    BY DEF OneApplicationPerSlot, BookingProgress
  <2>4. CallsSound'
    BY DEF CallsSound, Active
  <2>5. LocksSound' /\ ReadsSound'
    BY DEF LocksSound, ReadsSound, Active, HoldsContract, HoldsApplication
  <2> QED
    BY <2>1, <2>2, <2>3, <2>4, <2>5
<1>2. ASSUME NEW b \in Bookings, BookingStep(b) PROVE Rest'
  <2> USE DEF rowVars, lockVars, TypeOK
  <2>1. CASE SaveApplication(b)
    BY <2>1 DEF SaveApplication, SlotTaken, BookingProgress, RowsAgree, OneApplicationPerSlot,
                CallsSound, LocksSound, ReadsSound, Active, HoldsContract, HoldsApplication
  <2>2. CASE SaveApplicationRefused(b) \/ DraftContractFails(b)
    BY <2>2 DEF SaveApplicationRefused, DraftContractFails, BookingProgress, RowsAgree,
                OneApplicationPerSlot, CallsSound, LocksSound, ReadsSound, Active,
                HoldsContract, HoldsApplication
  <2>3. CASE DraftContract(b)
    BY <2>3 DEF DraftContract, BookingProgress, RowsAgree, OneApplicationPerSlot,
                CallsSound, LocksSound, ReadsSound, Active, HoldsContract, HoldsApplication
  <2> QED
    BY <1>2, <2>1, <2>2, <2>3 DEF BookingStep
<1>3. ASSUME NEW p \in Products, DeleteTemplate(p) PROVE Rest'
  BY <1>3 DEF DeleteTemplate, bookingVars, rowVars, lockVars, BookingProgress, RowsAgree,
              OneApplicationPerSlot, CallsSound, LocksSound, ReadsSound, Active,
              HoldsContract, HoldsApplication
<1>4. ASSUME NEW d \in Calls, NEW b \in Bookings, NEW u \in Users,
             Approve(d, b, u) \/ Reject(d, b, u)
      PROVE Rest'
  <2> USE DEF MayDecide, bookingVars, rowVars, lockVars, TypeOK
  <2>1. /\ ~Active(d) /\ contract[b] # "NONE"
        /\ UNCHANGED <<bookingVars, rowVars, stored, lockVars>>
        /\ call'[d].b = b /\ call'[d].seen = status[b]
        /\ \/ call'[d].kind = "approve" /\ call'[d].pc = "upload"
           \/ call'[d].kind = "reject" /\ call'[d].pc = "write1"
        /\ \A e \in Calls : e # d => call'[e] = call[e]
    BY <1>4 DEF Approve, Reject, Active
  <2>2. booking[b] = "done" /\ status[b] \in {"RESERVING", "USING"}
    BY <2>1 DEF BookingProgress, RowsAgree, ApplicationStatus
  <2>3. BookingProgress' /\ RowsAgree' /\ OneApplicationPerSlot'
    BY <2>1 DEF BookingProgress, RowsAgree, OneApplicationPerSlot
  <2>4. CallsSound'
    BY <2>1, <2>2 DEF CallsSound, Active
  <2>5. LocksSound'
    BY <2>1 DEF LocksSound, Active, HoldsContract, HoldsApplication
  <2>6. ReadsSound'
    BY <2>1 DEF ReadsSound, Active
  <2> QED
    BY <2>3, <2>4, <2>5, <2>6
<1>5. ASSUME NEW d \in Calls, Rollback(d) PROVE Rest'
  <2> USE DEF Rollback, ReleaseLocks, bookingVars, rowVars, TypeOK
  <2>1. /\ call'[d] = Idle /\ ~Active(d)'
        /\ \A e \in Calls : e # d => call'[e] = call[e]
    BY <1>5 DEF Active, Idle
  <2>2. BookingProgress' /\ RowsAgree' /\ OneApplicationPerSlot'
    BY <1>5 DEF BookingProgress, RowsAgree, OneApplicationPerSlot
  <2>3. CallsSound' /\ ReadsSound'
    BY <1>5, <2>1 DEF CallsSound, ReadsSound, Active
  <2>4. LocksSound'
    BY <1>5, <2>1 DEF LocksSound, Active, HoldsContract, HoldsApplication
  <2> QED
    BY <2>2, <2>3, <2>4
<1>6. ASSUME NEW d \in Calls, CallStep(d) PROVE Rest'
  <2> USE DEF bookingVars, rowVars, lockVars, TypeOK
  <2>1. CASE UploadContractFile(d)
    <3>1. /\ call'[d].pc = "write1" /\ call'[d].kind = call[d].kind
          /\ call'[d].b = call[d].b /\ call'[d].seen = call[d].seen
          /\ \A e \in Calls : e # d => call'[e] = call[e]
      BY <2>1, NewPcFields DEF UploadContractFile, CallPc
    <3>2. BookingProgress' /\ RowsAgree' /\ OneApplicationPerSlot'
      BY <2>1 DEF UploadContractFile, BookingProgress, RowsAgree, OneApplicationPerSlot
    <3>3. CallsSound' /\ ReadsSound'
      BY <2>1, <3>1 DEF UploadContractFile, CallsSound, ReadsSound, Active
    <3>4. LocksSound'
      BY <2>1, <3>1 DEF UploadContractFile, LocksSound, Active, HoldsContract, HoldsApplication
    <3> QED
      BY <3>2, <3>3, <3>4
  <2>2. CASE UploadFails(d) \/ WriteContractStale(d)
    BY <2>2, <1>5 DEF UploadFails, WriteContractStale
  <2>3. ASSUME NextWrite(d), call[d].pc \in {"write1", "write2"},
               UNCHANGED <<bookingVars, rowVars, stored>>
        PROVE  /\ BookingProgress' /\ RowsAgree' /\ OneApplicationPerSlot'
               /\ CallsSound' /\ ReadsSound'
    <3>1. BookingProgress' /\ RowsAgree' /\ OneApplicationPerSlot'
      BY <2>3 DEF BookingProgress, RowsAgree, OneApplicationPerSlot
    <3>2. CallsSound' /\ ReadsSound'
      BY <2>3, NextWriteFields DEF CallsSound, ReadsSound, Active
    <3> QED
      BY <3>1, <3>2
  <2>4. CASE WriteContract(d)
    <3>1. LocksSound'
      BY <2>4, NextWriteFields
         DEF WriteContract, WritesContract, LocksSound, Active, HoldsContract, HoldsApplication, CallsSound
    <3> QED
      BY <2>4, <2>3, <3>1 DEF WriteContract, WritesContract
  <2>5. CASE WriteApplication(d)
    <3>1. LocksSound'
      BY <2>5, NextWriteFields
         DEF WriteApplication, WritesApplication, LocksSound, Active, HoldsContract, HoldsApplication, CallsSound
    <3> QED
      BY <2>5, <2>3, <3>1 DEF WriteApplication, WritesApplication
  <2>6. CASE SkipApplication(d)
    <3>1. LocksSound'
      BY <2>6, NextWriteFields
         DEF SkipApplication, WritesApplication, LocksSound, Active, HoldsContract, HoldsApplication
    <3> QED
      BY <2>6, <2>3, <3>1 DEF SkipApplication, WritesApplication
  <2>8. ASSUME CommitApproval(d) \/ CommitRejection(d), BookingProgress', RowsAgree', ReadsSound',
               \A b \in Bookings : b # call[d].b => status'[b] = status[b] /\ contract'[b] = contract[b],
               status'[call[d].b] # "NONE"
        PROVE  Rest'
    <3> USE <2>8, CommitHolds
    <3>1. /\ UNCHANGED <<bookingVars, stored>>
          /\ ReleaseLocks({d})
      BY DEF CommitApproval, CommitRejection
    <3>2. OneApplicationPerSlot'
      <4>1. status[call[d].b] # "NONE"
        BY DEF RowsAgree
      <4> QED
        BY <3>1, <4>1 DEF OneApplicationPerSlot
    <3>3. CallsSound'
      BY <3>1 DEF CallsSound, Active
    <3>4. LocksSound'
      BY <3>1 DEF LocksSound, Active, HoldsContract, HoldsApplication, ReleaseLocks
    <3> QED
      BY <3>2, <3>3, <3>4
  <2>9. CASE CommitApproval(d)
    <3> DEFINE b == call[d].b
    <3> USE <2>9, CommitHolds
    <3>1. /\ status' = [status EXCEPT ![b] = "USING"]
          /\ contract' = [contract EXCEPT ![b] = "SIGNED"]
          /\ url' = [url EXCEPT ![b] = d]
          /\ UNCHANGED <<bookingVars, stored>>
      BY ApprovalRows
    <3>2. d \in stored
      BY DEF CallsSound, CommitApproval
    <3>3. BookingProgress'
      BY <3>1 DEF BookingProgress
    <3>4. RowsAgree'
      BY <3>1, <3>2 DEF RowsAgree
    <3>5. ReadsSound'
      BY <3>1 DEF ReadsSound, Active
    <3> QED
      BY <2>8, <3>1, <3>3, <3>4, <3>5
  <2>10. CASE CommitRejection(d)
    <3> DEFINE b == call[d].b
    <3> USE <2>10, CommitHolds
    <3>1. /\ status' = [status EXCEPT ![b] = "REJECTED"]
          /\ contract' = [contract EXCEPT ![b] = "NONE"]
          /\ url' = [url EXCEPT ![b] = None]
          /\ UNCHANGED <<bookingVars, stored>>
      BY RejectionRows
    <3>2. BookingProgress'
      BY <3>1 DEF BookingProgress
    <3>3. RowsAgree'
      BY <3>1 DEF RowsAgree
    <3>4. ReadsSound'
      BY <3>1 DEF ReadsSound, Active
    <3> QED
      BY <2>8, <3>1, <3>2, <3>3, <3>4
  <2> QED
    BY <1>6, <2>1, <2>2, <2>4, <2>5, <2>6, <2>9, <2>10 DEF CallStep
<1>7. ASSUME NEW d \in Calls, DeadlockVictim(d) PROVE Rest'
  BY <1>5, <1>7 DEF DeadlockVictim
<1>8. CASE Crash
  <2> USE DEF TypeOK, rowVars
  <2>1. /\ \A d \in Calls : call'[d] = Idle
        /\ \A d \in Calls : ~Active(d)'
        /\ UNCHANGED <<slot, rowVars, stored>>
        /\ \A b \in Bookings : booking'[b] = IF booking[b] = "new" THEN "new" ELSE "done"
    BY <1>8 DEF Crash, Active, Idle
  <2>2. \A b \in Bookings : appLock'[b] = None /\ conLock'[b] = None
    BY <1>8 DEF Crash, ReleaseLocks
  <2>3. BookingProgress' /\ RowsAgree' /\ OneApplicationPerSlot'
    BY <2>1 DEF BookingProgress, RowsAgree, OneApplicationPerSlot
  <2>4. CallsSound' /\ ReadsSound'
    BY <2>1 DEF CallsSound, ReadsSound
  <2>5. LocksSound'
    BY <2>1, <2>2 DEF LocksSound
  <2> QED
    BY <2>3, <2>4, <2>5
<1>9. CASE UNCHANGED vars
  BY <1>9 DEF vars, BookingProgress, RowsAgree, OneApplicationPerSlot, CallsSound,
              LocksSound, ReadsSound, Active, HoldsContract, HoldsApplication
<1> QED
  BY <1>1, <1>2, <1>3, <1>4, <1>6, <1>7, <1>8, <1>9 DEF Next

\* The rows, the locks and what the calls have read fit together in every
\* reachable state.
THEOREM Inductive == Spec => []RentalInv
BY InitInv, NextInv, PTL DEF Spec

\* No overlap of approvals and rejections, with rollbacks, deadlocks and
\* crashes in between, leaves an application in use without its signed
\* contract, or a signed contract without its file.
THEOREM UsingSigned == Spec => []UsingIffSigned
<1>1. RentalInv => UsingIffSigned
  BY DEF RentalInv, TypeOK, RowsAgree, UsingIffSigned, ApplicationStatus
<1> QED
  BY <1>1, Inductive, PTL

-----------------------------------------------------------------------------
(* Who waits for whom                                                       *)

\* A call waits for a call that works on the same contract and holds a lock on
\* one of its rows.
LEMMA WaitedForHolds ==
    ASSUME RentalInv, NEW d \in Calls, NEW e \in Calls, WaitsFor(d, e)
    PROVE  /\ Active(d) /\ Active(e)
           /\ call[d].b \in Bookings /\ call[e].b = call[d].b
           /\ \/ WritesContract(d) /\ conLock[call[d].b] = e /\ HoldsContract(e)
              \/ WritesApplication(d) /\ appLock[call[d].b] = e /\ HoldsApplication(e)
<1>1. Active(d)
  BY DEF WaitsFor, WritesContract, WritesApplication, Active
<1>2. call[d].b \in Bookings
  BY <1>1 DEF RentalInv, CallsSound
<1> QED
  BY <1>1, <1>2 DEF WaitsFor, RentalInv, LocksSound

\* A call that is waited for and waits itself has written one of its two rows:
\* the contract as an approval, the application as a rejection.
LEMMA WaitsInTheMiddle ==
    ASSUME RentalInv, NEW d \in Calls, NEW e \in Calls, NEW f \in Calls,
           WaitsFor(d, e), WaitsFor(e, f)
    PROVE  \/ call[e].kind = "approve" /\ conLock[call[e].b] = e /\ appLock[call[e].b] = f
           \/ call[e].kind = "reject"  /\ appLock[call[e].b] = e /\ conLock[call[e].b] = f
<1>1. \/ HoldsContract(e) /\ conLock[call[e].b] = e
      \/ HoldsApplication(e) /\ appLock[call[e].b] = e
  BY WaitedForHolds
<1>2. \/ WritesContract(e) /\ conLock[call[e].b] = f
      \/ WritesApplication(e) /\ appLock[call[e].b] = f
  BY WaitedForHolds
<1> QED
  BY <1>1, <1>2 DEF HoldsContract, HoldsApplication, WritesContract, WritesApplication

\* Chains of waiting calls close after two: looking for pairs, as DeadlockVictim
\* does, misses no deadlock, however many calls there are.
THEOREM DeadlockPairs == Spec => []DeadlocksArePairs
<1>1. ASSUME RentalInv, NEW d \in Calls, NEW e \in Calls, NEW f \in Calls, NEW g \in Calls,
             WaitsFor(d, e), WaitsFor(e, f), WaitsFor(f, g)
      PROVE  e = g /\ call[e].b = call[f].b /\ {call[e].kind, call[f].kind} = {"approve", "reject"}
  <2>1. call[f].b = call[e].b
    BY <1>1, WaitedForHolds
  <2>2. e # f
    BY <1>1, WaitsInTheMiddle, WaitedForHolds
       DEF HoldsContract, HoldsApplication, WritesContract, WritesApplication
  <2>3. /\ \/ call[e].kind = "approve" /\ conLock[call[e].b] = e /\ appLock[call[e].b] = f
           \/ call[e].kind = "reject"  /\ appLock[call[e].b] = e /\ conLock[call[e].b] = f
        /\ \/ call[f].kind = "approve" /\ conLock[call[f].b] = f /\ appLock[call[f].b] = g
           \/ call[f].kind = "reject"  /\ appLock[call[f].b] = f /\ conLock[call[f].b] = g
    BY <1>1, WaitsInTheMiddle
  <2>4. \/ call[e].kind = "approve" /\ call[f].kind = "reject"
        \/ call[e].kind = "reject" /\ call[f].kind = "approve"
    BY <2>1, <2>2, <2>3
  <2>5. e = g
    BY <2>1, <2>3, <2>4
  <2> QED
    BY <2>1, <2>4, <2>5
<1>2. RentalInv => DeadlocksArePairs
  BY <1>1 DEF DeadlocksArePairs
<1> QED
  BY <1>2, Inductive, PTL

-----------------------------------------------------------------------------
(* What one step may do to the rows                                         *)

\* The edges of a deal's life, seen in the rows.
Stays ==
    /\ UNCHANGED <<status, contract>>
    /\ \A b \in Bookings : status[b] # "NONE" => slot'[b] = slot[b]

Accepted(b) ==
    /\ status[b] = "NONE" /\ contract[b] = "NONE"
    /\ slot[b] \in Slots
    /\ \A c \in Bookings : status[c] # "NONE" => slot[c] # slot[b]
    /\ status' = [status EXCEPT ![b] = "RESERVING"]
    /\ UNCHANGED <<contract, slot>>

Drafted(b) ==
    /\ status[b] = "RESERVING" /\ contract[b] = "NONE"
    /\ contract' = [contract EXCEPT ![b] = "OPEN"]
    /\ UNCHANGED <<status, slot>>

Decided(b, st, con) ==
    /\ status[b] \in {"RESERVING", "USING"} /\ contract[b] # "NONE"
    /\ status' = [status EXCEPT ![b] = st]
    /\ contract' = [contract EXCEPT ![b] = con]
    /\ UNCHANGED slot

LEMMA RowMoves ==
    ASSUME RentalInv, [Next]_vars
    PROVE  \/ Stays
           \/ \E b \in Bookings : \/ Accepted(b)
                                 \/ Drafted(b)
                                 \/ Decided(b, "USING", "SIGNED")
                                 \/ Decided(b, "REJECTED", "NONE")
<1> USE DEF RentalInv, TypeOK, bookingVars, rowVars
<1>1. ASSUME NEW b \in Bookings, NEW p \in Products, NEW t \in Periods, ReadTemplate(b, p, t)
      PROVE Stays
  BY <1>1 DEF ReadTemplate, Stays, BookingProgress
<1>2. ASSUME NEW b \in Bookings, BookingStep(b)
      PROVE Stays \/ Accepted(b) \/ Drafted(b)
  <2>1. CASE SaveApplication(b)
    BY <2>1 DEF SaveApplication, SlotTaken, Accepted, BookingProgress, RowsAgree
  <2>2. CASE SaveApplicationRefused(b) \/ DraftContractFails(b)
    BY <2>2 DEF SaveApplicationRefused, DraftContractFails, Stays
  <2>3. CASE DraftContract(b)
    BY <2>3 DEF DraftContract, Drafted, BookingProgress
  <2> QED
    BY <1>2, <2>1, <2>2, <2>3 DEF BookingStep
<1>3. ASSUME NEW p \in Products, DeleteTemplate(p) PROVE Stays
  BY <1>3 DEF DeleteTemplate, Stays
<1>4. ASSUME NEW d \in Calls, NEW b \in Bookings, NEW u \in Users,
             Approve(d, b, u) \/ Reject(d, b, u)
      PROVE Stays
  BY <1>4 DEF Approve, Reject, Stays
<1>5. ASSUME NEW d \in Calls, CallStep(d) \/ DeadlockVictim(d)
      PROVE Stays \/ Decided(call[d].b, "USING", "SIGNED") \/ Decided(call[d].b, "REJECTED", "NONE")
  <2>1. CASE CommitApproval(d)
    BY <2>1, CommitHolds, ApprovalRows DEF Decided
  <2>2. CASE CommitRejection(d)
    <3>1. status[call[d].b] \in {"RESERVING", "USING"}
      BY <2>2, CommitHolds DEF RowsAgree, ApplicationStatus
    <3> QED
      BY <2>2, <3>1, CommitHolds, RejectionRows DEF Decided
  <2>3. CASE ~CommitApproval(d) /\ ~CommitRejection(d)
    BY <1>5, <2>3 DEF CallStep, DeadlockVictim, UploadContractFile, UploadFails, Rollback,
       WriteContract, WriteContractStale, WriteApplication, SkipApplication, Stays
  <2> QED
    BY <2>1, <2>2, <2>3
<1>6. ASSUME NEW d \in Calls, CallStep(d) \/ DeadlockVictim(d),
             ~Stays
      PROVE call[d].b \in Bookings
  BY <1>6, CommitHolds DEF CallStep, DeadlockVictim, UploadContractFile, UploadFails, Rollback,
     WriteContract, WriteContractStale, WriteApplication, SkipApplication, Stays
<1>7. CASE Crash
  BY <1>7 DEF Crash, Stays
<1>8. CASE UNCHANGED vars
  BY <1>8 DEF vars, Stays
<1> QED
  BY <1>1, <1>2, <1>3, <1>4, <1>5, <1>6, <1>7, <1>8 DEF Next

\* A rejection is final, whatever approval read the contract before it went.
THEOREM Final == Spec => RejectionIsFinal
<1>1. ASSUME RentalInv, [Next]_vars, NEW b \in Bookings, status[b] = "REJECTED"
      PROVE  status'[b] = "REJECTED"
  BY <1>1, RowMoves DEF Stays, Accepted, Drafted, Decided, RentalInv, TypeOK
<1>2. RentalInv /\ [Next]_vars =>
        [\A b \in Bookings : status[b] = "REJECTED" => status'[b] = "REJECTED"]_vars
  BY <1>1
<1> QED
  BY <1>2, Inductive, PTL DEF Spec, RejectionIsFinal

-----------------------------------------------------------------------------
(* Refinement                                                               *)

dealBar  == [b \in Bookings |-> DealOf(b)]
claimBar == [b \in Bookings |-> ClaimOf(b)]

LEMMA DealInit == Init => Deal!AgreementInit
BY DEF Init, Deal!AgreementInit, DealOf, ClaimOf

LEMMA DealStep ==
    ASSUME RentalInv, RentalInv', [Next]_vars
    PROVE  [Deal!AgreementNext]_<<dealBar, claimBar>>
<1> USE DEF RentalInv, TypeOK
<1>1. CASE Stays
  <2>1. \A b \in Bookings : DealOf(b)' = DealOf(b) /\ ClaimOf(b)' = ClaimOf(b)
    BY <1>1 DEF Stays, DealOf, ClaimOf
  <2> QED
    BY <2>1 DEF dealBar, claimBar
<1>2. ASSUME NEW b \in Bookings, Accepted(b) PROVE Deal!Request(b, slot[b])
  <2>1. dealBar[b] = "none" /\ \A c \in Bookings : claimBar[c] # slot[b]
    BY <1>2, NoSlotIsNone DEF Accepted, dealBar, claimBar, DealOf, ClaimOf
  <2>2. dealBar' = [dealBar EXCEPT ![b] = "requested"]
    BY <1>2 DEF Accepted, dealBar, DealOf
  <2>3. claimBar' = [claimBar EXCEPT ![b] = slot[b]]
    BY <1>2 DEF Accepted, claimBar, ClaimOf
  <2> QED
    BY <2>1, <2>2, <2>3 DEF Deal!Request, dealBar, claimBar
<1>3. ASSUME NEW b \in Bookings, Drafted(b) PROVE Deal!Offer(b)
  <2>1. dealBar[b] = "requested" /\ claimBar' = claimBar
    BY <1>3 DEF Drafted, dealBar, claimBar, DealOf, ClaimOf
  <2>2. dealBar' = [dealBar EXCEPT ![b] = "offered"]
    BY <1>3 DEF Drafted, dealBar, DealOf
  <2> QED
    BY <2>1, <2>2 DEF Deal!Offer, Deal!Move, dealBar, claimBar
<1>4. ASSUME NEW b \in Bookings, Decided(b, "USING", "SIGNED") PROVE Deal!Accept(b)
  <2>1. dealBar[b] \in {"offered", "agreed"} /\ claimBar' = claimBar
    BY <1>4 DEF Decided, dealBar, claimBar, DealOf, ClaimOf, RowsAgree
  <2>2. dealBar' = [dealBar EXCEPT ![b] = "agreed"]
    BY <1>4 DEF Decided, dealBar, DealOf
  <2> QED
    BY <2>1, <2>2 DEF Deal!Accept, Deal!Move, dealBar, claimBar
<1>5. ASSUME NEW b \in Bookings, Decided(b, "REJECTED", "NONE") PROVE Deal!Refuse(b)
  <2>1. dealBar[b] \in {"offered", "agreed"} /\ claimBar' = claimBar
    BY <1>5 DEF Decided, dealBar, claimBar, DealOf, ClaimOf, RowsAgree
  <2>2. dealBar' = [dealBar EXCEPT ![b] = "refused"]
    BY <1>5 DEF Decided, dealBar, DealOf
  <2> QED
    BY <2>1, <2>2 DEF Deal!Refuse, Deal!Move, dealBar, claimBar
<1> QED
  BY <1>1, <1>2, <1>3, <1>4, <1>5, RowMoves DEF Deal!AgreementNext, Accepted

\* The rows of a booking move like one deal of Agreement.
THEOREM Refinement == Spec => ImplementsAgreement
<1>1. RentalInv /\ RentalInv' /\ [Next]_vars => [Deal!AgreementNext]_(Deal!agreementVars)
  BY DealStep DEF Deal!agreementVars, dealBar, claimBar
<1> QED
  BY <1>1, DealInit, Inductive, PTL DEF Spec, ImplementsAgreement, Deal!AgreementSpec
=============================================================================
