------------------------------- MODULE Rental -------------------------------
(***************************************************************************)
(* Rental applications and the contracts drafted from them.                *)
(*                                                                         *)
(* A booking is one POST of a borrower: ApplicationService.                *)
(* createApplication commits the application row and the contract row in   *)
(* two transactions of their own.  A call is one request of a lender,      *)
(* updateLenderApproval or rejectContraction, each ONE transaction whose   *)
(* SQL runs at the flush before its commit.  Rows carry InnoDB's exclusive *)
(* locks, because the two calls write the same two rows in opposite order. *)
(*                                                                         *)
(* The booking's own identity stands for the ids of both rows it creates.  *)
(***************************************************************************)
EXTENDS Naturals

CONSTANTS
    Bookings,    \* createApplication requests
    Calls,       \* server threads that serve lenders' requests
    Products,
    Periods,     \* (startDate, endDate) pairs
    Users,
    OwnerOf,     \* [Products -> Users], Product.user
    MaxCrashes,  \* bound on server crashes
    None         \* no lock holder, no file, no product

ASSUME RentalAssumption ==
    /\ OwnerOf \in [Products -> Users]
    /\ MaxCrashes \in Nat
    /\ None \notin Calls /\ None \notin Bookings /\ None \notin Products

VARIABLES
    template,    \* products that have a ContractTemplate row
    booking,     \* where each createApplication request is
    slot,        \* product and period the request asks for, its row's unique key
    status,      \* Application.status of the committed row, "NONE" without a row
    contract,    \* "NONE", "OPEN" or "SIGNED": the committed contract row
    url,         \* Contract.url
    stored,      \* contract files in the S3 bucket, named by the call that sent them
    call,        \* the lender's call a thread serves
    appLock,     \* holder of the lock on each application row
    conLock,     \* holder of the lock on each contract row
    crashes

bookingVars == <<booking, slot>>
rowVars  == <<status, contract, url>>
lockVars == <<appLock, conLock>>
vars == <<template, booking, slot, status, contract, url, stored, call,
          appLock, conLock, crashes>>

ApplicationStatus == {"RESERVING", "USING", "REJECTED"}
CallPc == {"idle", "upload", "write1", "write2", "commit"}
CallRecord == [pc   : CallPc,
               kind : {"approve", "reject", None},
               b    : Bookings \cup {None},
               seen : ApplicationStatus \cup {"NONE"}]
Idle == [pc |-> "idle", kind |-> None, b |-> None, seen |-> "NONE"]

Slots == Products \X Periods
NoSlot == <<None, None>>

TypeOK ==
    /\ template \subseteq Products
    /\ booking \in [Bookings -> {"new", "read", "saved", "done"}]
    /\ slot \in [Bookings -> Slots \cup {NoSlot}]
    /\ status \in [Bookings -> ApplicationStatus \cup {"NONE"}]
    /\ contract \in [Bookings -> {"NONE", "OPEN", "SIGNED"}]
    /\ url \in [Bookings -> Calls \cup {None}]
    /\ stored \subseteq Calls
    /\ call \in [Calls -> CallRecord]
    /\ appLock \in [Bookings -> Calls \cup {None}]
    /\ conLock \in [Bookings -> Calls \cup {None}]
    /\ crashes \in 0..MaxCrashes

Init ==
    /\ template = Products
    /\ booking = [b \in Bookings |-> "new"]
    /\ slot = [b \in Bookings |-> NoSlot]
    /\ status = [b \in Bookings |-> "NONE"]
    /\ contract = [b \in Bookings |-> "NONE"]
    /\ url = [b \in Bookings |-> None]
    /\ stored = {}
    /\ call = [d \in Calls |-> Idle]
    /\ appLock = [b \in Bookings |-> None]
    /\ conLock = [b \in Bookings |-> None]
    /\ crashes = 0

-----------------------------------------------------------------------------
(* ApplicationService.createApplication                                     *)

\* The template is fetched with its product; without one the request ends in
\* orElseThrow and changes nothing.  Product.deletedAt is not looked at.
ReadTemplate(b, p, t) ==
    /\ booking[b] = "new"
    /\ p \in template
    /\ booking' = [booking EXCEPT ![b] = "read"]
    /\ slot' = [slot EXCEPT ![b] = <<p, t>>]
    /\ UNCHANGED <<template, rowVars, stored, call, lockVars, crashes>>

\* Mutant: the key leaves rejected rows out.
SlotTakenByLive(b) ==
    \E c \in Bookings : status[c] \notin {"NONE", "REJECTED"} /\ slot[c] = slot[b]

\* Unique key (startDate, endDate, product_id): any row counts, a rejected one too.
SlotTaken(b) ==
    \E c \in Bookings : status[c] # "NONE" /\ slot[c] = slot[b]

\* First transaction: INSERT into applications, status RESERVING.
SaveApplication(b) ==
    /\ booking[b] = "read"
    /\ ~SlotTaken(b)
    /\ status' = [status EXCEPT ![b] = "RESERVING"]
    /\ booking' = [booking EXCEPT ![b] = "saved"]
    /\ UNCHANGED <<template, slot, contract, url, stored, call, lockVars, crashes>>

\* DataIntegrityViolationException becomes DatabaseException.
SaveApplicationRefused(b) ==
    /\ booking[b] = "read"
    /\ SlotTaken(b)
    /\ booking' = [booking EXCEPT ![b] = "done"]
    /\ UNCHANGED <<template, slot, rowVars, stored, call, lockVars, crashes>>

\* Second transaction: ContractFactory.createContract and its INSERT.
DraftContract(b) ==
    /\ booking[b] = "saved"
    /\ contract' = [contract EXCEPT ![b] = "OPEN"]
    /\ booking' = [booking EXCEPT ![b] = "done"]
    /\ UNCHANGED <<template, slot, status, url, stored, call, lockVars, crashes>>

\* The second transaction fails; the first is already committed.
DraftContractFails(b) ==
    /\ booking[b] = "saved"
    /\ booking' = [booking EXCEPT ![b] = "done"]
    /\ UNCHANGED <<template, slot, rowVars, stored, call, lockVars, crashes>>

\* ProductDeleteServiceImpl removes the template of a deleted product.
DeleteTemplate(p) ==
    /\ p \in template
    /\ template' = template \ {p}
    /\ UNCHANGED <<bookingVars, rowVars, stored, call, lockVars, crashes>>

-----------------------------------------------------------------------------
(* ContractService: the lender's two calls                                  *)

\* Findings of the call's first reads, one REPEATABLE READ snapshot: the
\* contract must be there and the caller must be its lender.
MayDecide(d, b, u) ==
    /\ call[d].pc = "idle"
    /\ contract[b] # "NONE"
    /\ u = OwnerOf[slot[b][1]]

\* Mutant: the URL is recorded before the file is sent.
ApproveWithoutUpload(d, b, u) ==
    /\ MayDecide(d, b, u)
    /\ call' = [call EXCEPT ![d] = [pc |-> "write1", kind |-> "approve",
                                    b |-> b, seen |-> status[b]]]
    /\ UNCHANGED <<template, bookingVars, rowVars, stored, lockVars, crashes>>

Approve(d, b, u) ==
    /\ MayDecide(d, b, u)
    /\ call' = [call EXCEPT ![d] = [pc |-> "upload", kind |-> "approve",
                                    b |-> b, seen |-> status[b]]]
    /\ UNCHANGED <<template, bookingVars, rowVars, stored, lockVars, crashes>>

\* Nothing is sent to the bucket; the flush is next.
Reject(d, b, u) ==
    /\ MayDecide(d, b, u)
    /\ call' = [call EXCEPT ![d] = [pc |-> "write1", kind |-> "reject",
                                    b |-> b, seen |-> status[b]]]
    /\ UNCHANGED <<template, bookingVars, rowVars, stored, lockVars, crashes>>

UploadContractFile(d) ==
    /\ call[d].pc = "upload"
    /\ stored' = stored \cup {d}
    /\ call' = [call EXCEPT ![d].pc = "write1"]
    /\ UNCHANGED <<template, bookingVars, rowVars, lockVars, crashes>>

\* Locks held by the callers in D are dropped, their writes undone.
ReleaseLocks(D) ==
    /\ appLock' = [b \in Bookings |-> IF appLock[b] \in D THEN None ELSE appLock[b]]
    /\ conLock' = [b \in Bookings |-> IF conLock[b] \in D THEN None ELSE conLock[b]]

\* Mutant: the transaction is left open when its request is over.
RollbackKeepsLocks(d) ==
    /\ call' = [call EXCEPT ![d] = Idle]
    /\ UNCHANGED <<template, bookingVars, rowVars, stored, lockVars, crashes>>

Rollback(d) ==
    /\ call' = [call EXCEPT ![d] = Idle]
    /\ ReleaseLocks({d})
    /\ UNCHANGED <<template, bookingVars, rowVars, stored, crashes>>

\* An IOException of the upload becomes S3BucketException and rolls back.
UploadFails(d) ==
    /\ call[d].pc = "upload"
    /\ Rollback(d)

\* Which row the call's next SQL statement writes.  Hibernate flushes updates
\* in the order the entities were loaded, contract then application, and
\* deletes after every update.
WritesContract(d) ==
    \/ call[d].kind = "approve" /\ call[d].pc = "write1"
    \/ call[d].kind = "reject"  /\ call[d].pc = "write2"

WritesApplication(d) ==
    \/ call[d].kind = "approve" /\ call[d].pc = "write2"
    \/ call[d].kind = "reject"  /\ call[d].pc = "write1"

NewStatus(d) == IF call[d].kind = "approve" THEN "USING" ELSE "REJECTED"

\* The flush writes an entity only when it differs from what was loaded.
DirtyApplication(d) == call[d].seen # NewStatus(d)

NextWrite(d) ==
    call' = [call EXCEPT ![d].pc = IF @ = "write1" THEN "write2" ELSE "commit"]

\* Mutant: the row is written without waiting for the other transaction.
WriteContractUnlocked(d) ==
    /\ WritesContract(d)
    /\ contract[call[d].b] # "NONE"
    /\ conLock' = [conLock EXCEPT ![call[d].b] = d]
    /\ NextWrite(d)
    /\ UNCHANGED <<template, bookingVars, rowVars, stored, appLock, crashes>>

\* Mutant: the statement's row count is not looked at.
WriteContractBlindly(d) ==
    /\ WritesContract(d)
    /\ conLock[call[d].b] = None
    /\ conLock' = [conLock EXCEPT ![call[d].b] = d]
    /\ NextWrite(d)
    /\ UNCHANGED <<template, bookingVars, rowVars, stored, appLock, crashes>>

\* UPDATE or DELETE of the contract row, once its lock is free.
WriteContract(d) ==
    /\ WritesContract(d)
    /\ conLock[call[d].b] = None
    /\ contract[call[d].b] # "NONE"
    /\ conLock' = [conLock EXCEPT ![call[d].b] = d]
    /\ NextWrite(d)
    /\ UNCHANGED <<template, bookingVars, rowVars, stored, appLock, crashes>>

\* Another call has deleted the row: Hibernate counts 0 rows instead of 1,
\* throws and the transaction rolls back.
WriteContractStale(d) ==
    /\ WritesContract(d)
    /\ conLock[call[d].b] = None
    /\ contract[call[d].b] = "NONE"
    /\ Rollback(d)

WriteApplication(d) ==
    /\ WritesApplication(d)
    /\ DirtyApplication(d)
    /\ appLock[call[d].b] = None
    /\ appLock' = [appLock EXCEPT ![call[d].b] = d]
    /\ NextWrite(d)
    /\ UNCHANGED <<template, bookingVars, rowVars, stored, conLock, crashes>>

SkipApplication(d) ==
    /\ WritesApplication(d)
    /\ ~DirtyApplication(d)
    /\ NextWrite(d)
    /\ UNCHANGED <<template, bookingVars, rowVars, stored, lockVars, crashes>>

CommitApproval(d) ==
    /\ call[d].pc = "commit" /\ call[d].kind = "approve"
    /\ LET b == call[d].b IN
       /\ contract' = [contract EXCEPT ![b] = "SIGNED"]
       /\ url' = [url EXCEPT ![b] = d]
       /\ status' = [status EXCEPT ![b] = IF DirtyApplication(d) THEN NewStatus(d) ELSE @]
    /\ call' = [call EXCEPT ![d] = Idle]
    /\ ReleaseLocks({d})
    /\ UNCHANGED <<template, bookingVars, stored, crashes>>

CommitRejection(d) ==
    /\ call[d].pc = "commit" /\ call[d].kind = "reject"
    /\ LET b == call[d].b IN
       /\ contract' = [contract EXCEPT ![b] = "NONE"]
       /\ url' = [url EXCEPT ![b] = None]
       /\ status' = [status EXCEPT ![b] = IF DirtyApplication(d) THEN NewStatus(d) ELSE @]
    /\ call' = [call EXCEPT ![d] = Idle]
    /\ ReleaseLocks({d})
    /\ UNCHANGED <<template, bookingVars, stored, crashes>>

-----------------------------------------------------------------------------
(* The database and the server around them                                  *)

\* d waits for a lock that e holds while e waits for one that d holds.
WaitsFor(d, e) ==
    \/ WritesContract(d) /\ conLock[call[d].b] = e
    \/ WritesApplication(d) /\ DirtyApplication(d) /\ appLock[call[d].b] = e

\* InnoDB finds the cycle and rolls one of the two transactions back.
DeadlockVictim(d) ==
    /\ \E e \in Calls : WaitsFor(d, e) /\ WaitsFor(e, d)
    /\ Rollback(d)

\* The server dies: requests end where they are, MySQL rolls back what is open.
Crash ==
    /\ crashes < MaxCrashes
    /\ crashes' = crashes + 1
    /\ booking' = [b \in Bookings |-> IF booking[b] = "new" THEN "new" ELSE "done"]
    /\ call' = [d \in Calls |-> Idle]
    /\ ReleaseLocks(Calls)
    /\ UNCHANGED <<template, slot, rowVars, stored>>

BookingStep(b) ==
    \/ SaveApplication(b)
    \/ SaveApplicationRefused(b)
    \/ DraftContract(b)
    \/ DraftContractFails(b)

CallStep(d) ==
    \/ UploadContractFile(d)
    \/ UploadFails(d)
    \/ WriteContract(d)
    \/ WriteContractStale(d)
    \/ WriteApplication(d)
    \/ SkipApplication(d)
    \/ CommitApproval(d)
    \/ CommitRejection(d)

Next ==
    \/ \E b \in Bookings, p \in Products, t \in Periods : ReadTemplate(b, p, t)
    \/ \E b \in Bookings : BookingStep(b)
    \/ \E p \in Products : DeleteTemplate(p)
    \/ \E d \in Calls, b \in Bookings, u \in Users : Approve(d, b, u) \/ Reject(d, b, u)
    \/ \E d \in Calls : CallStep(d) \/ DeadlockVictim(d)
    \/ Crash

\* Request threads keep running.  A lock is granted in the order it was asked
\* for, so a call that finds its lock free again and again gets it.  One victim
\* of a cycle is enough, whichever it is.  Nobody has to send a request.
Fairness ==
    /\ \A b \in Bookings : WF_vars(BookingStep(b))
    /\ \A d \in Calls : SF_vars(CallStep(d))
    /\ WF_vars(\E d \in Calls : DeadlockVictim(d))

Spec == Init /\ [][Next]_vars
FairSpec == Spec /\ Fairness

-----------------------------------------------------------------------------
(* Properties                                                               *)

\* An application is in use exactly while its contract is signed by the lender,
\* and the signed contract's file is in the bucket, whatever approvals and
\* rejections of the same contract overlap (ContractService 57-89).
UsingIffSigned ==
    \A b \in Bookings :
        /\ status[b] = "USING" <=> contract[b] = "SIGNED"
        /\ contract[b] = "SIGNED" => url[b] \in stored

\* A rejection is final: no overlapping approval that read the contract before
\* it was deleted brings the application back (Application.markAsRejected).
RejectionIsFinal ==
    [][\A b \in Bookings : status[b] = "REJECTED" => status'[b] = "REJECTED"]_vars

\* The two rows read together as one deal of the abstract specification; a pair
\* of rows that means nothing there is "broken".
DealOf(b) ==
    CASE status[b] = "NONE"      /\ contract[b] = "NONE"   -> "none"
      [] status[b] = "RESERVING" /\ contract[b] = "NONE"   -> "requested"
      [] status[b] = "RESERVING" /\ contract[b] = "OPEN"   -> "offered"
      [] status[b] = "USING"     /\ contract[b] = "SIGNED" -> "agreed"
      [] status[b] = "REJECTED"  /\ contract[b] = "NONE"   -> "refused"
      [] OTHER -> "broken"

ClaimOf(b) == IF status[b] = "NONE" THEN NoSlot ELSE slot[b]

Deal == INSTANCE Agreement WITH
    Deals <- Bookings,
    deal  <- [b \in Bookings |-> DealOf(b)],
    claim <- [b \in Bookings |-> ClaimOf(b)]

\* Two rows written by four transactions of three kinds of request still move
\* like one deal: every slot goes to one application, a deal is decided only
\* once its contract is drafted, no crash or rollback shows half of a decision.
ImplementsAgreement == Deal!AgreementSpec

\* Approval and rejection lock the two rows in opposite order; each started
\* call still ends, committed, failed or as the victim of a deadlock.
EveryCallEnds ==
    \A d \in Calls : call[d].pc # "idle" ~> call[d].pc = "idle"

\* The two calls lock their rows in opposite order (ContractService 57-89).  A
\* chain of waiting calls never grows beyond two that wait for each other, one
\* approval and one rejection of the same contract, so that rolling back one of
\* such a pair frees whoever waits.
DeadlocksArePairs ==
    \A d, e, f, g \in Calls :
        WaitsFor(d, e) /\ WaitsFor(e, f) /\ WaitsFor(f, g) =>
            /\ e = g
            /\ call[e].b = call[f].b
            /\ {call[e].kind, call[f].kind} = {"approve", "reject"}

\* ApplicationService 51-52 follows every accepted application by the draft of
\* its contract: once the request is over, a pending application has one.
PendingHasDraft ==
    \A b \in Bookings :
        status[b] = "RESERVING" /\ booking[b] = "done" => contract[b] # "NONE"
-----------------------------------------------------------------------------
(* The inductive invariant                                                  *)

Active(d) == call[d].pc # "idle"

\* A request that asked for no slot yet, or was not accepted, has no rows; until
\* it is over its application is pending and undrafted.
BookingProgress ==
    \A b \in Bookings :
        /\ IF booking[b] = "new" THEN slot[b] = NoSlot ELSE slot[b] \in Slots
        /\ booking[b] \in {"new", "read"} => status[b] = "NONE"
        /\ booking[b] = "saved" => status[b] = "RESERVING" /\ contract[b] = "NONE"

\* The pairs of rows that mean something, and the file of a signed contract.
RowsAgree ==
    \A b \in Bookings :
        /\ status[b] \in {"NONE", "REJECTED"} => contract[b] = "NONE"
        /\ status[b] = "RESERVING" => contract[b] # "SIGNED"
        /\ status[b] = "USING" => contract[b] = "SIGNED"
        /\ contract[b] = "SIGNED" => url[b] \in stored

\* The unique key of applications.
OneApplicationPerSlot ==
    \A b, c \in Bookings :
        status[b] # "NONE" /\ status[c] # "NONE" /\ slot[b] = slot[c] => b = c

\* A call works on a booking whose request is over and whose application it saw
\* pending or in use; an approval writes only after its upload.
CallsSound ==
    \A d \in Calls : Active(d) =>
        /\ call[d].b \in Bookings
        /\ booking[call[d].b] = "done"
        /\ call[d].seen \in {"RESERVING", "USING"}
        /\ \/ call[d].kind = "approve" /\ (call[d].pc # "upload" => d \in stored)
           \/ call[d].kind = "reject" /\ call[d].pc # "upload"

\* The rows a call has written are the rows it has locked.
HoldsContract(d) ==
    \/ call[d].kind = "approve" /\ call[d].pc \in {"write2", "commit"}
    \/ call[d].kind = "reject"  /\ call[d].pc = "commit"

HoldsApplication(d) ==
    \/ call[d].kind = "approve" /\ call[d].pc = "commit"
    \/ call[d].kind = "reject"  /\ call[d].pc \in {"write2", "commit"}

LocksSound ==
    \A d \in Calls, b \in Bookings :
        /\ conLock[b] = d => Active(d) /\ call[d].b = b /\ HoldsContract(d)
        /\ Active(d) /\ call[d].b = b /\ HoldsContract(d) =>
               conLock[b] = d /\ contract[b] # "NONE"
        /\ appLock[b] = d => Active(d) /\ call[d].b = b /\ HoldsApplication(d)

\* What a call read is stale only in ways its writes tolerate: an application
\* seen in use is in use as long as its contract exists.
ReadsSound ==
    \A d \in Calls :
        Active(d) /\ call[d].seen = "USING" /\ contract[call[d].b] # "NONE" =>
            status[call[d].b] = "USING"

RentalInv ==
    /\ TypeOK
    /\ BookingProgress
    /\ RowsAgree
    /\ OneApplicationPerSlot
    /\ CallsSound
    /\ LocksSound
    /\ ReadsSound
=============================================================================
