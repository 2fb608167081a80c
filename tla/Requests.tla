------------------------------ MODULE Requests ------------------------------
(***************************************************************************)
(* The HTTP handlers, and the one connection to the database they share.   *)
(* DataAccessorImpl connects once, when the database is first needed;      *)
(* net/http runs every handler in a goroutine of its own, and all of them  *)
(* use that connection, which is one session of the database and so has    *)
(* one transaction at a time.                                              *)
(*                                                                         *)
(* A request first looks things up (its user and machine, the key or the   *)
(* machines it names), then writes, mostly in a transaction begun with     *)
(* StartTx and ended by the deferred RollbackFunc, which commits or rolls  *)
(* back according to the handler's variable err.                           *)
(*                                                                         *)
(* The driver (pgx) and the database are external.  The driver refuses a   *)
(* statement while another is on the wire; it closes the connection when   *)
(* BEGIN or ROLLBACK is refused or fails, and when COMMIT is and the       *)
(* session is in a transaction; nothing opens it again.                    *)
(***************************************************************************)
EXTENDS Naturals, FiniteSets

CONSTANTS
    Requests,     (* the requests, each handled once                         *)
    Kinds,        (* the handlers that take part                             *)
    Overlapping,  (* whether a request may arrive while another is handled   *)
    NoOne         (* no request                                              *)

(***************************************************************************)
(* Each handler, as the place it goes to from each place when all is well  *)
(* and after a write that failed.  The loops over entries, and the two     *)
(* statements that create a row, are one or two writes: "first", "second". *)
(***************************************************************************)
InitialSetup ==
    [idle |-> "begin", begin |-> "first", first |-> "second",
     second |-> "commit", error |-> "rollback"]

(* The rest of the form is read between the writes, and the answer is       *)
(* written before the deferred commit.                                      *)
AddData ==
    [idle |-> "lookup", lookup |-> "begin", begin |-> "first",
     first |-> "files", files |-> "second", second |-> "encode",
     encode |-> "commit", error |-> "rollback"]

DeleteData ==
    [idle |-> "lookup", lookup |-> "begin", begin |-> "first",
     first |-> "commit", error |-> "rollback"]

PostKeyRotation ==
    [idle |-> "lookup", lookup |-> "begin", begin |-> "first",
     first |-> "second", second |-> "commit", error |-> "rollback"]

(* DeleteMachine has a transaction of its own.  Its deferred function looks *)
(* at an err that a failed statement, whose err is of an inner scope, does  *)
(* not set: the transaction is left as it is.                               *)
DeleteMachine ==
    [idle |-> "lookup", lookup |-> "begin", begin |-> "first",
     first |-> "commit", error |-> "left"]

(* One statement and no transaction: these two, and the row that pairing a  *)
(* machine creates.                                                         *)
DeleteKeyRotation ==
    [idle |-> "lookup", lookup |-> "first", first |-> "done", error |-> "done"]

UpdateMachineKey == DeleteKeyRotation

CreateMachine == DeleteKeyRotation

(* What a request for data reads, as one look-up.                           *)
GetData == [idle |-> "lookup", lookup |-> "done", error |-> "done"]

Handler ==
    [initialSetup |-> InitialSetup, addData |-> AddData,
     deleteData |-> DeleteData, postKeyRotation |-> PostKeyRotation,
     deleteMachine |-> DeleteMachine, deleteKeyRotation |-> DeleteKeyRotation,
     updateMachineKey |-> UpdateMachineKey, createMachine |-> CreateMachine,
     getData |-> GetData]

ASSUME RequestsAssumption ==
    /\ Kinds \subseteq DOMAIN Handler
    /\ Overlapping \in BOOLEAN
    /\ NoOne \notin Requests

VARIABLES
    kind,     (* the handler of each request                                 *)
    at,       (* where each handler is                                       *)
    code,     (* the status the client was or will be sent                   *)
    conn,     (* the connection: up, or closed for good                      *)
    busy,     (* the request whose statement is on the wire                  *)
    tx,       (* the session's transaction: none, open or failed             *)
    pending,  (* the writes of the open transaction                          *)
    stored    (* the writes that are committed                               *)

hvars == <<kind, at, code>>
dvars == <<conn, busy, tx, pending, stored>>
vars  == <<hvars, dvars>>

Places == {"idle", "lookup", "begin", "first", "files", "second", "encode",
           "commit", "rollback", "done", "left"}
Codes  == {"none", "ok", "fail"}

WritePlaces == {"first", "second"}
Statement   == WritePlaces \union {"lookup", "begin", "commit", "rollback"}
InFlight    == Places \ {"idle", "done", "left"}

WritesOf(r) == {r} \X (WritePlaces \intersect DOMAIN Handler[kind[r]])

Init ==
    /\ kind \in [Requests -> Kinds]
    /\ at = [r \in Requests |-> "idle"]
    /\ code = [r \in Requests |-> "none"]
    /\ conn = "up" /\ busy = NoOne
    /\ tx = "none" /\ pending = {} /\ stored = {}

-----------------------------------------------------------------------------
(* The connection.                                                          *)

(* A statement goes on the wire when nothing else is.                      *)
Send(r) ==
    /\ at[r] \in Statement
    /\ conn = "up" /\ busy = NoOne
    /\ busy' = r
    /\ UNCHANGED <<hvars, conn, tx, pending, stored>>

(* Variant: a handler also gives up on its own statement.                  *)
RefusedAnyTime(r) == busy # NoOne \/ conn = "dead"

(* The driver refuses it: another is on the wire, or there is no connection. *)
Refused(r) == busy # r /\ (busy # NoOne \/ conn = "dead")

(* The connection is closed and the session with it.  A commit, or a write *)
(* outside a transaction, that was on the wire may have taken effect.      *)
OnTheWire ==
    IF busy = NoOne THEN {}
    ELSE IF at[busy] = "commit" THEN pending
    ELSE IF at[busy] \in WritePlaces /\ tx = "none" THEN {<<busy, at[busy]>>}
    ELSE {}

Breaks ==
    /\ conn' = "dead" /\ busy' = NoOne
    /\ tx' = "none" /\ pending' = {}
    /\ stored' \in {stored, stored \union OnTheWire}

(* The answer to r's statement has arrived.                                *)
Answered(r) == busy = r /\ busy' = NoOne /\ UNCHANGED conn

-----------------------------------------------------------------------------
(* The handlers.                                                            *)

Goes(r, to)  == at' = [at EXCEPT ![r] = to]
Fails(r, to) == Goes(r, to) /\ code' = [code EXCEPT ![r] = "fail"]

(* Goes to the next place; a handler that returns without a status sends 200. *)
GoesOn(r) ==
    LET next == Handler[kind[r]][at[r]] IN
    /\ Goes(r, next)
    /\ code' = IF next = "done" THEN [code EXCEPT ![r] = "ok"] ELSE code

Arrive(r) ==
    /\ at[r] = "idle"
    /\ Overlapping \/ \A q \in Requests : at[q] \notin InFlight
    /\ GoesOn(r)
    /\ UNCHANGED <<kind, dvars>>

(* What the transaction can be after a look-up that ended the request: one  *)
(* that the database answers with an error makes the open transaction fail, *)
(* which can be another handler's; one that finds nothing does not.         *)
AfterLookup == IF tx = "open" THEN {"open", "failed"} ELSE {tx}

(* Variant: a look-up that is refused is tried again.                      *)
LookupRetries(r) ==
    /\ at[r] = "lookup"
    /\ \/ Answered(r) /\ tx # "failed" /\ GoesOn(r) /\ UNCHANGED tx
       \/ Answered(r) /\ tx' \in AfterLookup /\ UNCHANGED <<at, code>>
       \/ Refused(r) /\ UNCHANGED <<at, code, conn, busy, tx>>
    /\ UNCHANGED <<kind, pending, stored>>

(* A look-up that fails or finds nothing ends the request.                 *)
Lookup(r) ==
    /\ at[r] = "lookup"
    /\ \/ Answered(r) /\ tx # "failed" /\ GoesOn(r) /\ UNCHANGED tx
       \/ Answered(r) /\ tx' \in AfterLookup /\ Fails(r, "done")
       \/ Refused(r) /\ Fails(r, "done") /\ UNCHANGED <<conn, busy, tx>>
    /\ UNCHANGED <<kind, pending, stored>>

(* Variant: no transaction is begun.                                       *)
BeginNothing(r) ==
    /\ at[r] = "begin"
    /\ Answered(r) /\ tx # "failed"
    /\ GoesOn(r)
    /\ UNCHANGED <<kind, tx, pending, stored>>

(* StartTx.  In a session whose transaction is open, BEGIN is a warning.   *)
Begin(r) ==
    /\ at[r] = "begin"
    /\ Answered(r) /\ tx # "failed"
    /\ tx' = "open"
    /\ GoesOn(r)
    /\ UNCHANGED <<kind, pending, stored>>

(* Variant: StartTx waits until the connection is free.                    *)
BeginWaits(r) ==
    /\ at[r] = "begin"
    /\ busy = r /\ tx = "failed"
    /\ Breaks
    /\ Fails(r, "done")
    /\ UNCHANGED kind

BeginFails(r) ==
    /\ at[r] = "begin"
    /\ (busy = r /\ tx = "failed") \/ Refused(r)
    /\ Breaks
    /\ Fails(r, "done")
    /\ UNCHANGED kind

Write(r) ==
    /\ at[r] \in WritePlaces
    /\ Answered(r) /\ tx # "failed"
    /\ IF tx = "open"
       THEN pending' = pending \union {<<r, at[r]>>} /\ UNCHANGED stored
       ELSE stored' = stored \union {<<r, at[r]>>} /\ UNCHANGED pending
    /\ GoesOn(r)
    /\ UNCHANGED <<kind, tx>>

(* A statement that fails makes the open transaction fail.  A user name     *)
(* that is taken is found by a query that does not.                         *)
AfterError(r) ==
    IF tx # "open" THEN {tx}
    ELSE {"failed"} \union (IF kind[r] = "initialSetup" THEN {"open"} ELSE {})

(* Variant: RollbackFunc is not deferred.                                  *)
WriteFailsBare(r) ==
    /\ at[r] \in WritePlaces
    /\ \/ Answered(r) /\ tx' \in AfterError(r)
       \/ Refused(r) /\ UNCHANGED <<conn, busy, tx>>
    /\ Fails(r, IF kind[r] = "deleteMachine" THEN "left" ELSE "done")
    /\ UNCHANGED <<kind, pending, stored>>

WriteFails(r) ==
    /\ at[r] \in WritePlaces
    /\ \/ Answered(r) /\ tx' \in AfterError(r)
       \/ Refused(r) /\ UNCHANGED <<conn, busy, tx>>
    /\ Fails(r, Handler[kind[r]].error)
    /\ UNCHANGED <<kind, pending, stored>>

(* The rest of an upload's form.  Known hosts that cannot be decoded set    *)
(* err.  An error of a file is reported to the client but kept in an err of *)
(* the loop's scope: RollbackFunc finds none and commits.                   *)
ReadFiles(r) ==
    /\ at[r] = "files"
    /\ GoesOn(r) \/ Fails(r, "rollback") \/ Fails(r, "commit")
    /\ UNCHANGED <<kind, dvars>>

(* addData writes its answer: the status is 200, whatever comes after.     *)
Encode(r) ==
    /\ at[r] = "encode"
    /\ Goes(r, Handler[kind[r]].encode)
    /\ code' = [code EXCEPT ![r] = "ok"]
    /\ UNCHANGED <<kind, dvars>>

(* The handler returns with this status unless it has sent another.        *)
Returns(r, status) ==
    /\ Goes(r, "done")
    /\ code' = IF code[r] = "none" THEN [code EXCEPT ![r] = status] ELSE code

(* RollbackFunc without an error.  In a session without a transaction,     *)
(* COMMIT is a warning.                                                    *)
Commit(r) ==
    /\ at[r] = "commit"
    /\ Answered(r) /\ tx # "failed"
    /\ stored' = stored \union pending
    /\ tx' = "none" /\ pending' = {}
    /\ Returns(r, "ok")
    /\ UNCHANGED kind

(* Variant: the error of the commit is only logged.                        *)
CommitFailsQuietly(r) ==
    /\ at[r] = "commit"
    /\ \/ /\ Answered(r) /\ tx # "none"
          /\ tx' = "none" /\ pending' = {} /\ UNCHANGED stored
       \/ Refused(r) /\ tx # "none" /\ Breaks
       \/ Refused(r) /\ tx = "none" /\ UNCHANGED dvars
    /\ Returns(r, "ok")
    /\ UNCHANGED kind

(* The commit fails in the database, which drops the writes, or the driver *)
(* refuses it and closes the connection if the session is in a transaction.*)
(* The rollback that follows finds the transaction closed.                 *)
CommitFails(r) ==
    /\ at[r] = "commit"
    /\ \/ /\ Answered(r) /\ tx # "none"
          /\ tx' = "none" /\ pending' = {} /\ UNCHANGED stored
       \/ Refused(r) /\ tx # "none" /\ Breaks
       \/ Refused(r) /\ tx = "none" /\ UNCHANGED dvars
    /\ Returns(r, "fail")
    /\ UNCHANGED kind

(* Variant: RollbackFunc is given an err that is never set, and commits.   *)
RollbackCommits(r) ==
    /\ at[r] = "rollback"
    /\ \/ /\ Answered(r) /\ tx' = "none" /\ pending' = {}
          /\ stored' = stored \union (IF tx = "open" THEN pending ELSE {})
       \/ Refused(r) /\ Breaks
    /\ Goes(r, "done")
    /\ UNCHANGED <<kind, code>>

(* RollbackFunc after an error.                                            *)
Rollback(r) ==
    /\ at[r] = "rollback"
    /\ \/ Answered(r) /\ tx' = "none" /\ pending' = {} /\ UNCHANGED stored
       \/ Refused(r) /\ Breaks
    /\ Goes(r, "done")
    /\ UNCHANGED <<kind, code>>

-----------------------------------------------------------------------------
(* The database or the network drops the connection.                       *)
ConnectionLost ==
    /\ conn = "up"
    /\ Breaks
    /\ UNCHANGED hvars

(* The process ends and is started again, with a new connection.  An answer *)
(* is complete when its handler returns: these handlers sent none.          *)
Restart ==
    /\ at' = [r \in Requests |-> IF at[r] \in InFlight THEN "done" ELSE at[r]]
    /\ code' = [r \in Requests |-> IF at[r] \in InFlight THEN "none" ELSE code[r]]
    /\ conn' = "up" /\ busy' = NoOne /\ tx' = "none" /\ pending' = {}
    /\ stored' \in {stored, stored \union OnTheWire}
    /\ UNCHANGED kind

-----------------------------------------------------------------------------

Step(r) ==
    \/ Send(r)       \/ Lookup(r)      \/ Begin(r)      \/ BeginFails(r)
    \/ Write(r)      \/ WriteFails(r)  \/ ReadFiles(r)  \/ Encode(r)
    \/ Commit(r)     \/ CommitFails(r) \/ Rollback(r)

Next ==
    \/ \E r \in Requests : Arrive(r) \/ Step(r)
    \/ ConnectionLost
    \/ Restart

Spec     == Init /\ [][Next]_vars

(* Go runs every handler, and the driver's calls return.                    *)
FairSpec == Spec /\ \A r \in Requests : WF_vars(Step(r))

-----------------------------------------------------------------------------
(* Every variable has its type: the statement on the wire is that of a      *)
(* handler that waits for it, and the session has uncommitted writes only   *)
(* in a transaction.                                                        *)
TypeOK ==
    /\ kind \in [Requests -> Kinds]
    /\ at \in [Requests -> Places]
    /\ code \in [Requests -> Codes]
    /\ conn \in {"up", "dead"}
    /\ busy \in {r \in Requests : at[r] \in Statement} \union {NoOne}
    /\ tx \in {"none", "open", "failed"}
    /\ pending \subseteq Requests \X WritePlaces
    /\ stored \subseteq Requests \X WritePlaces
    /\ tx = "none" => pending = {}

(* When nothing is being handled no transaction is open: every path from    *)
(* StartTx ends it, except DeleteMachine's when its statement fails.        *)
OnlyRemovalsLeak ==
    (\A r \in Requests : at[r] \notin InFlight) /\ tx # "none" =>
        \E r \in Requests : at[r] = "left"

(* An upload whose files could not be read.                                 *)
FilesUnread(r) == kind[r] = "addData" /\ at[r] = "commit" /\ code[r] = "fail"

(* Requests handled one at a time take effect at once and entirely: a step  *)
(* stores nothing or all the writes of one request.  The exception is an    *)
(* upload whose files cannot be read, which stores its first write.         *)
AtomicEffect ==
    [][stored' # stored =>
         \E r \in Requests :
            stored' = stored \union
                (IF FilesUnread(r) THEN {<<r, "first">>} ELSE WritesOf(r))]_vars

(* Handled one at a time, a request that is answered with success has been  *)
(* stored.  The exception is an upload, answered before its commit.         *)
SuccessIsStored ==
    \A r \in Requests :
        at[r] = "done" /\ code[r] = "ok" /\ kind[r] # "addData" =>
            WritesOf(r) \subseteq stored

(* A request that has failed or been cut off, is bound to be, or is an      *)
(* upload, whose success says nothing.                                      *)
Spoiler(q) ==
    \/ at[q] \in {"done", "left"} /\ (code[q] # "ok" \/ kind[q] = "addData")
    \/ at[q] = "rollback"
    \/ at[q] \in InFlight /\ conn = "dead"

(* However requests overlap and mix their transactions, a success that is   *)
(* not kept goes with the failure of another (transaction.go:72-88,         *)
(* database/main.go:46): if all requests are answered with success, uploads *)
(* apart, everything they wrote is stored, or still in the transaction of   *)
(* one that goes on.                                                        *)
NoSilentLoss ==
    \A r \in Requests :
        at[r] = "done" /\ code[r] = "ok" /\ kind[r] # "addData" =>
            \/ WritesOf(r) \subseteq stored \union pending
            \/ \E q \in Requests \ {r} : Spoiler(q)

(* Handled one at a time, requests close the connection only if a failed    *)
(* removal left its transaction behind.                                     *)
OnlyLeaksBreak ==
    [][conn = "up" /\ conn' = "dead" =>
         ConnectionLost \/ \E r \in Requests : at[r] = "left"]_vars

(* How many steps a handler can still take: what is left of its route, each *)
(* statement to be sent and answered while there is a connection.           *)
Distance ==
    [idle |-> 0, done |-> 0, left |-> 0, rollback |-> 1, commit |-> 2,
     encode |-> 3, second |-> 4, files |-> 5, first |-> 6, begin |-> 7,
     lookup |-> 8]

Left(r) == 2 * Distance[at[r]]
             + (IF at[r] \in InFlight /\ conn = "up" /\ busy # r THEN 1 ELSE 0)

(* Each step of a handler brings it nearer to its end, and no step of       *)
(* another, which can have the connection, break it or close its            *)
(* transaction, nor a lost connection or a restart takes it further away:   *)
(* with 17 steps of its own a request is over, retries nothing and waits in *)
(* no loop.  A new step of a request is its arrival alone.                  *)
StepsRunOut ==
    [][\A r \in Requests : at[r] # "idle" =>
          /\ Left(r)' <= Left(r)
          /\ Step(r) => Left(r)' < Left(r)]_vars

(* Every request that arrives is answered or ends, whatever the others do   *)
(* and whether or not there is a connection.                                *)
EveryRequestEnds ==
    \A r \in Requests : at[r] \in InFlight ~> at[r] \notin InFlight

(* Whoever is told of success can rely on it.  pkg/database/query/          *)
(* transaction.go, lines 81 to 86, is to answer 500 for a commit that       *)
(* failed; the tests of the handlers expect 200 together with the commit.   *)
AckedIsStored ==
    \A r \in Requests :
        at[r] = "done" /\ code[r] = "ok" => WritesOf(r) \subseteq stored

(* pkg/web/router/routes/data_test.go, line 305, in TestAddDataError: an    *)
(* upload answered with 500 is rolled back.                                 *)
RefusedIsUnstored ==
    \A r \in Requests :
        at[r] = "done" /\ kind[r] = "addData" /\ code[r] = "fail" =>
            WritesOf(r) \intersect stored = {}
=============================================================================
