-------------------------- MODULE RequestsInvariant --------------------------
(***************************************************************************)
(* Why Requests' properties hold: what ties the place of a handler to the  *)
(* transaction of the session, for handlers that overlap and, more exactly,*)
(* for handlers that run one at a time.                                    *)
(***************************************************************************)
EXTENDS Requests

TxKinds    == {"initialSetup", "addData", "deleteData", "postKeyRotation",
               "deleteMachine"}
TwoWrites  == {"initialSetup", "addData", "postKeyRotation"}
PlainKinds == {"deleteKeyRotation", "updateMachineKey", "createMachine"}

(* Between StartTx and the end of RollbackFunc.                            *)
TxPlaces == {"first", "files", "second", "encode", "commit", "rollback"}

InTx(r) == kind[r] \in TxKinds /\ at[r] \in TxPlaces

(* Each handler is at a place of its own.                                  *)
OwnPlace ==
    \A r \in Requests :
        /\ at[r] = "lookup" => kind[r] # "initialSetup"
        /\ at[r] \in {"begin", "commit"} => kind[r] \in TxKinds
        /\ at[r] = "first" => kind[r] # "getData"
        /\ at[r] \in {"files", "encode"} => kind[r] = "addData"
        /\ at[r] = "second" => kind[r] \in TwoWrites
        /\ at[r] = "rollback" => kind[r] \in TxKinds \ {"deleteMachine"}

(* An open or failed transaction has a handler that will end it, or had one *)
(* that did not.                                                            *)
TxHasOwner ==
    tx # "none" => \E r \in Requests : InTx(r) \/ at[r] = "left"

LeakInv == TypeOK /\ OwnPlace /\ TxHasOwner

(* What a handler that is not failing has written.                         *)
Made(r) ==
    IF at[r] = "second" THEN {<<r, "first">>}
    ELSE IF at[r] = "commit" \/ (at[r] = "done" /\ code[r] = "ok") THEN WritesOf(r)
    ELSE {}

(* It is still there, if the handler can still succeed, or another request  *)
(* has taken it away.                                                       *)
MadeIsKept ==
    \A r \in Requests :
        kind[r] # "addData" =>
            \/ Made(r) \subseteq stored \union pending
            \/ at[r] \in InFlight /\ conn = "dead"
            \/ \E q \in Requests \ {r} : Spoiler(q)

-----------------------------------------------------------------------------
(* One request at a time.                                                   *)

OneInFlight ==
    \A q, r \in Requests : at[q] \in InFlight /\ at[r] \in InFlight => q = r

DeadIsFree == conn = "dead" => busy = NoOne /\ tx = "none"

(* What a handler has written when it is at a place.                       *)
WrittenBy(r) ==
    IF at[r] \in {"files", "second"} \/ FilesUnread(r) THEN {<<r, "first">>}
    ELSE IF at[r] \in {"encode", "commit"} THEN WritesOf(r)
    ELSE {}

(* A handler in its transaction finds it open and holding what it wrote, as *)
(* long as there is a connection.                                           *)
TxIsOwn ==
    \A r \in Requests :
        kind[r] \in TxKinds /\ at[r] \in TxPlaces \ {"rollback"} /\ conn = "up" =>
            tx = "open" /\ pending = WrittenBy(r)

(* Outside of one no transaction is open, and one that failed was left.    *)
TxIsNot ==
    (\A r \in Requests : ~InTx(r)) => tx # "open" /\ pending = {}

PlainWithoutTx ==
    \A r \in Requests : kind[r] \in PlainKinds /\ at[r] = "first" => tx = "none"

FailedWasLeft ==
    tx = "failed" => \E r \in Requests : at[r] \in {"rollback", "left"}

NoEarlyAnswer ==
    \A r \in Requests :
        /\ at[r] = "idle" => code[r] = "none"
        /\ at[r] \in InFlight /\ code[r] = "ok" => kind[r] = "addData"
        /\ at[r] \in {"rollback", "left"} => code[r] = "fail"

(* With these two, what makes overlapping requests keep NoSilentLoss.       *)
MixedInv == LeakInv /\ DeadIsFree /\ NoEarlyAnswer /\ MadeIsKept

AloneInv ==
    /\ LeakInv /\ OneInFlight /\ DeadIsFree /\ TxIsOwn /\ TxIsNot
    /\ PlainWithoutTx /\ FailedWasLeft /\ NoEarlyAnswer /\ SuccessIsStored

-----------------------------------------------------------------------------
(* Requests that do not overlap as a Service.                               *)

(* Nothing of a request is stored before it arrives, nor while it runs and  *)
(* there is a connection.                                                   *)
Fresh ==
    \A r \in Requests :
        at[r] = "idle" \/ (at[r] \in InFlight /\ conn = "up") =>
            WritesOf(r) \intersect stored = {}

(* A handler that still runs has decided its answer only on its way to the  *)
(* rollback, or, an upload, to the commit.                                  *)
AnsweredLate ==
    \A r \in Requests :
        at[r] \in InFlight /\ code[r] # "none" =>
            \/ at[r] = "rollback" /\ code[r] = "fail"
            \/ at[r] = "commit" /\ kind[r] = "addData"

ServiceInv == AloneInv /\ Fresh /\ AnsweredLate

Sort(r) ==
    IF kind[r] = "getData" THEN "read"
    ELSE IF kind[r] = "addData" THEN "upload" ELSE "write"

Phase(r) ==
    IF at[r] = "idle" THEN "waiting"
    ELSE IF at[r] \in InFlight THEN "running" ELSE "over"

Effect(r) ==
    IF WritesOf(r) \intersect stored = {} THEN "none"
    ELSE IF WritesOf(r) \subseteq stored THEN "all" ELSE "part"

S == INSTANCE Service WITH
        sort   <- [r \in Requests |-> Sort(r)],
        phase  <- [r \in Requests |-> Phase(r)],
        told   <- code,
        effect <- [r \in Requests |-> Effect(r)],
        link   <- conn = "up"

(* Handled one at a time, requests keep the promises of Service: success is *)
(* told of what is stored, failure of what is not as long as the connection *)
(* lasts, and a request is stored while it runs, once and whole             *)
(* (transaction.go:72-88 and the handlers that defer it).                   *)
ImplementsService == S!Spec
=============================================================================
