---------------------------- MODULE LiveInvariant ----------------------------
(***************************************************************************)
(* Why Live's properties hold when no two handlers draw the same phrase:   *)
(* the facts about the goroutines of one session that together are         *)
(* inductive, each named for what it says, and the mapping of Live's state *)
(* to the stages of Pairing.                                               *)
(***************************************************************************)
EXTENDS Live

Unregistered == {"idle", "phrase", "register"}
Undecided    == {"reread", "await"}
Waiting      == {"fetch", "select", "offerYes", "offerNo"}
HasMaster    == {"check", "insert", "sendMaster"}

(* The dict holds exactly the sessions of the handlers that are registered, *)
(* each under its own phrase.                                               *)
DictOwned ==
    \A p \in Phrases : dict[p] # NoOne =>
        PhraseOf[dict[p]] = p /\ cpc[dict[p]] \in Registered

DictHolds ==
    \A c \in Challengers : cpc[c] \in Registered => dict[PhraseOf[c]] = c

ClosedAtEnd == \A c \in closed : cpc[c] = "done"

(* The waiting goroutine lives as long as the handler has no answer, and    *)
(* listens to its own session.                                              *)
WaiterLives ==
    \A c \in Challengers :
        /\ cpc[c] \in Undecided <=> wpc[c] \in Waiting
        /\ cpc[c] \in Unregistered => wpc[c] = "none"
        /\ wpc[c] = "select" => wchan[c] = c

ReadsOwn ==
    \A c \in Challengers :
        cpc[c] \in Registered \ {"reread", "cleanup"} => cha[c] = c

(* A responder's session is of its own account; one that was let through    *)
(* belongs to a decided session, which it shares with nobody.               *)
SameAccount ==
    \A r \in Responders :
        /\ rpc[r] \in Engaged \union {"accept"} => sess[r] # NoOne
        /\ sess[r] # NoOne => who[r] = want[sess[r]].user

EngagedDecided ==
    \A r \in Responders : rpc[r] \in Engaged =>
        wpc[sess[r]] \in {"offerYes", "gone"}

EngagedAlone ==
    \A r, s \in Responders :
        rpc[r] \in Engaged /\ rpc[s] \in Engaged /\ sess[r] = sess[s] => r = s

(* Where a public key is tells where both handlers are.                     *)
KeyPassed ==
    \A r \in Responders : gotKey[r] # NoOne =>
        /\ gotKey[r] = sess[r]
        /\ rpc[r] \in {"sendKey", "readMaster", "sendMaster", "done"}
        /\ cpc[sess[r]] \in {"awaitMaster", "cleanup", "done"} \union HasMaster

KeyPassedOnce ==
    \A r, s \in Responders : gotKey[r] = gotKey[s] => gotKey[r] = NoOne \/ r = s

TakerWaits ==
    \A c \in Challengers :
        cpc[c] \in {"accepted", "readKey", "sendKey"} \/ wpc[c] = "offerYes" =>
            \E r \in Responders : rpc[r] = "awaitKey" /\ sess[r] = c

Supplied(c) ==
    \E r \in Responders :
        master[c] = r /\ gotKey[r] = c /\ who[r] = want[c].user

MasterSupplied == \A c \in Challengers : cpc[c] \in HasMaster => Supplied(c)

RowsSupplied ==
    \A m \in machines : m.id # NoOne =>
        /\ m.user = want[m.id].user
        /\ cpc[m.id] \in {"sendMaster", "cleanup", "done"}
        /\ Supplied(m.id)

RowBeforeKey ==
    \A c \in Challengers : cpc[c] = "sendMaster" \/ c \in delivered =>
        \E m \in machines : m.id = c

(* What needs no assumption on phrases: a session is under its own phrase   *)
(* and its channels are closed only after it was registered.                *)
OwnEntry ==
    /\ \A p \in Phrases : dict[p] # NoOne =>
          PhraseOf[dict[p]] = p /\ cpc[dict[p]] \notin Unregistered
    /\ \A c \in closed : cpc[c] \notin Unregistered

StaleInv == TypeOK /\ OwnEntry /\ NoStaleEntry

(* All of it, with the type invariant: what one step preserves.             *)
IInv ==
    /\ TypeOK /\ DictOwned /\ DictHolds /\ ClosedAtEnd
    /\ WaiterLives /\ ReadsOwn
    /\ SameAccount /\ EngagedDecided /\ EngagedAlone
    /\ KeyPassed /\ KeyPassedOnce /\ TakerWaits /\ HandoverSafe
    /\ MasterSupplied /\ RowsSupplied /\ RowBeforeKey
    /\ OnlyLateAnswersPanic

-----------------------------------------------------------------------------
(* The stage of each request.                                               *)
LetThrough(c) ==
    \/ cpc[c] \in {"accepted", "readKey", "sendKey"}
    \/ cpc[c] \in Undecided /\ wpc[c] = "offerYes"

StageOf(c) ==
    CASE cpc[c] \in Unregistered               -> "new"
      [] LetThrough(c)                          -> "approved"
      [] cpc[c] \in Undecided /\ ~LetThrough(c) -> "open"
      [] cpc[c] = "awaitMaster"                -> "keyed"
      [] cpc[c] \in {"check", "insert"}        -> "sealed"
      [] cpc[c] = "sendMaster"                 -> "member"
      [] OTHER                                 -> "over"

HolderOf(c) ==
    IF \E r \in Responders : gotKey[r] = c
    THEN CHOOSE r \in Responders : gotKey[r] = c
    ELSE NoOne

Stage  == [c \in Challengers |-> StageOf(c)]
Holder == [c \in Challengers |-> HolderOf(c)]

P == INSTANCE Pairing WITH
        Requesters <- Challengers, Approvers <- Responders,
        stage <- Stage, holder <- Holder, rows <- machines, served <- delivered

(* The handlers, channels and phrases implement the promise of Pairing.     *)
ImplementsPairing == P!Spec
=============================================================================
