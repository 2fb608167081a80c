-------------------------------- MODULE Live --------------------------------
(***************************************************************************)
(* The pairing of a new machine with an account (pkg/web/live/main.go).    *)
(*                                                                         *)
(* A challenger is one run of NewMachineChallengeHandler: the new machine  *)
(* ("Computer B") asks to join an account and is given a phrase.  A        *)
(* responder is one run of MachineChallengeResponseHandler: a machine of   *)
(* the account ("Computer A") sends the phrase, receives B's public key    *)
(* and answers with the master key encrypted for it.  The two goroutines   *)
(* meet through ChallengeResponseDict and three unbuffered channels; a     *)
(* third goroutine of the challenger waits for the approval or the timer.  *)
(*                                                                         *)
(* A send and its receive on an unbuffered channel are one step of both    *)
(* goroutines; a send on a closed channel is a panic, which no handler     *)
(* recovers, so it ends the process and every handler in it; a receive     *)
(* from a closed channel returns the zero value.                           *)
(***************************************************************************)
EXTENDS Naturals, FiniteSets

CONSTANTS
    Challengers,   (* the connections that ask to join, one handler run each *)
    Responders,    (* the connections that approve, one handler run each     *)
    Users,         (* the accounts                                           *)
    Names,         (* machine names                                          *)
    Phrases,       (* the phrases diceware can generate                      *)
    PhraseOf,      (* the phrase each challenger's handler draws             *)
    Enrolled,      (* <<user, name>> of the machines the accounts start with *)
    NoOne          (* no connection                                          *)

ASSUME LiveAssumption ==
    /\ PhraseOf \in [Challengers -> Phrases]
    /\ Enrolled \subseteq Users \X Names
    /\ Challengers \intersect Responders = {}
    /\ NoOne \notin Challengers \union Responders

VARIABLES
    cpc,        (* where each challenger's handler is                         *)
    want,       (* the account and machine name each challenger asked for     *)
    wpc,        (* where the goroutine that waits for the approval is         *)
    wchan,      (* the session whose channel that goroutine listens to        *)
    cha,        (* the session the challenger read back from the dict         *)
    master,     (* the responder whose master key the challenger received     *)
    delivered,  (* the challengers whose client was sent the master key       *)
    rpc,        (* where each responder's handler is                          *)
    who,        (* the account each responder authenticated as                *)
    sess,       (* the session each responder found in the dict               *)
    gotKey,     (* the challenger whose public key each responder received    *)
    dict,       (* ChallengeResponseDict: the session under each phrase       *)
    closed,     (* the sessions whose three channels are closed               *)
    machines,   (* the rows of the machines table                             *)
    panics      (* the channels a send on which has panicked                  *)

cvars == <<cpc, want, wpc, wchan, cha, master, delivered>>
rvars == <<rpc, who, sess, gotKey>>
vars  == <<cvars, rvars, dict, closed, machines, panics>>

(***************************************************************************)
(* A session is named after the challenger that made it: its user and its  *)
(* three channels.  A row keeps the challenger it was created for.         *)
(***************************************************************************)
Requests == [user : Users, name : Names]
Rows     == [id : Challengers \union {NoOne}, user : Users, name : Names]

ChallengerPc == {"idle", "phrase", "register", "reread", "await", "accepted",
                 "readKey", "sendKey", "awaitMaster", "check", "insert",
                 "sendMaster", "cleanup", "done"}
WaiterPc     == {"none", "fetch", "select", "offerYes", "offerNo", "gone"}
ResponderPc  == {"idle", "connected", "accept", "awaitKey", "sendKey",
                 "readMaster", "sendMaster", "done"}

(* The challenger is between WriteChallenge and the end of its deferred    *)
(* clean-up.                                                               *)
Registered == {"reread", "await", "accepted", "readKey", "sendKey",
               "awaitMaster", "check", "insert", "sendMaster", "cleanup"}

(* The responder has been let through by a challenger's waiter.            *)
Engaged == {"awaitKey", "sendKey", "readMaster", "sendMaster"}

Init ==
    /\ cpc = [c \in Challengers |-> "idle"]
    /\ want \in [Challengers -> Requests]
    /\ wpc = [c \in Challengers |-> "none"]
    /\ wchan = [c \in Challengers |-> NoOne]
    /\ cha = [c \in Challengers |-> NoOne]
    /\ master = [c \in Challengers |-> NoOne]
    /\ delivered = {}
    /\ rpc = [r \in Responders |-> "idle"]
    /\ who \in [Responders -> Users]
    /\ sess = [r \in Responders |-> NoOne]
    /\ gotKey = [r \in Responders |-> NoOne]
    /\ dict = [p \in Phrases |-> NoOne]
    /\ closed = {}
    /\ machines = {[id |-> NoOne, user |-> e[1], name |-> e[2]] : e \in Enrolled}
    /\ panics = {}

-----------------------------------------------------------------------------
(* The challenger's handler, NewMachineChallengeHandler.                    *)

TakenName(w) == \E m \in machines : m.user = w.user /\ m.name = w.name

(* Moves c's handler from one place to one of several others.              *)
Moves(c, from, to) ==
    /\ cpc[c] = from
    /\ \E l \in to : cpc' = [cpc EXCEPT ![c] = l]

(* The first message, the two look-ups and the phrase.  An unknown user, a *)
(* name already used, or an error of the connection, the database or the   *)
(* generator ends the handler before anything is registered.               *)
ReadRequest(c) ==
    /\ \/ Moves(c, "idle", {"phrase"}) /\ ~TakenName(want[c])
       \/ Moves(c, "idle", {"done"})
    /\ UNCHANGED <<want, wpc, wchan, cha, master, delivered, rvars, dict,
                   closed, machines, panics>>

(* The client knows the phrase before the server does.                     *)
SendPhrase(c) ==
    /\ Moves(c, "phrase", {"register", "done"})
    /\ UNCHANGED <<want, wpc, wchan, cha, master, delivered, rvars, dict,
                   closed, machines, panics>>

(* The new session replaces whatever the phrase led to; the clean-up is    *)
(* deferred, the timer set and the waiting goroutine started.              *)
WriteChallenge(c) ==
    /\ Moves(c, "register", {"reread"})
    /\ dict' = [dict EXCEPT ![PhraseOf[c]] = c]
    /\ wpc' = [wpc EXCEPT ![c] = "fetch"]
    /\ UNCHANGED <<want, wchan, cha, master, delivered, rvars, closed,
                   machines, panics>>

(* The handler reads its own session back.                                 *)
ReadChallenge(c) ==
    /\ \/ /\ dict[PhraseOf[c]] # NoOne
          /\ Moves(c, "reread", {"await"})
          /\ cha' = [cha EXCEPT ![c] = dict[PhraseOf[c]]]
       \/ /\ dict[PhraseOf[c]] = NoOne
          /\ Moves(c, "reread", {"cleanup"})
          /\ UNCHANGED cha
    /\ UNCHANGED <<want, wpc, wchan, master, delivered, rvars, dict, closed,
                   machines, panics>>

(* challengeResponse: the waiter's answer, and its end.                    *)
ChallengeResult(c) ==
    /\ \/ wpc[c] = "offerYes" /\ Moves(c, "await", {"accepted"})
       \/ wpc[c] = "offerNo"  /\ Moves(c, "await", {"cleanup"})
    /\ wpc' = [wpc EXCEPT ![c] = "gone"]
    /\ UNCHANGED <<want, wchan, cha, master, delivered, rvars, dict, closed,
                   machines, panics>>

TellAccepted(c) ==
    /\ Moves(c, "accepted", {"readKey", "cleanup"})
    /\ UNCHANGED <<want, wpc, wchan, cha, master, delivered, rvars, dict,
                   closed, machines, panics>>

(* No timer runs here: the handler waits for the public key as long as the *)
(* client keeps the connection open.  A read error and an invalid key end  *)
(* it.                                                                     *)
ReadPublicKey(c) ==
    /\ Moves(c, "readKey", {"sendKey", "cleanup"})
    /\ UNCHANGED <<want, wpc, wchan, cha, master, delivered, rvars, dict,
                   closed, machines, panics>>

(* Variant: the challenger may stop waiting once it has sent its key.      *)
SendPublicKeyImpatient(c, r) ==
    /\ rpc[r] = "awaitKey" /\ sess[r] = cha[c] /\ cha[c] \notin closed
    /\ Moves(c, "sendKey", {"awaitMaster", "cleanup"})
    /\ rpc' = [rpc EXCEPT ![r] = "sendKey"]
    /\ gotKey' = [gotKey EXCEPT ![r] = c]
    /\ UNCHANGED <<want, wpc, wchan, cha, master, delivered, who, sess, dict,
                   closed, machines, panics>>

(* Variant: the responder goes on listening for keys.                      *)
SendPublicKeyLoop(c, r) ==
    /\ rpc[r] = "awaitKey" /\ sess[r] = cha[c] /\ cha[c] \notin closed
    /\ Moves(c, "sendKey", {"awaitMaster"})
    /\ gotKey' = [gotKey EXCEPT ![r] = c]
    /\ UNCHANGED <<want, wpc, wchan, cha, master, delivered, rpc, who, sess,
                   dict, closed, machines, panics>>

(* ChallengerChannel: c hands its public key to a responder.               *)
SendPublicKey(c, r) ==
    /\ rpc[r] = "awaitKey" /\ sess[r] = cha[c] /\ cha[c] \notin closed
    /\ Moves(c, "sendKey", {"awaitMaster"})
    /\ rpc' = [rpc EXCEPT ![r] = "sendKey"]
    /\ gotKey' = [gotKey EXCEPT ![r] = c]
    /\ UNCHANGED <<want, wpc, wchan, cha, master, delivered, who, sess, dict,
                   closed, machines, panics>>

(* ResponderChannel: c receives the encrypted master key from a responder. *)
ReceiveMasterKey(c, r) ==
    /\ rpc[r] = "sendMaster" /\ sess[r] = cha[c] /\ cha[c] \notin closed
    /\ Moves(c, "awaitMaster", {"check"})
    /\ rpc' = [rpc EXCEPT ![r] = "done"]
    /\ master' = [master EXCEPT ![c] = r]
    /\ UNCHANGED <<want, wpc, wchan, cha, delivered, who, sess, gotKey, dict,
                   closed, machines, panics>>

(* A closed ResponderChannel gives a nil master key, which nothing checks. *)
NilMasterKey(c) ==
    /\ cha[c] \in closed
    /\ Moves(c, "awaitMaster", {"check"})
    /\ UNCHANGED <<want, wpc, wchan, cha, master, delivered, rvars, dict,
                   closed, machines, panics>>

(* CreateMachine looks the name up again and inserts the row in a second   *)
(* statement, outside any transaction; either statement can fail.          *)
CheckMachine(c) ==
    /\ \/ Moves(c, "check", {"insert"}) /\ ~TakenName(want[c])
       \/ Moves(c, "check", {"cleanup"})
    /\ UNCHANGED <<want, wpc, wchan, cha, master, delivered, rvars, dict,
                   closed, machines, panics>>

(* Variant: the error of the insertion is logged and forgotten.            *)
InsertMachineForgiving(c) ==
    /\ Moves(c, "insert", {"sendMaster"})
    /\ machines' \in {machines, machines \union
           {[id |-> c, user |-> want[c].user, name |-> want[c].name]}}
    /\ UNCHANGED <<want, wpc, wchan, cha, master, delivered, rvars, dict, closed,
                   panics>>

InsertMachine(c) ==
    /\ \/ /\ Moves(c, "insert", {"sendMaster"})
          /\ machines' = machines \union
                 {[id |-> c, user |-> want[c].user, name |-> want[c].name]}
       \/ /\ Moves(c, "insert", {"cleanup"})
          /\ UNCHANGED machines
    /\ UNCHANGED <<want, wpc, wchan, cha, master, delivered, rvars, dict,
                   closed, panics>>

(* The master key is written to the client, or the write fails.            *)
SendMasterKey(c) ==
    /\ Moves(c, "sendMaster", {"cleanup"})
    /\ delivered' \in {delivered, delivered \union {c}}
    /\ UNCHANGED <<want, wpc, wchan, cha, master, rvars, dict, closed,
                   machines, panics>>

(* Variants: the test whether the entry exists, its removal, or the closing *)
(* of its channels is left out.                                             *)
CleanupUntested(c) ==
    /\ Moves(c, "cleanup", {"done"})
    /\ closed' = closed \union {dict[PhraseOf[c]]}
    /\ dict' = [dict EXCEPT ![PhraseOf[c]] = NoOne]
    /\ UNCHANGED <<want, wpc, wchan, cha, master, delivered, rvars, machines,
                   panics>>

CleanupKeeping(c) ==
    /\ Moves(c, "cleanup", {"done"})
    /\ closed' = closed \union ({dict[PhraseOf[c]]} \ {NoOne})
    /\ UNCHANGED <<want, wpc, wchan, cha, master, delivered, rvars, dict,
                   machines, panics>>

CleanupOpen(c) ==
    /\ Moves(c, "cleanup", {"done"})
    /\ dict' = [dict EXCEPT ![PhraseOf[c]] = NoOne]
    /\ UNCHANGED <<want, wpc, wchan, cha, master, delivered, rvars, closed,
                   machines, panics>>

(* The deferred function: whatever session the phrase leads to is closed   *)
(* and removed.                                                            *)
Cleanup(c) ==
    /\ Moves(c, "cleanup", {"done"})
    /\ closed' = closed \union ({dict[PhraseOf[c]]} \ {NoOne})
    /\ dict' = [dict EXCEPT ![PhraseOf[c]] = NoOne]
    /\ UNCHANGED <<want, wpc, wchan, cha, master, delivered, rvars, machines,
                   panics>>

-----------------------------------------------------------------------------
(* The challenger's waiting goroutine.                                      *)

WaiterMoves(c, from, to) ==
    /\ wpc[c] = from
    /\ wpc' = [wpc EXCEPT ![c] = to]

FetchChannel(c) ==
    /\ \/ /\ dict[PhraseOf[c]] # NoOne
          /\ WaiterMoves(c, "fetch", "select")
          /\ wchan' = [wchan EXCEPT ![c] = dict[PhraseOf[c]]]
       \/ /\ dict[PhraseOf[c]] = NoOne
          /\ WaiterMoves(c, "fetch", "gone")
          /\ UNCHANGED wchan
    /\ UNCHANGED <<cpc, want, cha, master, delivered, rvars, dict, closed,
                   machines, panics>>

(* Variants: no timer is set; the timer is not stopped by an approval.     *)
TimerNeverSet(c) ==
    /\ FALSE
    /\ WaiterMoves(c, "select", "offerNo")
    /\ UNCHANGED <<cpc, want, wchan, cha, master, delivered, rvars, dict,
                   closed, machines, panics>>

TimerRunsOn(c) ==
    /\ WaiterMoves(c, "select", "offerNo") \/ WaiterMoves(c, "offerYes", "offerNo")
    /\ UNCHANGED <<cpc, want, wchan, cha, master, delivered, rvars, dict,
                   closed, machines, panics>>

(* Thirty seconds have passed, whether or not an answer is pending too.    *)
TimerFires(c) ==
    /\ WaiterMoves(c, "select", "offerNo")
    /\ UNCHANGED <<cpc, want, wchan, cha, master, delivered, rvars, dict,
                   closed, machines, panics>>

(* A closed ChallengeAccepted gives false.                                 *)
AcceptedClosed(c) ==
    /\ wchan[c] \in closed
    /\ WaiterMoves(c, "select", "offerNo")
    /\ UNCHANGED <<cpc, want, wchan, cha, master, delivered, rvars, dict,
                   closed, machines, panics>>

(* Variant: the waiter stays in its loop after an approval.                *)
ChallengeAcceptedLoop(c, r) ==
    /\ rpc[r] = "accept" /\ sess[r] = wchan[c] /\ wchan[c] \notin closed
    /\ wpc[c] = "select"
    /\ rpc' = [rpc EXCEPT ![r] = "awaitKey"]
    /\ UNCHANGED <<cvars, who, sess, gotKey, dict, closed, machines, panics>>

(* ChallengeAccepted: the waiter receives a responder's true.              *)
ChallengeAccepted(c, r) ==
    /\ rpc[r] = "accept" /\ sess[r] = wchan[c] /\ wchan[c] \notin closed
    /\ WaiterMoves(c, "select", "offerYes")
    /\ rpc' = [rpc EXCEPT ![r] = "awaitKey"]
    /\ UNCHANGED <<cpc, want, wchan, cha, master, delivered, who, sess, gotKey,
                   dict, closed, machines, panics>>

-----------------------------------------------------------------------------
(* The responder's handler, MachineChallengeResponseHandler.                *)

ResponderMoves(r, from, to) ==
    /\ rpc[r] = from
    /\ \E l \in to : rpc' = [rpc EXCEPT ![r] = l]

(* ConfigureAuth let the request through: its token was signed by a        *)
(* machine of the account.                                                 *)
Connect(r) ==
    /\ \E m \in machines : m.user = who[r]
    /\ ResponderMoves(r, "idle", {"connected"})
    /\ UNCHANGED <<cvars, who, sess, gotKey, dict, closed, machines, panics>>

(* Variant: the accounts are not compared.                                 *)
AnswerAnyAccount(r) ==
    /\ \/ /\ ResponderMoves(r, "connected", {"accept"})
          /\ \E p \in Phrases : dict[p] # NoOne /\ sess' = [sess EXCEPT ![r] = dict[p]]
       \/ /\ ResponderMoves(r, "connected", {"done"})
          /\ UNCHANGED sess
    /\ UNCHANGED <<cvars, who, gotKey, dict, closed, machines, panics>>

(* The phrase is read and looked up, and the session's account compared    *)
(* with the responder's.                                                   *)
Answer(r) ==
    /\ \/ /\ ResponderMoves(r, "connected", {"accept"})
          /\ \E p \in Phrases :
               /\ dict[p] # NoOne
               /\ want[dict[p]].user = who[r]
               /\ sess' = [sess EXCEPT ![r] = dict[p]]
       \/ /\ ResponderMoves(r, "connected", {"done"})
          /\ UNCHANGED sess
    /\ UNCHANGED <<cvars, who, gotKey, dict, closed, machines, panics>>

(* Variant: the responder stops waiting by itself.                         *)
NilPublicKeyAnyTime(r) ==
    /\ ResponderMoves(r, "awaitKey", {"done"})
    /\ UNCHANGED <<cvars, who, sess, gotKey, dict, closed, machines, panics>>

(* A closed ChallengerChannel gives nil: the challenger has gone.          *)
NilPublicKey(r) ==
    /\ sess[r] \in closed
    /\ ResponderMoves(r, "awaitKey", {"done"})
    /\ UNCHANGED <<cvars, who, sess, gotKey, dict, closed, machines, panics>>

ForwardKey(r) ==
    /\ ResponderMoves(r, "sendKey", {"readMaster", "done"})
    /\ UNCHANGED <<cvars, who, sess, gotKey, dict, closed, machines, panics>>

ReadMasterKey(r) ==
    /\ ResponderMoves(r, "readMaster", {"sendMaster", "done"})
    /\ UNCHANGED <<cvars, who, sess, gotKey, dict, closed, machines, panics>>

-----------------------------------------------------------------------------
(* The end of the process: every handler and the dict are gone, the rows    *)
(* stay, and connections made after the restart find an empty dict.         *)

ProcessEnds ==
    /\ cpc' = [c \in Challengers |-> IF cpc[c] = "idle" THEN "idle" ELSE "done"]
    /\ wpc' = [c \in Challengers |-> IF wpc[c] = "none" THEN "none" ELSE "gone"]
    /\ rpc' = [r \in Responders |-> IF rpc[r] = "idle" THEN "idle" ELSE "done"]
    /\ dict' = [p \in Phrases |-> NoOne]
    /\ UNCHANGED <<want, wchan, cha, master, delivered, who, sess, gotKey,
                   closed, machines>>

(* The process is stopped or killed from outside.                          *)
Restart ==
    /\ ProcessEnds
    /\ UNCHANGED panics

AcceptPanics(r) ==
    /\ rpc[r] = "accept" /\ sess[r] \in closed
    /\ ProcessEnds
    /\ panics' = panics \union {"accept"}

KeyPanics(c) ==
    /\ cpc[c] = "sendKey" /\ cha[c] \in closed
    /\ ProcessEnds
    /\ panics' = panics \union {"key"}

MasterPanics(r) ==
    /\ rpc[r] = "sendMaster" /\ sess[r] \in closed
    /\ ProcessEnds
    /\ panics' = panics \union {"master"}

-----------------------------------------------------------------------------
(* Steps the server takes by itself, and steps that wait for a client.      *)

HandlerStep(c) ==
    \/ SendPhrase(c)    \/ WriteChallenge(c) \/ ReadChallenge(c)
    \/ ChallengeResult(c) \/ TellAccepted(c) \/ NilMasterKey(c)
    \/ CheckMachine(c)  \/ InsertMachine(c)  \/ SendMasterKey(c)
    \/ Cleanup(c)       \/ KeyPanics(c)

WaiterStep(c) == FetchChannel(c) \/ TimerFires(c) \/ AcceptedClosed(c)

ResponderStep(r) ==
    NilPublicKey(r) \/ ForwardKey(r) \/ AcceptPanics(r) \/ MasterPanics(r)

Rendezvous(c, r) ==
    ChallengeAccepted(c, r) \/ SendPublicKey(c, r) \/ ReceiveMasterKey(c, r)

ClientStep ==
    \/ \E c \in Challengers : ReadRequest(c) \/ ReadPublicKey(c)
    \/ \E r \in Responders : Connect(r) \/ Answer(r) \/ ReadMasterKey(r)

Next ==
    \/ \E c \in Challengers : HandlerStep(c) \/ WaiterStep(c)
    \/ \E r \in Responders : ResponderStep(r)
    \/ \E c \in Challengers, r \in Responders : Rendezvous(c, r)
    \/ ClientStep
    \/ Restart

Spec == Init /\ [][Next]_vars

(* Go runs every goroutine that can run and the timer's channel becomes     *)
(* ready; nothing is assumed of the clients.                                *)
FairSpec ==
    /\ Spec
    /\ \A c \in Challengers : WF_vars(HandlerStep(c)) /\ WF_vars(WaiterStep(c))
    /\ \A r \in Responders : WF_vars(ResponderStep(r))
    /\ \A c \in Challengers, r \in Responders : WF_vars(Rendezvous(c, r))

-----------------------------------------------------------------------------
(* Every variable has its type: in particular no clean-up closes a session  *)
(* that is not there (a close of a nil channel), whatever the phrases.      *)
TypeOK ==
    /\ cpc \in [Challengers -> ChallengerPc]
    /\ want \in [Challengers -> Requests]
    /\ wpc \in [Challengers -> WaiterPc]
    /\ wchan \in [Challengers -> Challengers \union {NoOne}]
    /\ cha \in [Challengers -> Challengers \union {NoOne}]
    /\ master \in [Challengers -> Responders \union {NoOne}]
    /\ delivered \subseteq Challengers
    /\ rpc \in [Responders -> ResponderPc]
    /\ who \in [Responders -> Users]
    /\ sess \in [Responders -> Challengers \union {NoOne}]
    /\ gotKey \in [Responders -> Challengers \union {NoOne}]
    /\ dict \in [Phrases -> Challengers \union {NoOne}]
    /\ closed \subseteq Challengers
    /\ machines \subseteq Rows
    /\ panics \subseteq {"accept", "key", "master"}

(* No phrase leads to a session whose channels are closed: a clean-up never *)
(* closes a channel twice and a responder never finds a dead session, even  *)
(* when several challengers drew the same phrase and replace and remove     *)
(* each other's sessions.                                                   *)
NoStaleEntry == \A p \in Phrases : dict[p] \notin closed

(* Phrases are drawn from 7776^3 words without looking at those in use.     *)
(* The properties below hold as long as no two handlers draw the same.      *)
PhrasesUnique == \A c, d \in Challengers : PhraseOf[c] = PhraseOf[d] => c = d

(* A responder that holds a public key is awaited by the one challenger it  *)
(* came from, on an open session: the master key it will send reaches that  *)
(* challenger or none, and the send at line 130 cannot panic.               *)
HandoverSafe ==
    \A r \in Responders :
        rpc[r] \in {"sendKey", "readMaster", "sendMaster"} =>
            /\ sess[r] \in Challengers \ closed
            /\ cpc[sess[r]] = "awaitMaster"
            /\ gotKey[r] = sess[r]

(* A challenger about to send its public key has a responder waiting for    *)
(* it: the send at line 279 neither blocks for ever nor panics.             *)
KeyHasTaker ==
    \A c \in Challengers :
        cpc[c] = "sendKey" => \E r \in Responders :
            rpc[r] = "awaitKey" /\ sess[r] = c /\ c \notin closed

(* Whoever waits on a channel can be woken, and by whom (lines 105, 109,    *)
(* 236, 279, 280): no two goroutines wait for each other, none is forgotten. *)
(*  - A challenger waits for a waiter that lives and, until that has an      *)
(*    answer, is found under the phrase its client was shown.               *)
(*  - A waiter with an answer has a handler that will take it.              *)
(*  - A responder that announces itself or waits for the public key has a    *)
(*    challenger that will pass the key on or close the channels, or has.    *)
(*  - A challenger waits for the master key of a responder that was given    *)
(*    its public key; if that one has left, nobody wakes it.                *)
WaitsHaveWakers ==
    /\ \A c \in Challengers :
          /\ cpc[c] = "await" =>
                \/ wpc[c] \in {"fetch", "select"} /\ dict[PhraseOf[c]] = c
                \/ wpc[c] \in {"offerYes", "offerNo"}
          /\ wpc[c] \in {"offerYes", "offerNo"} => cpc[c] \in {"reread", "await"}
          /\ cpc[c] = "awaitMaster" =>
                \E r \in Responders : gotKey[r] = c /\ sess[r] = c
    /\ \A r \in Responders :
          /\ rpc[r] = "accept" => sess[r] \in closed \/ cpc[sess[r]] \in Registered
          /\ rpc[r] = "awaitKey" =>
                \/ sess[r] \in closed
                \/ wpc[sess[r]] = "offerYes"
                \/ cpc[sess[r]] \in {"accepted", "readKey", "sendKey", "cleanup"}

(* However many machines of the account type the phrase, one of them is let *)
(* through, and the new machine's public key goes to no other.              *)
SingleApprover ==
    \A r, s \in Responders :
        \/ r = s
        \/ /\ ~(rpc[r] \in Engaged /\ rpc[s] \in Engaged /\ sess[r] = sess[s])
           /\ gotKey[r] = gotKey[s] => gotKey[r] = NoOne

(* A machine is added to an account only after a connection of that account *)
(* was given its public key and returned a master key for it.               *)
Approved ==
    \A m \in machines : m.id # NoOne =>
        \E r \in Responders :
            master[m.id] = r /\ gotKey[r] = m.id /\ who[r] = m.user

(* A client is sent the master key only once its machine is in the table.   *)
DeliveredIsMember ==
    \A c \in delivered : \E m \in machines : m.id = c

(* Of the three sends, only the one that announces an answer (line 105) can *)
(* meet a closed channel.                                                   *)
OnlyLateAnswersPanic == panics \subseteq {"accept"}

(* The waiter's answer, or the timer's, always reaches the challenger: no   *)
(* request waits for its phrase for ever.                                   *)
ChallengeDecided ==
    \A c \in Challengers : cpc[c] = "await" ~> cpc[c] # "await"

(* A responder that was let through gets the public key or learns that the  *)
(* challenger has gone, unless the challenger's client, from which line 266 *)
(* reads without a deadline, stays connected and silent: that, and nothing  *)
(* the server does, is what makes the responder wait for ever.              *)
KeyWaitEnds ==
    \A r \in Responders :
        <>[](rpc[r] = "awaitKey") =>
            <>[](\E c \in Challengers : sess[r] = c /\ cpc[c] = "readKey")

(* A challenger waits for the master key for ever only if the responder that *)
(* has its public key has left, or has a client that stays silent.          *)
HangOnlyIfAbandoned ==
    \A c \in Challengers :
        <>[](cpc[c] = "awaitMaster") =>
            <>[](\E r \in Responders :
                    gotKey[r] = c /\ rpc[r] \in {"readMaster", "done"})

(* Line 30: "If a matching connection is found, notify that connection that *)
(* a challenge has been accepted."  It is not always there to notify.       *)
NotifyNeverPanics == "accept" \notin panics

(* docs/writeup.md, line 11: the hand-shake of two machines "would only     *)
(* have to be done once (to allow a new machine access to a user's keys)":  *)
(* a machine that was added has received the master key.                    *)
PairedMeansKeyed ==
    \A m \in machines :
        m.id # NoOne /\ cpc[m.id] = "done" => m.id \in delivered

(* docs/writeup.md, line 80: "Server saves B's public key and then sends    *)
(* ... B's public key to Machine A."                                        *)
SavedBeforeForwarded ==
    \A r \in Responders :
        rpc[r] = "readMaster" => \E m \in machines : m.id = gotKey[r]
=============================================================================
