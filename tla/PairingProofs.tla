---------------------------- MODULE PairingProofs ----------------------------
(***************************************************************************)
(* Live implements Pairing when no two handlers draw the same phrase: each *)
(* step of a goroutine is a step of one request, the end of some requests, *)
(* or nothing that Pairing sees.                                           *)
(***************************************************************************)
EXTENDS LiveProofs

USE DEF vars, cvars, rvars

(* The state of the environment and of the rows, which few steps change.    *)
Rest == <<want, who, machines, delivered>>

(* A step that moves only c's goroutines changes only c's stage.            *)
LEMMA StageChanges ==
    ASSUME NEW c \in Challengers,
           \A d \in Challengers : d # c => cpc'[d] = cpc[d] /\ wpc'[d] = wpc[d]
    PROVE  Stage' = [Stage EXCEPT ![c] = StageOf(c)']
<1>1. \A d \in Challengers : d # c => StageOf(d)' = StageOf(d)
  BY DEF StageOf, LetThrough
<1>. QED BY <1>1 DEF Stage

(* A step that gives nobody a public key leaves every holder.               *)
LEMMA HolderStays == gotKey' = gotKey => Holder' = Holder
BY DEF Holder, HolderOf

(* Such a step that leaves c's stage as it is, is invisible.                *)
LEMMA Invisible ==
    ASSUME NEW c \in Challengers,
           \A d \in Challengers : d # c => cpc'[d] = cpc[d] /\ wpc'[d] = wpc[d],
           StageOf(c)' = StageOf(c),
           gotKey' = gotKey, UNCHANGED Rest
    PROVE  UNCHANGED P!vars
<1>1. Stage' = Stage
  BY StageChanges DEF Stage
<1>. QED BY <1>1, HolderStays DEF Rest, P!vars

(* Such a step that ends c's request is an End of Pairing.                  *)
LEMMA Ends ==
    ASSUME NEW c \in Challengers,
           \A d \in Challengers : d # c => cpc'[d] = cpc[d] /\ wpc'[d] = wpc[d],
           StageOf(c)' = "over",
           gotKey' = gotKey, UNCHANGED Rest
    PROVE  P!Next
<1>1. Stage' = [d \in Challengers |-> IF d \in {c} THEN "over" ELSE Stage[d]]
  BY StageChanges DEF Stage
<1>2. P!End({c})
  BY <1>1, HolderStays DEF P!End, P!env, Rest
<1>. QED BY <1>2 DEF P!Next

(* Such a step between two stages is an Advance.                            *)
LEMMA Advances ==
    ASSUME NEW c \in Challengers, NEW s, NEW t,
           \A d \in Challengers : d # c => cpc'[d] = cpc[d] /\ wpc'[d] = wpc[d],
           StageOf(c) = s, StageOf(c)' = t
    PROVE  P!Advance(c, s, t)
BY StageChanges DEF P!Advance, Stage

(* The holder of c's key is the one responder that has it.                  *)
LEMMA HolderIs ==
    ASSUME NEW c \in Challengers, NEW r \in Responders,
           KeyPassedOnce, gotKey[r] = c
    PROVE  HolderOf(c) = r
<1>1. \A s \in Responders : gotKey[s] = c <=> s = r
  BY LiveAssumption DEF KeyPassedOnce
<1>2. (CHOOSE s \in Responders : gotKey[s] = c) = r
  BY <1>1
<1>. QED BY <1>1, <1>2 DEF HolderOf

-----------------------------------------------------------------------------
(* The end of the process ends every request that has been made.            *)
LEMMA ProcessEndsAll == TypeOK /\ ProcessEnds => P!Next
<1> SUFFICES ASSUME TypeOK, ProcessEnds PROVE P!Next
  OBVIOUS
<1> DEFINE Q == {c \in Challengers : cpc[c] # "idle"}
<1>1. Stage' = [c \in Challengers |-> IF c \in Q THEN "over" ELSE Stage[c]]
  BY DEF ProcessEnds, TypeOK, Stage, StageOf, LetThrough, Unregistered, Undecided
<1>2. P!End(Q)
  BY <1>1, HolderStays DEF ProcessEnds, P!End, P!env
<1>. QED BY <1>2 DEF P!Next

(* One step of Live, from a state of the inductive invariant, is one step   *)
(* of Pairing or changes nothing there.                                     *)
LEMMA StepImplements ==
    PhrasesUnique /\ IInv /\ IInv' /\ [Next]_vars => [P!Next]_(P!vars)
<1> SUFFICES ASSUME PhrasesUnique, IInv, IInv', [Next]_vars
             PROVE  P!Next \/ UNCHANGED P!vars
  OBVIOUS
<1> DEFINE Alone(c) == \A d \in Challengers : d # c =>
                           cpc'[d] = cpc[d] /\ wpc'[d] = wpc[d]
<1> USE LiveAssumption DEF TypeOK, StageOf, LetThrough, Unregistered, Undecided
<1>1. ASSUME NEW c \in Challengers, ReadRequest(c) PROVE P!Next \/ UNCHANGED P!vars
  <2>1. Alone(c) /\ gotKey' = gotKey /\ UNCHANGED Rest
    BY <1>1 DEF IInv, ReadRequest, Moves, Rest
  <2>2. StageOf(c)' = StageOf(c) \/ StageOf(c)' = "over"
    BY <1>1 DEF IInv, ReadRequest, Moves
  <2>. QED BY <2>1, <2>2, Invisible, Ends
<1>2. ASSUME NEW c \in Challengers, SendPhrase(c) PROVE P!Next \/ UNCHANGED P!vars
  <2>1. Alone(c) /\ gotKey' = gotKey /\ UNCHANGED Rest
    BY <1>2 DEF IInv, SendPhrase, Moves, Rest
  <2>2. StageOf(c)' = StageOf(c) \/ StageOf(c)' = "over"
    BY <1>2 DEF IInv, SendPhrase, Moves
  <2>. QED BY <2>1, <2>2, Invisible, Ends
<1>3. ASSUME NEW c \in Challengers, ReadChallenge(c) PROVE P!Next \/ UNCHANGED P!vars
  <2>1. Alone(c) /\ gotKey' = gotKey /\ UNCHANGED Rest
    BY <1>3 DEF IInv, ReadChallenge, Moves, Rest
  <2>2. StageOf(c)' = StageOf(c) \/ StageOf(c)' = "over"
    BY <1>3 DEF IInv, ReadChallenge, Moves, DictHolds, Registered
  <2>. QED BY <2>1, <2>2, Invisible, Ends
<1>4. ASSUME NEW c \in Challengers, ChallengeResult(c) PROVE P!Next \/ UNCHANGED P!vars
  <2>1. Alone(c) /\ gotKey' = gotKey /\ UNCHANGED Rest
    BY <1>4 DEF IInv, ChallengeResult, Moves, Rest
  <2>2. StageOf(c)' = StageOf(c) \/ StageOf(c)' = "over"
    BY <1>4 DEF IInv, ChallengeResult, Moves
  <2>. QED BY <2>1, <2>2, Invisible, Ends
<1>5. ASSUME NEW c \in Challengers, TellAccepted(c) PROVE P!Next \/ UNCHANGED P!vars
  <2>1. Alone(c) /\ gotKey' = gotKey /\ UNCHANGED Rest
    BY <1>5 DEF IInv, TellAccepted, Moves, Rest
  <2>2. StageOf(c)' = StageOf(c) \/ StageOf(c)' = "over"
    BY <1>5 DEF IInv, TellAccepted, Moves
  <2>. QED BY <2>1, <2>2, Invisible, Ends
<1>6. ASSUME NEW c \in Challengers, ReadPublicKey(c) PROVE P!Next \/ UNCHANGED P!vars
  <2>1. Alone(c) /\ gotKey' = gotKey /\ UNCHANGED Rest
    BY <1>6 DEF IInv, ReadPublicKey, Moves, Rest
  <2>2. StageOf(c)' = StageOf(c) \/ StageOf(c)' = "over"
    BY <1>6 DEF IInv, ReadPublicKey, Moves
  <2>. QED BY <2>1, <2>2, Invisible, Ends
<1>7. ASSUME NEW c \in Challengers, CheckMachine(c) PROVE P!Next \/ UNCHANGED P!vars
  <2>1. Alone(c) /\ gotKey' = gotKey /\ UNCHANGED Rest
    BY <1>7 DEF IInv, CheckMachine, Moves, Rest
  <2>2. StageOf(c)' = StageOf(c) \/ StageOf(c)' = "over"
    BY <1>7 DEF IInv, CheckMachine, Moves
  <2>. QED BY <2>1, <2>2, Invisible, Ends
<1>8. ASSUME NEW c \in Challengers, Cleanup(c) PROVE P!Next \/ UNCHANGED P!vars
  <2>1. Alone(c) /\ gotKey' = gotKey /\ UNCHANGED Rest
    BY <1>8 DEF IInv, Cleanup, Moves, Rest
  <2>2. StageOf(c)' = StageOf(c) \/ StageOf(c)' = "over"
    BY <1>8 DEF IInv, Cleanup, Moves
  <2>. QED BY <2>1, <2>2, Invisible, Ends
<1>9. ASSUME NEW c \in Challengers, WriteChallenge(c) PROVE P!Next \/ UNCHANGED P!vars
  <2>1. P!Advance(c, "new", "open")
    <3>1. Alone(c)
      BY <1>9 DEF IInv, WriteChallenge, Moves
    <3>2. StageOf(c) = "new" /\ StageOf(c)' = "open"
      BY <1>9 DEF IInv, WriteChallenge, Moves
    <3>. QED BY <3>1, <3>2, Advances
  <2>2. P!Open(c)
    BY <1>9, <2>1, HolderStays DEF WriteChallenge, rvars, P!Open, P!env
  <2>. QED BY <2>2 DEF P!Next
<1>10. ASSUME NEW c \in Challengers, InsertMachine(c) PROVE P!Next \/ UNCHANGED P!vars
  <2>1. CASE cpc'[c] = "sendMaster"
    <3>1. Alone(c) /\ StageOf(c) = "sealed" /\ StageOf(c)' = "member"
      BY <1>10, <2>1 DEF IInv, InsertMachine, Moves
    <3>2. P!Advance(c, "sealed", "member")
      BY <3>1, Advances
    <3>3. P!Join(c)
      BY <1>10, <2>1, <3>2, HolderStays DEF IInv, InsertMachine, Moves, P!Join, P!env
    <3>. QED BY <3>3 DEF P!Next
  <2>2. CASE cpc'[c] # "sendMaster"
    <3>1. Alone(c) /\ StageOf(c)' = "over"
      BY <1>10, <2>2 DEF IInv, InsertMachine, Moves
    <3>2. gotKey' = gotKey /\ UNCHANGED Rest
      BY <1>10, <2>2 DEF IInv, InsertMachine, Moves, Rest
    <3>. QED BY <3>1, <3>2, Ends
  <2>. QED BY <2>1, <2>2
<1>11. ASSUME NEW c \in Challengers, SendMasterKey(c) PROVE P!Next \/ UNCHANGED P!vars
  <2>1. Alone(c) /\ StageOf(c) = "member" /\ StageOf(c)' = "over"
    BY <1>11 DEF IInv, SendMasterKey, Moves
  <2>2. CASE delivered' = delivered
    BY <1>11, <2>1, <2>2, Ends DEF SendMasterKey, Rest
  <2>3. CASE delivered' = delivered \union {c}
    <3>1. P!Advance(c, "member", "over")
      BY <2>1, Advances
    <3>2. P!Serve(c)
      BY <1>11, <2>3, <3>1, HolderStays DEF SendMasterKey, P!Serve, P!env
    <3>. QED BY <3>2 DEF P!Next
  <2>. QED BY <1>11, <2>2, <2>3 DEF SendMasterKey
<1>12. ASSUME NEW c \in Challengers, NilMasterKey(c) PROVE P!Next \/ UNCHANGED P!vars
  BY <1>12 DEF IInv, NilMasterKey, Moves, ReadsOwn, ClosedAtEnd, Registered
<1>13. ASSUME NEW c \in Challengers, KeyPanics(c) PROVE P!Next \/ UNCHANGED P!vars
  BY <1>13 DEF IInv, KeyPanics, Moves, ReadsOwn, ClosedAtEnd, Registered
<1>14. ASSUME NEW c \in Challengers, FetchChannel(c) PROVE P!Next \/ UNCHANGED P!vars
  <2>1. Alone(c) /\ gotKey' = gotKey /\ UNCHANGED Rest
    BY <1>14 DEF IInv, FetchChannel, WaiterMoves, Rest
  <2>2. StageOf(c)' = StageOf(c) \/ StageOf(c)' = "over"
    BY <1>14 DEF IInv, FetchChannel, WaiterMoves, WaiterLives, Waiting
  <2>. QED BY <2>1, <2>2, Invisible, Ends
<1>15. ASSUME NEW c \in Challengers, TimerFires(c) PROVE P!Next \/ UNCHANGED P!vars
  <2>1. Alone(c) /\ gotKey' = gotKey /\ UNCHANGED Rest
    BY <1>15 DEF IInv, TimerFires, WaiterMoves, Rest
  <2>2. StageOf(c)' = StageOf(c) \/ StageOf(c)' = "over"
    BY <1>15 DEF IInv, TimerFires, WaiterMoves, WaiterLives, Waiting
  <2>. QED BY <2>1, <2>2, Invisible, Ends
<1>16. ASSUME NEW c \in Challengers, AcceptedClosed(c) PROVE P!Next \/ UNCHANGED P!vars
  <2>1. Alone(c) /\ gotKey' = gotKey /\ UNCHANGED Rest
    BY <1>16 DEF IInv, AcceptedClosed, WaiterMoves, Rest
  <2>2. StageOf(c)' = StageOf(c) \/ StageOf(c)' = "over"
    BY <1>16 DEF IInv, AcceptedClosed, WaiterMoves, WaiterLives, Waiting
  <2>. QED BY <2>1, <2>2, Invisible, Ends
<1>17. ASSUME NEW c \in Challengers, NEW r \in Responders, ChallengeAccepted(c, r)
      PROVE P!Next \/ UNCHANGED P!vars
  <2>1. P!Advance(c, "open", "approved")
    <3>1. Alone(c)
      BY <1>17 DEF IInv, ChallengeAccepted, WaiterMoves
    <3>2. StageOf(c) = "open" /\ StageOf(c)' = "approved"
      BY <1>17 DEF IInv, ChallengeAccepted, WaiterMoves, WaiterLives, Waiting
    <3>. QED BY <3>1, <3>2, Advances
  <2>2. who[r] = want[c].user
    BY <1>17 DEF IInv, ChallengeAccepted, WaiterMoves, WaiterLives, SameAccount
  <2>3. P!Approve(c)
    BY <1>17, <2>1, <2>2, HolderStays DEF ChallengeAccepted, P!Approve, P!env
  <2>. QED BY <2>3 DEF P!Next
<1>18. ASSUME NEW c \in Challengers, NEW r \in Responders, SendPublicKey(c, r)
      PROVE P!Next \/ UNCHANGED P!vars
  <2>1. P!Advance(c, "approved", "keyed")
    <3>1. Alone(c)
      BY <1>18 DEF IInv, SendPublicKey, Moves
    <3>2. StageOf(c) = "approved" /\ StageOf(c)' = "keyed"
      BY <1>18 DEF IInv, SendPublicKey, Moves
    <3>. QED BY <3>1, <3>2, Advances
  <2>2. sess[r] = c /\ who[r] = want[c].user
    BY <1>18 DEF IInv, SendPublicKey, Moves, ReadsOwn, Registered, SameAccount
  <2>3. gotKey[r] = NoOne
    BY <1>18 DEF IInv, SendPublicKey, KeyPassed
  <2>4. \A d \in Challengers : Holder[d] # r
    BY <2>3 DEF Holder, HolderOf
  <2>5. HolderOf(c)' = r
    <3>1. \A s \in Responders : gotKey'[s] = c <=> s = r
      BY <1>18 DEF IInv, KeyPassedOnce, SendPublicKey
    <3>2. (CHOOSE s \in Responders : gotKey'[s] = c) = r
      BY <3>1
    <3>. QED BY <3>1, <3>2 DEF HolderOf
  <2>6. \A d \in Challengers : d # c => HolderOf(d)' = HolderOf(d)
    <3>1. \A d \in Challengers, s \in Responders :
            d # c => (gotKey'[s] = d <=> gotKey[s] = d)
      BY <1>18, <2>3 DEF IInv, SendPublicKey
    <3>. QED BY <3>1 DEF HolderOf
  <2>7. Holder' = [Holder EXCEPT ![c] = r]
    BY <2>5, <2>6 DEF Holder
  <2>8. P!PassKey(c, r)
    BY <1>18, <2>1, <2>2, <2>4, <2>7 DEF SendPublicKey, P!PassKey, P!env
  <2>. QED BY <2>8 DEF P!Next
<1>19. ASSUME NEW c \in Challengers, NEW r \in Responders, ReceiveMasterKey(c, r)
      PROVE P!Next \/ UNCHANGED P!vars
  <2>1. P!Advance(c, "keyed", "sealed")
    <3>1. Alone(c)
      BY <1>19 DEF IInv, ReceiveMasterKey, Moves
    <3>2. StageOf(c) = "keyed" /\ StageOf(c)' = "sealed"
      BY <1>19 DEF IInv, ReceiveMasterKey, Moves
    <3>. QED BY <3>1, <3>2, Advances
  <2>2. gotKey[r] = c
    BY <1>19 DEF IInv, ReceiveMasterKey, Moves, ReadsOwn, Registered, HandoverSafe
  <2>3. Holder[c] \in Responders
    BY <2>2, HolderIs DEF IInv, Holder
  <2>4. P!Seal(c)
    BY <1>19, <2>1, <2>3, HolderStays DEF ReceiveMasterKey, P!Seal, P!env
  <2>. QED BY <2>4 DEF P!Next
<1>20. ASSUME NEW r \in Responders, Connect(r) PROVE P!Next \/ UNCHANGED P!vars
  BY <1>20, HolderStays DEF Connect, cvars, P!vars, Stage
<1>21. ASSUME NEW r \in Responders, Answer(r) PROVE P!Next \/ UNCHANGED P!vars
  BY <1>21, HolderStays DEF Answer, cvars, P!vars, Stage
<1>22. ASSUME NEW r \in Responders, NilPublicKey(r) PROVE P!Next \/ UNCHANGED P!vars
  BY <1>22, HolderStays DEF NilPublicKey, cvars, P!vars, Stage
<1>23. ASSUME NEW r \in Responders, ForwardKey(r) PROVE P!Next \/ UNCHANGED P!vars
  BY <1>23, HolderStays DEF ForwardKey, cvars, P!vars, Stage
<1>24. ASSUME NEW r \in Responders, ReadMasterKey(r) PROVE P!Next \/ UNCHANGED P!vars
  BY <1>24, HolderStays DEF ReadMasterKey, cvars, P!vars, Stage
<1>25. ASSUME NEW r \in Responders, AcceptPanics(r) PROVE P!Next \/ UNCHANGED P!vars
  BY <1>25, ProcessEndsAll DEF AcceptPanics, IInv
<1>26. ASSUME NEW r \in Responders, MasterPanics(r) PROVE P!Next \/ UNCHANGED P!vars
  BY <1>26, ProcessEndsAll DEF MasterPanics, IInv
<1>27. ASSUME Restart PROVE P!Next \/ UNCHANGED P!vars
  BY <1>27, ProcessEndsAll DEF Restart, IInv
<1>28. CASE UNCHANGED vars
  <2>1. Stage' = Stage
    BY <1>28 DEF Stage
  <2>. QED BY <1>28, <2>1, HolderStays DEF P!vars
<1>. QED
  BY <1>1, <1>2, <1>3, <1>4, <1>5, <1>6, <1>7, <1>8, <1>9, <1>10, <1>11,
    <1>12, <1>13, <1>14, <1>15, <1>16, <1>17, <1>18, <1>19, <1>20, <1>21,
    <1>22, <1>23, <1>24, <1>25, <1>26, <1>27, <1>28 DEF Next, HandlerStep,
    WaiterStep, ResponderStep, Rendezvous, ClientStep

(* The first states are first states of Pairing.                            *)
LEMMA StartImplements == Init => P!Init
<1> SUFFICES ASSUME Init PROVE P!Init
  OBVIOUS
<1>1. Stage = [c \in Challengers |-> "new"]
  BY DEF Init, Stage, StageOf, LetThrough, Unregistered, Undecided
<1>2. Holder = [c \in Challengers |-> NoOne]
  <2>1. \A c \in Challengers, r \in Responders : gotKey[r] # c
    BY LiveAssumption DEF Init
  <2>. QED BY <2>1 DEF Holder, HolderOf
<1>3. delivered = {} /\ \A m \in machines : m.id = NoOne
  BY DEF Init
<1>. QED BY <1>1, <1>2, <1>3 DEF P!Init

(* The refinement: what Pairing promises, Live's handlers keep.             *)
THEOREM LiveImplementsPairing == PhrasesUnique => (Spec => ImplementsPairing)
<1>1. SUFFICES ASSUME PhrasesUnique PROVE Spec => ImplementsPairing
  OBVIOUS
<1>2. IInv /\ IInv' /\ [Next]_vars => [P!Next]_(P!vars)
  BY <1>1, StepImplements
<1>3. Spec => []IInv
  BY <1>1, InvariantHolds
<1>. QED BY <1>2, <1>3, StartImplements, PTL DEF Spec, ImplementsPairing, P!Spec

=============================================================================
