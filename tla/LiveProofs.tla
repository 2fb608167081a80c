----------------------------- MODULE LiveProofs -----------------------------
(***************************************************************************)
(* Proofs about Live for any number of connections, accounts and phrases.  *)
(***************************************************************************)
EXTENDS LiveInvariant, TLAPS

(* The actions, for steps that expand them.                                 *)
USE DEF vars, cvars, rvars

-----------------------------------------------------------------------------
(* In the first states every variable has its type.                         *)
LEMMA TypeStart == Init => TypeOK
BY LiveAssumption DEF Init, TypeOK, ChallengerPc, WaiterPc, ResponderPc, Rows

(* One step, whatever phrases are drawn, keeps every variable's type.       *)
LEMMA TypeStep == TypeOK /\ [Next]_vars => TypeOK'
<1> SUFFICES ASSUME TypeOK, [Next]_vars PROVE TypeOK'
  OBVIOUS
<1> USE LiveAssumption
<1> USE DEF TypeOK, ChallengerPc, WaiterPc, ResponderPc, Rows, Requests
<1>1. ASSUME NEW c \in Challengers, SendPhrase(c) PROVE TypeOK'
  BY <1>1 DEF SendPhrase, Moves
<1>2. ASSUME NEW c \in Challengers, WriteChallenge(c) PROVE TypeOK'
  BY <1>2 DEF WriteChallenge, Moves
<1>3. ASSUME NEW c \in Challengers, ReadChallenge(c) PROVE TypeOK'
  <2>1. cpc' \in [Challengers -> ChallengerPc]
    BY <1>3 DEF ReadChallenge, Moves
  <2>2. cha' \in [Challengers -> Challengers \union {NoOne}]
    BY <1>3 DEF ReadChallenge
  <2>. QED BY <1>3, <2>1, <2>2 DEF ReadChallenge
<1>4. ASSUME NEW c \in Challengers, ChallengeResult(c) PROVE TypeOK'
  <2>1. cpc' \in [Challengers -> ChallengerPc]
    BY <1>4 DEF ChallengeResult, Moves
  <2>2. wpc' \in [Challengers -> WaiterPc]
    BY <1>4 DEF ChallengeResult
  <2>. QED BY <1>4, <2>1, <2>2 DEF ChallengeResult
<1>5. ASSUME NEW c \in Challengers, TellAccepted(c) PROVE TypeOK'
  BY <1>5 DEF TellAccepted, Moves
<1>6. ASSUME NEW c \in Challengers, NilMasterKey(c) PROVE TypeOK'
  BY <1>6 DEF NilMasterKey, Moves
<1>7. ASSUME NEW c \in Challengers, CheckMachine(c) PROVE TypeOK'
  BY <1>7 DEF CheckMachine, Moves
<1>8. ASSUME NEW c \in Challengers, InsertMachine(c) PROVE TypeOK'
  BY <1>8 DEF InsertMachine, Moves
<1>9. ASSUME NEW c \in Challengers, SendMasterKey(c) PROVE TypeOK'
  BY <1>9 DEF SendMasterKey, Moves
<1>10. ASSUME NEW c \in Challengers, Cleanup(c) PROVE TypeOK'
  BY <1>10 DEF Cleanup, Moves
<1>11. ASSUME NEW c \in Challengers, FetchChannel(c) PROVE TypeOK'
  BY <1>11 DEF FetchChannel, WaiterMoves
<1>12. ASSUME NEW c \in Challengers, TimerFires(c) PROVE TypeOK'
  BY <1>12 DEF TimerFires, WaiterMoves
<1>13. ASSUME NEW c \in Challengers, AcceptedClosed(c) PROVE TypeOK'
  BY <1>13 DEF AcceptedClosed, WaiterMoves
<1>14. ASSUME NEW r \in Responders, NilPublicKey(r) PROVE TypeOK'
  BY <1>14 DEF NilPublicKey, ResponderMoves
<1>15. ASSUME NEW r \in Responders, ForwardKey(r) PROVE TypeOK'
  BY <1>15 DEF ForwardKey, ResponderMoves
<1>16. ASSUME NEW c \in Challengers, NEW r \in Responders, ChallengeAccepted(c, r)
      PROVE TypeOK'
  BY <1>16 DEF ChallengeAccepted, WaiterMoves
<1>17. ASSUME NEW c \in Challengers, NEW r \in Responders, SendPublicKey(c, r)
      PROVE TypeOK'
  BY <1>17 DEF SendPublicKey, Moves
<1>18. ASSUME NEW c \in Challengers, NEW r \in Responders, ReceiveMasterKey(c, r)
      PROVE TypeOK'
  BY <1>18 DEF ReceiveMasterKey, Moves
<1>19. ASSUME NEW c \in Challengers, ReadRequest(c) PROVE TypeOK'
  BY <1>19 DEF ReadRequest, Moves
<1>20. ASSUME NEW c \in Challengers, ReadPublicKey(c) PROVE TypeOK'
  BY <1>20 DEF ReadPublicKey, Moves
<1>21. ASSUME NEW r \in Responders, Connect(r) PROVE TypeOK'
  BY <1>21 DEF Connect, ResponderMoves
<1>22. ASSUME NEW r \in Responders, Answer(r) PROVE TypeOK'
  BY <1>22 DEF Answer, ResponderMoves
<1>23. ASSUME NEW r \in Responders, ReadMasterKey(r) PROVE TypeOK'
  BY <1>23 DEF ReadMasterKey, ResponderMoves
<1>24. ASSUME NEW c \in Challengers, KeyPanics(c) PROVE TypeOK'
  BY <1>24 DEF KeyPanics, ProcessEnds
<1>25. ASSUME NEW r \in Responders, AcceptPanics(r) PROVE TypeOK'
  BY <1>25 DEF AcceptPanics, ProcessEnds
<1>26. ASSUME NEW r \in Responders, MasterPanics(r) PROVE TypeOK'
  BY <1>26 DEF MasterPanics, ProcessEnds
<1>27. ASSUME Restart PROVE TypeOK'
  BY <1>27 DEF Restart, ProcessEnds
<1>28. CASE UNCHANGED vars
  BY <1>28
<1>. QED
  BY <1>1, <1>2, <1>3, <1>4, <1>5, <1>6, <1>7, <1>8, <1>9, <1>10, <1>11,
    <1>12, <1>13, <1>14, <1>15, <1>16, <1>17, <1>18, <1>19, <1>20, <1>21,
    <1>22, <1>23, <1>24, <1>25, <1>26, <1>27, <1>28 DEF Next, HandlerStep,
    WaiterStep, ResponderStep, Rendezvous, ClientStep

(* Every variable keeps its type, whatever phrases are drawn: no clean-up   *)
(* closes a session that is not in the dict.                                *)
THEOREM TypeCorrect == Spec => []TypeOK
BY TypeStart, TypeStep, PTL DEF Spec
-----------------------------------------------------------------------------
(* With phrases drawn once, what one step preserves.  One lemma per group of    *)
(* actions, in each one step per action and one per part that it can disturb. *)

(* A step the challenger's handler takes by itself.                         *)
LEMMA HandlerKeepsInvariant ==
    PhrasesUnique /\ IInv /\ TypeOK' /\ (\E c \in Challengers : HandlerStep(c)) => IInv'
<1> SUFFICES ASSUME TypeOK, TypeOK', PhrasesUnique,
                    DictOwned, DictHolds, ClosedAtEnd, WaiterLives, ReadsOwn,
                    SameAccount, EngagedDecided, EngagedAlone, KeyPassed,
                    KeyPassedOnce, TakerWaits, HandoverSafe, MasterSupplied,
                    RowsSupplied, RowBeforeKey, OnlyLateAnswersPanic,
                    \E c \in Challengers : HandlerStep(c)
             PROVE  IInv'
  BY DEF IInv
<1> USE LiveAssumption DEF Registered, Engaged, Unregistered, Undecided,
                           Waiting, HasMaster
<1>1. ASSUME NEW c \in Challengers, SendPhrase(c) PROVE IInv'
  <2>1. DictOwned' /\ DictHolds' /\ ClosedAtEnd' /\ WaiterLives' /\
        ReadsOwn'
    BY <1>1 DEF SendPhrase, Moves, TypeOK, DictOwned, DictHolds,
      ClosedAtEnd, WaiterLives, ReadsOwn, PhrasesUnique
  <2>2. KeyPassed' /\ TakerWaits' /\ HandoverSafe'
    BY <1>1 DEF SendPhrase, Moves, TypeOK, KeyPassed, TakerWaits,
      HandoverSafe, SameAccount, ReadsOwn, WaiterLives, EngagedAlone,
      ClosedAtEnd, DictHolds
  <2>3. MasterSupplied' /\ RowsSupplied' /\ RowBeforeKey'
    BY <1>1 DEF SendPhrase, Moves, TypeOK, MasterSupplied, RowsSupplied,
      RowBeforeKey, ReadsOwn, HandoverSafe, SameAccount, Supplied, KeyPassed
  <2>4. SameAccount' /\ EngagedDecided' /\ EngagedAlone' /\ KeyPassedOnce'
        /\ OnlyLateAnswersPanic'
    BY <1>1 DEF SendPhrase, SameAccount, EngagedDecided, EngagedAlone,
      KeyPassedOnce, OnlyLateAnswersPanic
  <2>. QED BY <2>1, <2>2, <2>3, <2>4 DEF IInv
<1>2. ASSUME NEW c \in Challengers, WriteChallenge(c) PROVE IInv'
  <2>1. DictOwned' /\ DictHolds' /\ ClosedAtEnd' /\ WaiterLives' /\
        ReadsOwn'
    BY <1>2 DEF WriteChallenge, Moves, TypeOK, DictOwned, DictHolds,
      ClosedAtEnd, WaiterLives, ReadsOwn, PhrasesUnique
  <2>2. EngagedDecided' /\ KeyPassed' /\ TakerWaits' /\ HandoverSafe'
    BY <1>2 DEF WriteChallenge, Moves, TypeOK, EngagedDecided, KeyPassed,
      TakerWaits, HandoverSafe, SameAccount, WaiterLives, ReadsOwn,
      EngagedAlone, ClosedAtEnd, DictHolds
  <2>3. MasterSupplied' /\ RowsSupplied' /\ RowBeforeKey'
    BY <1>2 DEF WriteChallenge, Moves, TypeOK, MasterSupplied, RowsSupplied,
      RowBeforeKey, ReadsOwn, HandoverSafe, SameAccount, Supplied, KeyPassed
  <2>4. SameAccount' /\ EngagedAlone' /\ KeyPassedOnce' /\
        OnlyLateAnswersPanic'
    BY <1>2 DEF WriteChallenge, SameAccount, EngagedAlone, KeyPassedOnce,
      OnlyLateAnswersPanic
  <2>. QED BY <2>1, <2>2, <2>3, <2>4 DEF IInv
<1>3. ASSUME NEW c \in Challengers, ReadChallenge(c) PROVE IInv'
  <2>1. DictOwned' /\ DictHolds' /\ ClosedAtEnd' /\ WaiterLives' /\
        ReadsOwn'
    BY <1>3 DEF ReadChallenge, Moves, TypeOK, DictOwned, DictHolds,
      ClosedAtEnd, WaiterLives, ReadsOwn, PhrasesUnique
  <2>2. KeyPassed' /\ TakerWaits' /\ HandoverSafe'
    BY <1>3 DEF ReadChallenge, Moves, TypeOK, KeyPassed, TakerWaits,
      HandoverSafe, SameAccount, ReadsOwn, WaiterLives, EngagedAlone,
      ClosedAtEnd, DictHolds
  <2>3. MasterSupplied' /\ RowsSupplied' /\ RowBeforeKey'
    BY <1>3 DEF ReadChallenge, Moves, TypeOK, MasterSupplied, RowsSupplied,
      RowBeforeKey, ReadsOwn, HandoverSafe, SameAccount, Supplied, KeyPassed
  <2>4. SameAccount' /\ EngagedDecided' /\ EngagedAlone' /\ KeyPassedOnce'
        /\ OnlyLateAnswersPanic'
    BY <1>3 DEF ReadChallenge, SameAccount, EngagedDecided, EngagedAlone,
      KeyPassedOnce, OnlyLateAnswersPanic
  <2>. QED BY <2>1, <2>2, <2>3, <2>4 DEF IInv
<1>4. ASSUME NEW c \in Challengers, ChallengeResult(c) PROVE IInv'
  <2>1. DictOwned' /\ DictHolds' /\ ClosedAtEnd' /\ WaiterLives' /\
        ReadsOwn'
    BY <1>4 DEF ChallengeResult, Moves, TypeOK, DictOwned, DictHolds,
      ClosedAtEnd, WaiterLives, ReadsOwn, PhrasesUnique
  <2>2. EngagedDecided' /\ KeyPassed' /\ TakerWaits' /\ HandoverSafe'
    BY <1>4 DEF ChallengeResult, Moves, TypeOK, EngagedDecided, KeyPassed,
      TakerWaits, HandoverSafe, SameAccount, WaiterLives, ReadsOwn,
      EngagedAlone, ClosedAtEnd, DictHolds
  <2>3. MasterSupplied' /\ RowsSupplied' /\ RowBeforeKey'
    BY <1>4 DEF ChallengeResult, Moves, TypeOK, MasterSupplied,
      RowsSupplied, RowBeforeKey, ReadsOwn, HandoverSafe, SameAccount,
      Supplied, KeyPassed
  <2>4. SameAccount' /\ EngagedAlone' /\ KeyPassedOnce' /\
        OnlyLateAnswersPanic'
    BY <1>4 DEF ChallengeResult, SameAccount, EngagedAlone, KeyPassedOnce,
      OnlyLateAnswersPanic
  <2>. QED BY <2>1, <2>2, <2>3, <2>4 DEF IInv
<1>5. ASSUME NEW c \in Challengers, TellAccepted(c) PROVE IInv'
  <2>1. DictOwned' /\ DictHolds' /\ ClosedAtEnd' /\ WaiterLives' /\
        ReadsOwn'
    BY <1>5 DEF TellAccepted, Moves, TypeOK, DictOwned, DictHolds,
      ClosedAtEnd, WaiterLives, ReadsOwn, PhrasesUnique
  <2>2. KeyPassed' /\ TakerWaits' /\ HandoverSafe'
    BY <1>5 DEF TellAccepted, Moves, TypeOK, KeyPassed, TakerWaits,
      HandoverSafe, SameAccount, ReadsOwn, WaiterLives, EngagedAlone,
      ClosedAtEnd, DictHolds
  <2>3. MasterSupplied' /\ RowsSupplied' /\ RowBeforeKey'
    BY <1>5 DEF TellAccepted, Moves, TypeOK, MasterSupplied, RowsSupplied,
      RowBeforeKey, ReadsOwn, HandoverSafe, SameAccount, Supplied, KeyPassed
  <2>4. SameAccount' /\ EngagedDecided' /\ EngagedAlone' /\ KeyPassedOnce'
        /\ OnlyLateAnswersPanic'
    BY <1>5 DEF TellAccepted, SameAccount, EngagedDecided, EngagedAlone,
      KeyPassedOnce, OnlyLateAnswersPanic
  <2>. QED BY <2>1, <2>2, <2>3, <2>4 DEF IInv
<1>6. ASSUME NEW c \in Challengers, NilMasterKey(c) PROVE FALSE
  BY <1>6 DEF NilMasterKey, Moves, TypeOK, ReadsOwn, ClosedAtEnd
<1>7. ASSUME NEW c \in Challengers, CheckMachine(c) PROVE IInv'
  <2>1. DictOwned' /\ DictHolds' /\ ClosedAtEnd' /\ WaiterLives' /\
        ReadsOwn'
    BY <1>7 DEF CheckMachine, Moves, TypeOK, DictOwned, DictHolds,
      ClosedAtEnd, WaiterLives, ReadsOwn, PhrasesUnique
  <2>2. KeyPassed' /\ TakerWaits' /\ HandoverSafe'
    BY <1>7 DEF CheckMachine, Moves, TypeOK, KeyPassed, TakerWaits,
      HandoverSafe, SameAccount, ReadsOwn, WaiterLives, EngagedAlone,
      ClosedAtEnd, DictHolds
  <2>3. MasterSupplied' /\ RowsSupplied' /\ RowBeforeKey'
    BY <1>7 DEF CheckMachine, Moves, TypeOK, MasterSupplied, RowsSupplied,
      RowBeforeKey, ReadsOwn, HandoverSafe, SameAccount, Supplied, KeyPassed
  <2>4. SameAccount' /\ EngagedDecided' /\ EngagedAlone' /\ KeyPassedOnce'
        /\ OnlyLateAnswersPanic'
    BY <1>7 DEF CheckMachine, SameAccount, EngagedDecided, EngagedAlone,
      KeyPassedOnce, OnlyLateAnswersPanic
  <2>. QED BY <2>1, <2>2, <2>3, <2>4 DEF IInv
<1>8. ASSUME NEW c \in Challengers, InsertMachine(c) PROVE IInv'
  <2>1. DictOwned' /\ DictHolds' /\ ClosedAtEnd' /\ WaiterLives' /\
        ReadsOwn'
    BY <1>8 DEF InsertMachine, Moves, TypeOK, DictOwned, DictHolds,
      ClosedAtEnd, WaiterLives, ReadsOwn, PhrasesUnique
  <2>2. KeyPassed' /\ TakerWaits' /\ HandoverSafe'
    BY <1>8 DEF InsertMachine, Moves, TypeOK, KeyPassed, TakerWaits,
      HandoverSafe, SameAccount, ReadsOwn, WaiterLives, EngagedAlone,
      ClosedAtEnd, DictHolds
  <2>3. MasterSupplied' /\ RowsSupplied'
    BY <1>8 DEF InsertMachine, Moves, TypeOK, MasterSupplied, RowsSupplied,
      ReadsOwn, HandoverSafe, SameAccount, Supplied, KeyPassed
  <2>4. RowBeforeKey'
    <3>1. \A m \in machines : m \in machines'
      BY <1>8 DEF InsertMachine
    <3>2. CASE cpc'[c] = "sendMaster"
      <4>1. [id |-> c, user |-> want[c].user, name |-> want[c].name] \in machines'
        BY <1>8, <3>2 DEF InsertMachine, Moves, TypeOK
      <4>. QED BY <1>8, <3>1, <4>1 DEF InsertMachine, Moves, TypeOK, RowBeforeKey
    <3>3. CASE cpc'[c] # "sendMaster"
      BY <1>8, <3>1, <3>3 DEF InsertMachine, Moves, TypeOK, RowBeforeKey
    <3>. QED BY <3>2, <3>3
  <2>5. SameAccount' /\ EngagedDecided' /\ EngagedAlone' /\ KeyPassedOnce'
        /\ OnlyLateAnswersPanic'
    BY <1>8 DEF InsertMachine, SameAccount, EngagedDecided, EngagedAlone,
      KeyPassedOnce, OnlyLateAnswersPanic
  <2>. QED BY <2>1, <2>2, <2>3, <2>4, <2>5 DEF IInv
<1>9. ASSUME NEW c \in Challengers, SendMasterKey(c) PROVE IInv'
  <2>1. DictOwned' /\ DictHolds' /\ ClosedAtEnd' /\ WaiterLives' /\
        ReadsOwn'
    BY <1>9 DEF SendMasterKey, Moves, TypeOK, DictOwned, DictHolds,
      ClosedAtEnd, WaiterLives, ReadsOwn, PhrasesUnique
  <2>2. KeyPassed' /\ TakerWaits' /\ HandoverSafe'
    BY <1>9 DEF SendMasterKey, Moves, TypeOK, KeyPassed, TakerWaits,
      HandoverSafe, SameAccount, ReadsOwn, WaiterLives, EngagedAlone,
      ClosedAtEnd, DictHolds
  <2>3. MasterSupplied' /\ RowsSupplied' /\ RowBeforeKey'
    BY <1>9 DEF SendMasterKey, Moves, TypeOK, MasterSupplied, RowsSupplied,
      RowBeforeKey, ReadsOwn, HandoverSafe, SameAccount, Supplied, KeyPassed
  <2>4. SameAccount' /\ EngagedDecided' /\ EngagedAlone' /\ KeyPassedOnce'
        /\ OnlyLateAnswersPanic'
    BY <1>9 DEF SendMasterKey, SameAccount, EngagedDecided, EngagedAlone,
      KeyPassedOnce, OnlyLateAnswersPanic
  <2>. QED BY <2>1, <2>2, <2>3, <2>4 DEF IInv
<1>10. ASSUME NEW c \in Challengers, Cleanup(c) PROVE IInv'
  <2>1. DictOwned' /\ DictHolds' /\ ClosedAtEnd' /\ WaiterLives' /\
        ReadsOwn'
    BY <1>10 DEF Cleanup, Moves, TypeOK, DictOwned, DictHolds, ClosedAtEnd,
      WaiterLives, ReadsOwn, PhrasesUnique
  <2>2. KeyPassed' /\ TakerWaits' /\ HandoverSafe'
    BY <1>10 DEF Cleanup, Moves, TypeOK, KeyPassed, TakerWaits,
      HandoverSafe, SameAccount, ReadsOwn, WaiterLives, EngagedAlone,
      ClosedAtEnd, DictHolds
  <2>3. MasterSupplied' /\ RowsSupplied' /\ RowBeforeKey'
    BY <1>10 DEF Cleanup, Moves, TypeOK, MasterSupplied, RowsSupplied,
      RowBeforeKey, ReadsOwn, HandoverSafe, SameAccount, Supplied, KeyPassed
  <2>4. SameAccount' /\ EngagedDecided' /\ EngagedAlone' /\ KeyPassedOnce'
        /\ OnlyLateAnswersPanic'
    BY <1>10 DEF Cleanup, SameAccount, EngagedDecided, EngagedAlone,
      KeyPassedOnce, OnlyLateAnswersPanic
  <2>. QED BY <2>1, <2>2, <2>3, <2>4 DEF IInv
<1>11. ASSUME NEW c \in Challengers, KeyPanics(c) PROVE FALSE
  BY <1>11 DEF KeyPanics, TypeOK, ReadsOwn, ClosedAtEnd
<1>. QED BY <1>1, <1>2, <1>3, <1>4, <1>5, <1>6, <1>7, <1>8, <1>9, <1>10,
  <1>11 DEF HandlerStep

(* A step of the goroutine that waits for the approval.                     *)
LEMMA WaiterKeepsInvariant ==
    PhrasesUnique /\ IInv /\ TypeOK' /\ (\E c \in Challengers : WaiterStep(c)) => IInv'
<1> SUFFICES ASSUME TypeOK, TypeOK', PhrasesUnique,
                    DictOwned, DictHolds, ClosedAtEnd, WaiterLives, ReadsOwn,
                    SameAccount, EngagedDecided, EngagedAlone, KeyPassed,
                    KeyPassedOnce, TakerWaits, HandoverSafe, MasterSupplied,
                    RowsSupplied, RowBeforeKey, OnlyLateAnswersPanic,
                    \E c \in Challengers : WaiterStep(c)
             PROVE  IInv'
  BY DEF IInv
<1> USE LiveAssumption DEF Registered, Engaged, Unregistered, Undecided,
                           Waiting, HasMaster
<1>1. ASSUME NEW c \in Challengers, FetchChannel(c) PROVE IInv'
  <2>1. WaiterLives'
    BY <1>1 DEF FetchChannel, WaiterMoves, TypeOK, WaiterLives, DictHolds
  <2>2. EngagedDecided' /\ TakerWaits'
    BY <1>1 DEF FetchChannel, WaiterMoves, TypeOK, EngagedDecided,
      TakerWaits, SameAccount, WaiterLives, ReadsOwn, KeyPassed,
      EngagedAlone, ClosedAtEnd
  <2>3. DictOwned' /\ DictHolds' /\ ClosedAtEnd' /\ ReadsOwn' /\
        SameAccount' /\ EngagedAlone' /\ KeyPassed' /\ KeyPassedOnce' /\
        HandoverSafe' /\ MasterSupplied' /\ RowsSupplied' /\ RowBeforeKey'
        /\ OnlyLateAnswersPanic'
    BY <1>1 DEF FetchChannel, DictOwned, DictHolds, ClosedAtEnd, ReadsOwn,
      SameAccount, EngagedAlone, KeyPassed, KeyPassedOnce, HandoverSafe,
      MasterSupplied, RowsSupplied, RowBeforeKey, OnlyLateAnswersPanic,
      Supplied
  <2>. QED BY <2>1, <2>2, <2>3 DEF IInv
<1>2. ASSUME NEW c \in Challengers, TimerFires(c) PROVE IInv'
  <2>1. WaiterLives'
    BY <1>2 DEF TimerFires, WaiterMoves, TypeOK, WaiterLives, DictHolds
  <2>2. EngagedDecided' /\ TakerWaits'
    BY <1>2 DEF TimerFires, WaiterMoves, TypeOK, EngagedDecided, TakerWaits,
      SameAccount, WaiterLives, ReadsOwn, KeyPassed, EngagedAlone,
      ClosedAtEnd
  <2>3. DictOwned' /\ DictHolds' /\ ClosedAtEnd' /\ ReadsOwn' /\
        SameAccount' /\ EngagedAlone' /\ KeyPassed' /\ KeyPassedOnce' /\
        HandoverSafe' /\ MasterSupplied' /\ RowsSupplied' /\ RowBeforeKey'
        /\ OnlyLateAnswersPanic'
    BY <1>2 DEF TimerFires, DictOwned, DictHolds, ClosedAtEnd, ReadsOwn,
      SameAccount, EngagedAlone, KeyPassed, KeyPassedOnce, HandoverSafe,
      MasterSupplied, RowsSupplied, RowBeforeKey, OnlyLateAnswersPanic,
      Supplied
  <2>. QED BY <2>1, <2>2, <2>3 DEF IInv
<1>3. ASSUME NEW c \in Challengers, AcceptedClosed(c) PROVE IInv'
  <2>1. WaiterLives'
    BY <1>3 DEF AcceptedClosed, WaiterMoves, TypeOK, WaiterLives, DictHolds
  <2>2. EngagedDecided' /\ TakerWaits'
    BY <1>3 DEF AcceptedClosed, WaiterMoves, TypeOK, EngagedDecided,
      TakerWaits, SameAccount, WaiterLives, ReadsOwn, KeyPassed,
      EngagedAlone, ClosedAtEnd
  <2>3. DictOwned' /\ DictHolds' /\ ClosedAtEnd' /\ ReadsOwn' /\
        SameAccount' /\ EngagedAlone' /\ KeyPassed' /\ KeyPassedOnce' /\
        HandoverSafe' /\ MasterSupplied' /\ RowsSupplied' /\ RowBeforeKey'
        /\ OnlyLateAnswersPanic'
    BY <1>3 DEF AcceptedClosed, DictOwned, DictHolds, ClosedAtEnd, ReadsOwn,
      SameAccount, EngagedAlone, KeyPassed, KeyPassedOnce, HandoverSafe,
      MasterSupplied, RowsSupplied, RowBeforeKey, OnlyLateAnswersPanic,
      Supplied
  <2>. QED BY <2>1, <2>2, <2>3 DEF IInv
<1>. QED BY <1>1, <1>2, <1>3 DEF WaiterStep

(* A step the responder's handler takes by itself.                          *)
LEMMA ResponderKeepsInvariant ==
    PhrasesUnique /\ IInv /\ TypeOK' /\ (\E r \in Responders : ResponderStep(r)) => IInv'
<1> SUFFICES ASSUME TypeOK, TypeOK', PhrasesUnique,
                    DictOwned, DictHolds, ClosedAtEnd, WaiterLives, ReadsOwn,
                    SameAccount, EngagedDecided, EngagedAlone, KeyPassed,
                    KeyPassedOnce, TakerWaits, HandoverSafe, MasterSupplied,
                    RowsSupplied, RowBeforeKey, OnlyLateAnswersPanic,
                    \E r \in Responders : ResponderStep(r)
             PROVE  IInv'
  BY DEF IInv
<1> USE LiveAssumption DEF Registered, Engaged, Unregistered, Undecided,
                           Waiting, HasMaster
<1>1. ASSUME NEW r \in Responders, NilPublicKey(r) PROVE IInv'
  <2>1. SameAccount' /\ EngagedDecided' /\ EngagedAlone' /\ KeyPassed' /\
        TakerWaits' /\ HandoverSafe'
    BY <1>1 DEF NilPublicKey, ResponderMoves, TypeOK, SameAccount,
      EngagedDecided, EngagedAlone, KeyPassed, TakerWaits, HandoverSafe,
      WaiterLives, ReadsOwn, ClosedAtEnd, DictHolds
  <2>2. DictOwned' /\ DictHolds' /\ ClosedAtEnd' /\ WaiterLives' /\
        ReadsOwn' /\ KeyPassedOnce' /\ MasterSupplied' /\ RowsSupplied' /\
        RowBeforeKey' /\ OnlyLateAnswersPanic'
    BY <1>1 DEF NilPublicKey, DictOwned, DictHolds, ClosedAtEnd,
      WaiterLives, ReadsOwn, KeyPassedOnce, MasterSupplied, RowsSupplied,
      RowBeforeKey, OnlyLateAnswersPanic, Supplied
  <2>. QED BY <2>1, <2>2 DEF IInv
<1>2. ASSUME NEW r \in Responders, ForwardKey(r) PROVE IInv'
  <2>1. SameAccount' /\ EngagedDecided' /\ EngagedAlone' /\ KeyPassed' /\
        TakerWaits' /\ HandoverSafe'
    BY <1>2 DEF ForwardKey, ResponderMoves, TypeOK, SameAccount,
      EngagedDecided, EngagedAlone, KeyPassed, TakerWaits, HandoverSafe,
      WaiterLives, ReadsOwn, ClosedAtEnd, DictHolds
  <2>2. DictOwned' /\ DictHolds' /\ ClosedAtEnd' /\ WaiterLives' /\
        ReadsOwn' /\ KeyPassedOnce' /\ MasterSupplied' /\ RowsSupplied' /\
        RowBeforeKey' /\ OnlyLateAnswersPanic'
    BY <1>2 DEF ForwardKey, DictOwned, DictHolds, ClosedAtEnd, WaiterLives,
      ReadsOwn, KeyPassedOnce, MasterSupplied, RowsSupplied, RowBeforeKey,
      OnlyLateAnswersPanic, Supplied
  <2>. QED BY <2>1, <2>2 DEF IInv
<1>3. ASSUME NEW r \in Responders, AcceptPanics(r) PROVE IInv'
  <2>1. DictOwned' /\ DictHolds' /\ ClosedAtEnd' /\ WaiterLives' /\
        ReadsOwn'
    BY <1>3 DEF AcceptPanics, ProcessEnds, TypeOK, DictOwned, DictHolds,
      ClosedAtEnd, WaiterLives, ReadsOwn, PhrasesUnique
  <2>2. SameAccount' /\ EngagedDecided' /\ EngagedAlone' /\ KeyPassed' /\
        TakerWaits' /\ HandoverSafe'
    BY <1>3 DEF AcceptPanics, ProcessEnds, TypeOK, SameAccount,
      EngagedDecided, EngagedAlone, KeyPassed, TakerWaits, HandoverSafe,
      WaiterLives, ReadsOwn, ClosedAtEnd, DictHolds
  <2>3. MasterSupplied' /\ RowsSupplied' /\ RowBeforeKey' /\
        OnlyLateAnswersPanic'
    BY <1>3 DEF AcceptPanics, ProcessEnds, TypeOK, MasterSupplied,
      RowsSupplied, RowBeforeKey, OnlyLateAnswersPanic, ReadsOwn,
      HandoverSafe, SameAccount, Supplied, KeyPassed
  <2>4. KeyPassedOnce'
    BY <1>3 DEF AcceptPanics, ProcessEnds, KeyPassedOnce
  <2>. QED BY <2>1, <2>2, <2>3, <2>4 DEF IInv
<1>4. ASSUME NEW r \in Responders, MasterPanics(r) PROVE FALSE
  BY <1>4 DEF MasterPanics, TypeOK, HandoverSafe
<1>. QED BY <1>1, <1>2, <1>3, <1>4 DEF ResponderStep

(* A message on one of the three channels.                                  *)
LEMMA RendezvousKeepsInvariant ==
    /\ PhrasesUnique /\ IInv /\ TypeOK'
    /\ \E c \in Challengers, r \in Responders : Rendezvous(c, r)
    => IInv'
<1> SUFFICES ASSUME TypeOK, TypeOK', PhrasesUnique,
                    DictOwned, DictHolds, ClosedAtEnd, WaiterLives, ReadsOwn,
                    SameAccount, EngagedDecided, EngagedAlone, KeyPassed,
                    KeyPassedOnce, TakerWaits, HandoverSafe, MasterSupplied,
                    RowsSupplied, RowBeforeKey, OnlyLateAnswersPanic,
                    \E c \in Challengers, r \in Responders : Rendezvous(c, r)
             PROVE  IInv'
  BY DEF IInv
<1> USE LiveAssumption DEF Registered, Engaged, Unregistered, Undecided,
                           Waiting, HasMaster
<1>1. ASSUME NEW c \in Challengers, NEW r \in Responders, ChallengeAccepted(c, r)
      PROVE IInv'
  <2>1. WaiterLives'
    BY <1>1 DEF ChallengeAccepted, WaiterMoves, TypeOK, WaiterLives,
      DictHolds
  <2>2. SameAccount' /\ EngagedDecided' /\ KeyPassed' /\ TakerWaits' /\
        HandoverSafe'
    BY <1>1 DEF ChallengeAccepted, WaiterMoves, TypeOK, SameAccount,
      EngagedDecided, KeyPassed, TakerWaits, HandoverSafe, WaiterLives,
      ReadsOwn, EngagedAlone, ClosedAtEnd, DictHolds
  <2>3. EngagedAlone'
    <3>1. \A s \in Responders : rpc[s] \in Engaged => sess[s] # c
      BY <1>1 DEF ChallengeAccepted, WaiterMoves, EngagedDecided, SameAccount
    <3>2. sess[r] = c
      BY <1>1 DEF ChallengeAccepted, WaiterMoves, WaiterLives
    <3>3. \A s \in Responders :
            s # r /\ rpc'[s] \in Engaged => rpc[s] \in Engaged
      BY <1>1 DEF ChallengeAccepted, TypeOK
    <3>. QED BY <1>1, <3>1, <3>2, <3>3 DEF ChallengeAccepted, EngagedAlone
  <2>4. DictOwned' /\ DictHolds' /\ ClosedAtEnd' /\ ReadsOwn' /\
        KeyPassedOnce' /\ MasterSupplied' /\ RowsSupplied' /\ RowBeforeKey'
        /\ OnlyLateAnswersPanic'
    BY <1>1 DEF ChallengeAccepted, DictOwned, DictHolds, ClosedAtEnd,
      ReadsOwn, KeyPassedOnce, MasterSupplied, RowsSupplied, RowBeforeKey,
      OnlyLateAnswersPanic, Supplied
  <2>. QED BY <2>1, <2>2, <2>3, <2>4 DEF IInv
<1>2. ASSUME NEW c \in Challengers, NEW r \in Responders, SendPublicKey(c, r)
      PROVE IInv'
  <2>1. DictOwned' /\ DictHolds' /\ ClosedAtEnd' /\ WaiterLives' /\
        ReadsOwn'
    BY <1>2 DEF SendPublicKey, Moves, TypeOK, DictOwned, DictHolds,
      ClosedAtEnd, WaiterLives, ReadsOwn, PhrasesUnique
  <2>2. SameAccount'
    BY <1>2 DEF SendPublicKey, Moves, TypeOK, SameAccount
  <2>3. EngagedDecided'
    BY <1>2 DEF SendPublicKey, Moves, TypeOK, EngagedDecided, SameAccount,
      WaiterLives
  <2>4. EngagedAlone'
    BY <1>2 DEF SendPublicKey, Moves, TypeOK, EngagedAlone, SameAccount,
      EngagedDecided
  <2>5. KeyPassed'
    BY <1>2 DEF SendPublicKey, Moves, TypeOK, KeyPassed, SameAccount,
      HandoverSafe, ReadsOwn
  <2>6. KeyPassedOnce'
    BY <1>2 DEF SendPublicKey, Moves, TypeOK, KeyPassedOnce, ReadsOwn,
      KeyPassed
  <2>7. TakerWaits'
    BY <1>2 DEF SendPublicKey, Moves, TypeOK, TakerWaits, SameAccount,
      WaiterLives, ReadsOwn, KeyPassed, EngagedAlone, ClosedAtEnd
  <2>8. HandoverSafe'
    BY <1>2 DEF SendPublicKey, Moves, TypeOK, HandoverSafe, SameAccount,
      ReadsOwn, DictHolds, ClosedAtEnd, KeyPassed, EngagedAlone, TakerWaits
  <2>9. MasterSupplied' /\ RowsSupplied' /\ RowBeforeKey'
    BY <1>2 DEF SendPublicKey, Moves, TypeOK, MasterSupplied, RowsSupplied,
      RowBeforeKey, ReadsOwn, HandoverSafe, SameAccount, Supplied, KeyPassed
  <2>10. OnlyLateAnswersPanic'
    BY <1>2 DEF SendPublicKey, OnlyLateAnswersPanic
  <2>. QED BY <2>1, <2>2, <2>3, <2>4, <2>5, <2>6, <2>7, <2>8, <2>9, <2>10 DEF IInv
<1>3. ASSUME NEW c \in Challengers, NEW r \in Responders, ReceiveMasterKey(c, r)
      PROVE IInv'
  <2>1. DictOwned' /\ DictHolds' /\ ClosedAtEnd' /\ WaiterLives' /\
        ReadsOwn'
    BY <1>3 DEF ReceiveMasterKey, Moves, TypeOK, DictOwned, DictHolds,
      ClosedAtEnd, WaiterLives, ReadsOwn, PhrasesUnique
  <2>2. SameAccount' /\ EngagedDecided' /\ EngagedAlone' /\ KeyPassed' /\
        TakerWaits' /\ HandoverSafe'
    BY <1>3 DEF ReceiveMasterKey, Moves, TypeOK, SameAccount,
      EngagedDecided, EngagedAlone, KeyPassed, TakerWaits, HandoverSafe,
      WaiterLives, ReadsOwn, ClosedAtEnd, DictHolds
  <2>3. MasterSupplied' /\ RowsSupplied' /\ RowBeforeKey'
    BY <1>3 DEF ReceiveMasterKey, Moves, TypeOK, MasterSupplied,
      RowsSupplied, RowBeforeKey, ReadsOwn, HandoverSafe, SameAccount,
      Supplied, KeyPassed
  <2>4. KeyPassedOnce' /\ OnlyLateAnswersPanic'
    BY <1>3 DEF ReceiveMasterKey, KeyPassedOnce, OnlyLateAnswersPanic
  <2>. QED BY <2>1, <2>2, <2>3, <2>4 DEF IInv
<1>. QED BY <1>1, <1>2, <1>3 DEF Rendezvous

(* A message of a client, or the end of its connection.                     *)
LEMMA ClientKeepsInvariant ==
    PhrasesUnique /\ IInv /\ TypeOK' /\ (ClientStep) => IInv'
<1> SUFFICES ASSUME TypeOK, TypeOK', PhrasesUnique,
                    DictOwned, DictHolds, ClosedAtEnd, WaiterLives, ReadsOwn,
                    SameAccount, EngagedDecided, EngagedAlone, KeyPassed,
                    KeyPassedOnce, TakerWaits, HandoverSafe, MasterSupplied,
                    RowsSupplied, RowBeforeKey, OnlyLateAnswersPanic,
                    ClientStep
             PROVE  IInv'
  BY DEF IInv
<1> USE LiveAssumption DEF Registered, Engaged, Unregistered, Undecided,
                           Waiting, HasMaster
<1>1. ASSUME NEW c \in Challengers, ReadRequest(c) PROVE IInv'
  <2>1. DictOwned' /\ DictHolds' /\ ClosedAtEnd' /\ WaiterLives' /\
        ReadsOwn'
    BY <1>1 DEF ReadRequest, Moves, TypeOK, DictOwned, DictHolds,
      ClosedAtEnd, WaiterLives, ReadsOwn, PhrasesUnique
  <2>2. KeyPassed' /\ TakerWaits' /\ HandoverSafe'
    BY <1>1 DEF ReadRequest, Moves, TypeOK, KeyPassed, TakerWaits,
      HandoverSafe, SameAccount, ReadsOwn, WaiterLives, EngagedAlone,
      ClosedAtEnd, DictHolds
  <2>3. MasterSupplied' /\ RowsSupplied' /\ RowBeforeKey'
    BY <1>1 DEF ReadRequest, Moves, TypeOK, MasterSupplied, RowsSupplied,
      RowBeforeKey, ReadsOwn, HandoverSafe, SameAccount, Supplied, KeyPassed
  <2>4. SameAccount' /\ EngagedDecided' /\ EngagedAlone' /\ KeyPassedOnce'
        /\ OnlyLateAnswersPanic'
    BY <1>1 DEF ReadRequest, SameAccount, EngagedDecided, EngagedAlone,
      KeyPassedOnce, OnlyLateAnswersPanic
  <2>. QED BY <2>1, <2>2, <2>3, <2>4 DEF IInv
<1>2. ASSUME NEW c \in Challengers, ReadPublicKey(c) PROVE IInv'
  <2>1. DictOwned' /\ DictHolds' /\ ClosedAtEnd' /\ WaiterLives' /\
        ReadsOwn'
    BY <1>2 DEF ReadPublicKey, Moves, TypeOK, DictOwned, DictHolds,
      ClosedAtEnd, WaiterLives, ReadsOwn, PhrasesUnique
  <2>2. KeyPassed' /\ TakerWaits' /\ HandoverSafe'
    BY <1>2 DEF ReadPublicKey, Moves, TypeOK, KeyPassed, TakerWaits,
      HandoverSafe, SameAccount, ReadsOwn, WaiterLives, EngagedAlone,
      ClosedAtEnd, DictHolds
  <2>3. MasterSupplied' /\ RowsSupplied' /\ RowBeforeKey'
    BY <1>2 DEF ReadPublicKey, Moves, TypeOK, MasterSupplied, RowsSupplied,
      RowBeforeKey, ReadsOwn, HandoverSafe, SameAccount, Supplied, KeyPassed
  <2>4. SameAccount' /\ EngagedDecided' /\ EngagedAlone' /\ KeyPassedOnce'
        /\ OnlyLateAnswersPanic'
    BY <1>2 DEF ReadPublicKey, SameAccount, EngagedDecided, EngagedAlone,
      KeyPassedOnce, OnlyLateAnswersPanic
  <2>. QED BY <2>1, <2>2, <2>3, <2>4 DEF IInv
<1>3. ASSUME NEW r \in Responders, Connect(r) PROVE IInv'
  <2>1. SameAccount' /\ EngagedDecided' /\ EngagedAlone' /\ KeyPassed' /\
        TakerWaits' /\ HandoverSafe'
    BY <1>3 DEF Connect, ResponderMoves, TypeOK, SameAccount,
      EngagedDecided, EngagedAlone, KeyPassed, TakerWaits, HandoverSafe,
      WaiterLives, ReadsOwn, ClosedAtEnd, DictHolds
  <2>2. DictOwned' /\ DictHolds' /\ ClosedAtEnd' /\ WaiterLives' /\
        ReadsOwn' /\ KeyPassedOnce' /\ MasterSupplied' /\ RowsSupplied' /\
        RowBeforeKey' /\ OnlyLateAnswersPanic'
    BY <1>3 DEF Connect, DictOwned, DictHolds, ClosedAtEnd, WaiterLives,
      ReadsOwn, KeyPassedOnce, MasterSupplied, RowsSupplied, RowBeforeKey,
      OnlyLateAnswersPanic, Supplied
  <2>. QED BY <2>1, <2>2 DEF IInv
<1>4. ASSUME NEW r \in Responders, Answer(r) PROVE IInv'
  <2>1. SameAccount' /\ EngagedDecided' /\ EngagedAlone' /\ KeyPassed' /\
        TakerWaits' /\ HandoverSafe'
    BY <1>4 DEF Answer, ResponderMoves, TypeOK, SameAccount, EngagedDecided,
      EngagedAlone, KeyPassed, TakerWaits, HandoverSafe, WaiterLives,
      ReadsOwn, ClosedAtEnd, DictHolds
  <2>2. DictOwned' /\ DictHolds' /\ ClosedAtEnd' /\ WaiterLives' /\
        ReadsOwn' /\ KeyPassedOnce' /\ MasterSupplied' /\ RowsSupplied' /\
        RowBeforeKey' /\ OnlyLateAnswersPanic'
    BY <1>4 DEF Answer, DictOwned, DictHolds, ClosedAtEnd, WaiterLives,
      ReadsOwn, KeyPassedOnce, MasterSupplied, RowsSupplied, RowBeforeKey,
      OnlyLateAnswersPanic, Supplied
  <2>. QED BY <2>1, <2>2 DEF IInv
<1>5. ASSUME NEW r \in Responders, ReadMasterKey(r) PROVE IInv'
  <2>1. SameAccount' /\ EngagedDecided' /\ EngagedAlone' /\ KeyPassed' /\
        TakerWaits' /\ HandoverSafe'
    BY <1>5 DEF ReadMasterKey, ResponderMoves, TypeOK, SameAccount,
      EngagedDecided, EngagedAlone, KeyPassed, TakerWaits, HandoverSafe,
      WaiterLives, ReadsOwn, ClosedAtEnd, DictHolds
  <2>2. DictOwned' /\ DictHolds' /\ ClosedAtEnd' /\ WaiterLives' /\
        ReadsOwn' /\ KeyPassedOnce' /\ MasterSupplied' /\ RowsSupplied' /\
        RowBeforeKey' /\ OnlyLateAnswersPanic'
    BY <1>5 DEF ReadMasterKey, DictOwned, DictHolds, ClosedAtEnd,
      WaiterLives, ReadsOwn, KeyPassedOnce, MasterSupplied, RowsSupplied,
      RowBeforeKey, OnlyLateAnswersPanic, Supplied
  <2>. QED BY <2>1, <2>2 DEF IInv
<1>. QED BY <1>1, <1>2, <1>3, <1>4, <1>5 DEF ClientStep

(* The end of the process.                                                  *)
LEMMA RestartKeepsInvariant ==
    PhrasesUnique /\ IInv /\ TypeOK' /\ (Restart) => IInv'
<1> SUFFICES ASSUME TypeOK, TypeOK', PhrasesUnique,
                    DictOwned, DictHolds, ClosedAtEnd, WaiterLives, ReadsOwn,
                    SameAccount, EngagedDecided, EngagedAlone, KeyPassed,
                    KeyPassedOnce, TakerWaits, HandoverSafe, MasterSupplied,
                    RowsSupplied, RowBeforeKey, OnlyLateAnswersPanic,
                    Restart
             PROVE  IInv'
  BY DEF IInv
<1> USE LiveAssumption DEF Registered, Engaged, Unregistered, Undecided,
                           Waiting, HasMaster
<1>1. ASSUME Restart PROVE IInv'
  <2>1. DictOwned' /\ DictHolds' /\ ClosedAtEnd' /\ WaiterLives' /\
        ReadsOwn'
    BY <1>1 DEF Restart, ProcessEnds, TypeOK, DictOwned, DictHolds,
      ClosedAtEnd, WaiterLives, ReadsOwn, PhrasesUnique
  <2>2. SameAccount' /\ EngagedDecided' /\ EngagedAlone' /\ KeyPassed' /\
        TakerWaits' /\ HandoverSafe'
    BY <1>1 DEF Restart, ProcessEnds, TypeOK, SameAccount, EngagedDecided,
      EngagedAlone, KeyPassed, TakerWaits, HandoverSafe, WaiterLives,
      ReadsOwn, ClosedAtEnd, DictHolds
  <2>3. MasterSupplied' /\ RowsSupplied' /\ RowBeforeKey'
    BY <1>1 DEF Restart, ProcessEnds, TypeOK, MasterSupplied, RowsSupplied,
      RowBeforeKey, ReadsOwn, HandoverSafe, SameAccount, Supplied, KeyPassed
  <2>4. KeyPassedOnce' /\ OnlyLateAnswersPanic'
    BY <1>1 DEF Restart, ProcessEnds, KeyPassedOnce, OnlyLateAnswersPanic
  <2>. QED BY <2>1, <2>2, <2>3, <2>4 DEF IInv
<1>. QED BY <1>1

(* One step of any kind keeps the invariant.                                *)
LEMMA InvariantStep == PhrasesUnique /\ IInv /\ [Next]_vars => IInv'
<1> SUFFICES ASSUME PhrasesUnique, IInv, [Next]_vars PROVE IInv'
  OBVIOUS
<1>1. TypeOK'
  BY TypeStep DEF IInv
<1>2. CASE UNCHANGED vars
  BY <1>2 DEF IInv, TypeOK, DictOwned, DictHolds, ClosedAtEnd, WaiterLives,
    ReadsOwn, SameAccount, EngagedDecided, EngagedAlone, KeyPassed,
    KeyPassedOnce, TakerWaits, HandoverSafe, MasterSupplied, RowsSupplied,
    RowBeforeKey, OnlyLateAnswersPanic, Supplied
<1>. QED
  BY <1>1, <1>2, HandlerKeepsInvariant, WaiterKeepsInvariant,
    ResponderKeepsInvariant, RendezvousKeepsInvariant, ClientKeepsInvariant,
    RestartKeepsInvariant DEF Next

(* The first states satisfy the invariant.                                  *)
LEMMA InvariantStart == Init => IInv
<1> SUFFICES ASSUME Init PROVE IInv
  OBVIOUS
<1>1. TypeOK
  BY TypeStart
<1>. QED
  BY <1>1, LiveAssumption DEF Init, IInv, DictOwned, DictHolds, ClosedAtEnd,
    WaiterLives, ReadsOwn, SameAccount, EngagedDecided, EngagedAlone, KeyPassed,
    KeyPassedOnce, TakerWaits, HandoverSafe, MasterSupplied, RowsSupplied,
    RowBeforeKey, OnlyLateAnswersPanic, Registered, Engaged, Unregistered,
    Undecided, Waiting, HasMaster

(* The inductive invariant holds in every reachable state.                  *)
THEOREM InvariantHolds == PhrasesUnique => (Spec => []IInv)
<1>1. SUFFICES ASSUME PhrasesUnique PROVE Spec => []IInv
  OBVIOUS
<1>2. IInv /\ [Next]_vars => IInv'
  BY <1>1, InvariantStep
<1>. QED BY <1>2, InvariantStart, PTL DEF Spec

(* The master key in transit: whoever holds a public key is awaited.        *)
THEOREM HandoverIsSafe == PhrasesUnique => (Spec => []HandoverSafe)
<1>1. IInv => HandoverSafe
  BY DEF IInv
<1>. QED BY <1>1, InvariantHolds, PTL

(* The public key in transit: a challenger that sends it has a taker.       *)
THEOREM KeyIsTaken == PhrasesUnique => (Spec => []KeyHasTaker)
<1>1. IInv => KeyHasTaker
  BY DEF IInv, KeyHasTaker, TakerWaits, ClosedAtEnd
<1>. QED BY <1>1, InvariantHolds, PTL

(* However many answers, one machine is let through.                        *)
THEOREM OneApprover == PhrasesUnique => (Spec => []SingleApprover)
<1>1. IInv => SingleApprover
  BY DEF IInv, SingleApprover, EngagedAlone, KeyPassedOnce
<1>. QED BY <1>1, InvariantHolds, PTL

(* No machine is added without a key supplied by its own account.           *)
THEOREM ApprovalIsRequired == PhrasesUnique => (Spec => []Approved)
<1>1. IInv => Approved
  BY DEF IInv, Approved, RowsSupplied, Supplied
<1>. QED BY <1>1, InvariantHolds, PTL

(* No key is handed to a client whose machine was not added.                *)
THEOREM KeysGoToMembers == PhrasesUnique => (Spec => []DeliveredIsMember)
<1>1. IInv => DeliveredIsMember
  BY DEF IInv, DeliveredIsMember, RowBeforeKey, TypeOK
<1>. QED BY <1>1, InvariantHolds, PTL

(* Two of the three sends never meet a closed channel.                      *)
THEOREM OnlyAnnouncementPanics == PhrasesUnique => (Spec => []OnlyLateAnswersPanic)
<1>1. IInv => OnlyLateAnswersPanic
  BY DEF IInv
<1>. QED BY <1>1, InvariantHolds, PTL

-----------------------------------------------------------------------------
(* Without any assumption on the phrases.                                   *)

(* In the first states the dict is empty.                                   *)
LEMMA StaleStart == Init => StaleInv
BY TypeStart DEF Init, StaleInv, OwnEntry, NoStaleEntry, TypeOK

(* One step, whatever phrases are drawn, leaves no closed session in the    *)
(* dict.                                                                    *)
LEMMA StaleStep == StaleInv /\ [Next]_vars => StaleInv'
<1> SUFFICES ASSUME StaleInv, [Next]_vars PROVE StaleInv'
  OBVIOUS
<1>0. TypeOK'
  BY TypeStep DEF StaleInv
<1> USE LiveAssumption, <1>0 DEF StaleInv, TypeOK, OwnEntry, NoStaleEntry, Unregistered
<1>1. ASSUME NEW c \in Challengers, SendPhrase(c) PROVE StaleInv'
  BY <1>1 DEF SendPhrase, Moves
<1>2. ASSUME NEW c \in Challengers, WriteChallenge(c) PROVE StaleInv'
  BY <1>2 DEF WriteChallenge, Moves
<1>3. ASSUME NEW c \in Challengers, ReadChallenge(c) PROVE StaleInv'
  BY <1>3 DEF ReadChallenge, Moves
<1>4. ASSUME NEW c \in Challengers, ChallengeResult(c) PROVE StaleInv'
  BY <1>4 DEF ChallengeResult, Moves
<1>5. ASSUME NEW c \in Challengers, TellAccepted(c) PROVE StaleInv'
  BY <1>5 DEF TellAccepted, Moves
<1>6. ASSUME NEW c \in Challengers, NilMasterKey(c) PROVE StaleInv'
  BY <1>6 DEF NilMasterKey, Moves
<1>7. ASSUME NEW c \in Challengers, CheckMachine(c) PROVE StaleInv'
  BY <1>7 DEF CheckMachine, Moves
<1>8. ASSUME NEW c \in Challengers, InsertMachine(c) PROVE StaleInv'
  BY <1>8 DEF InsertMachine, Moves
<1>9. ASSUME NEW c \in Challengers, SendMasterKey(c) PROVE StaleInv'
  BY <1>9 DEF SendMasterKey, Moves
<1>10. ASSUME NEW c \in Challengers, Cleanup(c) PROVE StaleInv'
  BY <1>10 DEF Cleanup, Moves
<1>11. ASSUME NEW c \in Challengers, FetchChannel(c) PROVE StaleInv'
  BY <1>11 DEF FetchChannel, WaiterMoves
<1>12. ASSUME NEW c \in Challengers, TimerFires(c) PROVE StaleInv'
  BY <1>12 DEF TimerFires, WaiterMoves
<1>13. ASSUME NEW c \in Challengers, AcceptedClosed(c) PROVE StaleInv'
  BY <1>13 DEF AcceptedClosed, WaiterMoves
<1>14. ASSUME NEW r \in Responders, NilPublicKey(r) PROVE StaleInv'
  BY <1>14 DEF NilPublicKey, ResponderMoves
<1>15. ASSUME NEW r \in Responders, ForwardKey(r) PROVE StaleInv'
  BY <1>15 DEF ForwardKey, ResponderMoves
<1>16. ASSUME NEW c \in Challengers, NEW r \in Responders, ChallengeAccepted(c, r)
      PROVE StaleInv'
  BY <1>16 DEF ChallengeAccepted, WaiterMoves
<1>17. ASSUME NEW c \in Challengers, NEW r \in Responders, SendPublicKey(c, r)
      PROVE StaleInv'
  BY <1>17 DEF SendPublicKey, Moves
<1>18. ASSUME NEW c \in Challengers, NEW r \in Responders, ReceiveMasterKey(c, r)
      PROVE StaleInv'
  BY <1>18 DEF ReceiveMasterKey, Moves
<1>19. ASSUME NEW c \in Challengers, ReadRequest(c) PROVE StaleInv'
  BY <1>19 DEF ReadRequest, Moves
<1>20. ASSUME NEW c \in Challengers, ReadPublicKey(c) PROVE StaleInv'
  BY <1>20 DEF ReadPublicKey, Moves
<1>21. ASSUME NEW r \in Responders, Connect(r) PROVE StaleInv'
  BY <1>21 DEF Connect, ResponderMoves
<1>22. ASSUME NEW r \in Responders, Answer(r) PROVE StaleInv'
  BY <1>22 DEF Answer, ResponderMoves
<1>23. ASSUME NEW r \in Responders, ReadMasterKey(r) PROVE StaleInv'
  BY <1>23 DEF ReadMasterKey, ResponderMoves
<1>24. ASSUME NEW c \in Challengers, KeyPanics(c) PROVE StaleInv'
  BY <1>24 DEF KeyPanics, ProcessEnds
<1>25. ASSUME NEW r \in Responders, AcceptPanics(r) PROVE StaleInv'
  BY <1>25 DEF AcceptPanics, ProcessEnds
<1>26. ASSUME NEW r \in Responders, MasterPanics(r) PROVE StaleInv'
  BY <1>26 DEF MasterPanics, ProcessEnds
<1>27. ASSUME Restart PROVE StaleInv'
  BY <1>27 DEF Restart, ProcessEnds
<1>28. CASE UNCHANGED vars
  BY <1>28
<1>. QED
  BY <1>1, <1>2, <1>3, <1>4, <1>5, <1>6, <1>7, <1>8, <1>9, <1>10, <1>11,
    <1>12, <1>13, <1>14, <1>15, <1>16, <1>17, <1>18, <1>19, <1>20, <1>21,
    <1>22, <1>23, <1>24, <1>25, <1>26, <1>27, <1>28 DEF Next, HandlerStep,
    WaiterStep, ResponderStep, Rendezvous, ClientStep

(* Even when handlers draw the same phrase and replace and remove each      *)
(* other's sessions, no phrase leads to a closed session.                   *)
THEOREM NeverStale == Spec => []NoStaleEntry
<1>1. StaleInv => NoStaleEntry
  BY DEF StaleInv
<1>. QED BY <1>1, StaleStart, StaleStep, PTL DEF Spec


-----------------------------------------------------------------------------
(* Who waits, and for whom.  The parts of WaitsHaveWakers that IInv does not *)
(* imply are inductive with it.                                             *)

KeyTaken ==
    \A c \in Challengers : cpc[c] = "awaitMaster" =>
        \E r \in Responders : gotKey[r] = c /\ sess[r] = c

AnnouncedTo ==
    \A r \in Responders : rpc[r] = "accept" =>
        sess[r] \in closed \/ cpc[sess[r]] \in Registered

KeyAwaited ==
    \A r \in Responders : rpc[r] = "awaitKey" =>
        \/ sess[r] \in closed
        \/ wpc[sess[r]] = "offerYes"
        \/ cpc[sess[r]] \in {"accepted", "readKey", "sendKey", "cleanup"}

Partners == KeyTaken /\ AnnouncedTo /\ KeyAwaited

LEMMA PartnersStay ==
    ASSUME PhrasesUnique, IInv, IInv', Partners, [Next]_vars
    PROVE  Partners'
<1> USE LiveAssumption
    DEF IInv, TypeOK, PhrasesUnique, Partners, KeyTaken, AnnouncedTo,
        KeyAwaited, DictHolds, DictOwned, ReadsOwn, WaiterLives, SameAccount,
        EngagedDecided, EngagedAlone, Registered, Waiting, Undecided,
        Unregistered, Engaged, ChallengerPc, WaiterPc, ResponderPc, vars, cvars,
        rvars
<1>1. ASSUME NEW c \in Challengers, SendPhrase(c) PROVE Partners'
  BY <1>1 DEF SendPhrase, Moves
<1>2. ASSUME NEW c \in Challengers, WriteChallenge(c) PROVE Partners'
  BY <1>2 DEF WriteChallenge, Moves
<1>3. ASSUME NEW c \in Challengers, ReadChallenge(c) PROVE Partners'
  BY <1>3 DEF ReadChallenge, Moves
<1>4. ASSUME NEW c \in Challengers, ChallengeResult(c) PROVE Partners'
  BY <1>4 DEF ChallengeResult, Moves
<1>5. ASSUME NEW c \in Challengers, TellAccepted(c) PROVE Partners'
  BY <1>5 DEF TellAccepted, Moves
<1>6. ASSUME NEW c \in Challengers, NilMasterKey(c) PROVE Partners'
  BY <1>6 DEF NilMasterKey, Moves
<1>7. ASSUME NEW c \in Challengers, CheckMachine(c) PROVE Partners'
  BY <1>7 DEF CheckMachine, Moves
<1>8. ASSUME NEW c \in Challengers, InsertMachine(c) PROVE Partners'
  BY <1>8 DEF InsertMachine, Moves
<1>9. ASSUME NEW c \in Challengers, SendMasterKey(c) PROVE Partners'
  BY <1>9 DEF SendMasterKey, Moves
<1>10. ASSUME NEW c \in Challengers, Cleanup(c) PROVE Partners'
  BY <1>10 DEF Cleanup, Moves
<1>11. ASSUME NEW c \in Challengers, FetchChannel(c) PROVE Partners'
  BY <1>11 DEF FetchChannel, WaiterMoves
<1>12. ASSUME NEW c \in Challengers, TimerFires(c) PROVE Partners'
  BY <1>12 DEF TimerFires, WaiterMoves
<1>13. ASSUME NEW c \in Challengers, AcceptedClosed(c) PROVE Partners'
  BY <1>13 DEF AcceptedClosed, WaiterMoves
<1>14. ASSUME NEW r \in Responders, NilPublicKey(r) PROVE Partners'
  BY <1>14 DEF NilPublicKey, ResponderMoves
<1>15. ASSUME NEW r \in Responders, ForwardKey(r) PROVE Partners'
  BY <1>15 DEF ForwardKey, ResponderMoves
<1>16. ASSUME NEW c \in Challengers, NEW r \in Responders, ChallengeAccepted(c, r)
      PROVE Partners'
  BY <1>16 DEF ChallengeAccepted, WaiterMoves
<1>17. ASSUME NEW c \in Challengers, NEW r \in Responders, SendPublicKey(c, r)
      PROVE Partners'
  BY <1>17 DEF SendPublicKey, Moves
<1>18. ASSUME NEW c \in Challengers, NEW r \in Responders, ReceiveMasterKey(c, r)
      PROVE Partners'
  BY <1>18 DEF ReceiveMasterKey, Moves
<1>19. ASSUME NEW c \in Challengers, ReadRequest(c) PROVE Partners'
  BY <1>19 DEF ReadRequest, Moves
<1>20. ASSUME NEW c \in Challengers, ReadPublicKey(c) PROVE Partners'
  BY <1>20 DEF ReadPublicKey, Moves
<1>21. ASSUME NEW r \in Responders, Connect(r) PROVE Partners'
  BY <1>21 DEF Connect, ResponderMoves
<1>22. ASSUME NEW r \in Responders, Answer(r) PROVE Partners'
  <2>1. gotKey[r] = NoOne
    BY <1>22 DEF Answer, ResponderMoves, KeyPassed
  <2>2. KeyTaken' /\ KeyAwaited'
    BY <1>22, <2>1 DEF Answer, ResponderMoves
  <2>3. AnnouncedTo'
    BY <1>22 DEF Answer, ResponderMoves
  <2>. QED BY <2>2, <2>3
<1>23. ASSUME NEW r \in Responders, ReadMasterKey(r) PROVE Partners'
  BY <1>23 DEF ReadMasterKey, ResponderMoves
<1>24. ASSUME NEW c \in Challengers, KeyPanics(c) PROVE Partners'
  BY <1>24 DEF KeyPanics, ProcessEnds
<1>25. ASSUME NEW r \in Responders, AcceptPanics(r) PROVE Partners'
  BY <1>25 DEF AcceptPanics, ProcessEnds
<1>26. ASSUME NEW r \in Responders, MasterPanics(r) PROVE Partners'
  BY <1>26 DEF MasterPanics, ProcessEnds
<1>27. ASSUME Restart PROVE Partners'
  BY <1>27 DEF Restart, ProcessEnds
<1>28. CASE UNCHANGED vars
  BY <1>28
<1>. QED
  BY <1>1, <1>2, <1>3, <1>4, <1>5, <1>6, <1>7, <1>8, <1>9, <1>10, <1>11,
     <1>12, <1>13, <1>14, <1>15, <1>16, <1>17, <1>18, <1>19, <1>20, <1>21,
     <1>22, <1>23, <1>24, <1>25, <1>26, <1>27, <1>28 DEF Next, HandlerStep,
     WaiterStep, ResponderStep, Rendezvous, ClientStep

(* The invariants of the sessions make every wait one that somebody can end. *)
THEOREM WaitsCanEnd == PhrasesUnique => (Spec => []WaitsHaveWakers)
<1>1. SUFFICES ASSUME PhrasesUnique PROVE Spec => []WaitsHaveWakers
  OBVIOUS
<1>2. IInv /\ Partners => WaitsHaveWakers
  BY DEF IInv, Partners, KeyTaken, AnnouncedTo, KeyAwaited, WaitsHaveWakers,
         TypeOK, DictHolds, WaiterLives, Undecided, Waiting, Registered, WaiterPc
<1>3. Init => Partners
  BY DEF Init, Partners, KeyTaken, AnnouncedTo, KeyAwaited
<1>4. IInv /\ IInv' /\ Partners /\ [Next]_vars => Partners'
  BY <1>1, PartnersStay
<1>5. Spec => []IInv
  BY <1>1, InvariantHolds
<1>. QED BY <1>2, <1>3, <1>4, <1>5, PTL DEF Spec
=============================================================================
