--------------------------- MODULE RequestsProofs ---------------------------
(***************************************************************************)
(* Proofs about Requests, for any number of requests.                      *)
(***************************************************************************)
EXTENDS RequestsInvariant, TLAPS

(* Where each kind of handler goes from each place.                        *)
LEMMA Routes ==
    ASSUME NEW k \in DOMAIN Handler
    PROVE  LET h == Handler[k] IN
           /\ k \in TxKinds \union PlainKinds \union {"getData"}
           /\ h["idle"] = IF k = "initialSetup" THEN "begin" ELSE "lookup"
           /\ k # "initialSetup" => h["lookup"] =
                  IF k = "getData" THEN "done"
                  ELSE IF k \in PlainKinds THEN "first" ELSE "begin"
           /\ k \in TxKinds => h["begin"] = "first"
           /\ k \in {"initialSetup", "postKeyRotation"} => h["first"] = "second"
           /\ k \in {"deleteData", "deleteMachine"} => h["first"] = "commit"
           /\ k = "addData" => h["first"] = "files" /\ h["files"] = "second"
                               /\ h["second"] = "encode" /\ h["encode"] = "commit"
           /\ k \in PlainKinds => h["first"] = "done"
           /\ k \in {"initialSetup", "postKeyRotation"} => h["second"] = "commit"
           /\ h["error"] = IF k = "deleteMachine" THEN "left"
                        ELSE IF k \in TxKinds THEN "rollback" ELSE "done"
  <1> USE DEF TxKinds, PlainKinds, Handler
  <1>1. k \in {"initialSetup", "addData", "deleteData", "postKeyRotation",
               "deleteMachine", "deleteKeyRotation", "updateMachineKey",
               "createMachine", "getData"}
    OBVIOUS
  <1>2. CASE k = "initialSetup"      BY <1>2 DEF InitialSetup
  <1>3. CASE k = "addData"           BY <1>3 DEF AddData
  <1>4. CASE k = "deleteData"        BY <1>4 DEF DeleteData
  <1>5. CASE k = "postKeyRotation"   BY <1>5 DEF PostKeyRotation
  <1>6. CASE k = "deleteMachine"     BY <1>6 DEF DeleteMachine
  <1>7. CASE k = "deleteKeyRotation" BY <1>7 DEF DeleteKeyRotation
  <1>8. CASE k = "updateMachineKey"
    BY <1>8 DEF UpdateMachineKey, DeleteKeyRotation
  <1>9. CASE k = "createMachine"
    BY <1>9 DEF CreateMachine, DeleteKeyRotation
  <1>10. CASE k = "getData"          BY <1>10 DEF GetData
  <1> QED
    BY <1>1, <1>2, <1>3, <1>4, <1>5, <1>6, <1>7, <1>8, <1>9, <1>10

(* The writes each kind of handler makes.                                  *)
LEMMA WritePlacesOf ==
    ASSUME NEW k \in DOMAIN Handler
    PROVE  WritePlaces \intersect DOMAIN Handler[k] =
               IF k \in TwoWrites THEN {"first", "second"}
               ELSE IF k = "getData" THEN {} ELSE {"first"}
  <1> USE DEF TwoWrites, Handler, WritePlaces
  <1>1. k \in {"initialSetup", "addData", "deleteData", "postKeyRotation",
               "deleteMachine", "deleteKeyRotation", "updateMachineKey",
               "createMachine", "getData"}
    OBVIOUS
  <1>2. CASE k = "initialSetup"      BY <1>2 DEF InitialSetup
  <1>3. CASE k = "addData"           BY <1>3 DEF AddData
  <1>4. CASE k = "deleteData"        BY <1>4 DEF DeleteData
  <1>5. CASE k = "postKeyRotation"   BY <1>5 DEF PostKeyRotation
  <1>6. CASE k = "deleteMachine"     BY <1>6 DEF DeleteMachine
  <1>7. CASE k = "deleteKeyRotation" BY <1>7 DEF DeleteKeyRotation
  <1>8. CASE k = "updateMachineKey"
    BY <1>8 DEF UpdateMachineKey, DeleteKeyRotation
  <1>9. CASE k = "createMachine"
    BY <1>9 DEF CreateMachine, DeleteKeyRotation
  <1>10. CASE k = "getData"          BY <1>10 DEF GetData
  <1> QED
    BY <1>1, <1>2, <1>3, <1>4, <1>5, <1>6, <1>7, <1>8, <1>9, <1>10

-----------------------------------------------------------------------------
(* In the first states no handler has begun.                               *)
LEMMA LeakStart == Init => LeakInv
  BY RequestsAssumption
     DEF Init, LeakInv, TypeOK, OwnPlace, TxHasOwner, Places, Codes

(* One step, whether or not requests overlap.                              *)
LEMMA LeakStep == LeakInv /\ [Next]_vars => LeakInv'
  <1> SUFFICES ASSUME LeakInv, [Next]_vars PROVE LeakInv'
    OBVIOUS
  <1> USE RequestsAssumption
      DEF LeakInv, TypeOK, OwnPlace, TxHasOwner, InTx, Places, Codes, Statement,
          WritePlaces, InFlight, TxKinds, TwoWrites, PlainKinds, TxPlaces,
          vars, hvars, dvars
  <1>1. ASSUME NEW r \in Requests, Arrive(r) PROVE LeakInv'
    BY <1>1, Routes DEF Arrive, GoesOn, Goes
  <1>2. ASSUME NEW r \in Requests, Send(r) PROVE LeakInv'
    BY <1>2, Routes DEF Send
  <1>3. ASSUME NEW r \in Requests, Lookup(r) PROVE LeakInv'
    BY <1>3, Routes DEF Lookup, AfterLookup, GoesOn, Fails, Goes, Answered, Refused
  <1>4. ASSUME NEW r \in Requests, Begin(r) PROVE LeakInv'
    BY <1>4, Routes DEF Begin, GoesOn, Goes, Answered
  <1>5. ASSUME NEW r \in Requests, BeginFails(r) PROVE LeakInv'
    BY <1>5, Routes DEF BeginFails, Breaks, OnTheWire, Fails, Goes, Refused
  <1>6. ASSUME NEW r \in Requests, Write(r) PROVE LeakInv'
    BY <1>6, Routes DEF Write, GoesOn, Goes, Answered
  <1>7. ASSUME NEW r \in Requests, WriteFails(r) PROVE LeakInv'
    BY <1>7, Routes DEF WriteFails, AfterError, Fails, Goes, Answered, Refused
  <1>8. ASSUME NEW r \in Requests, ReadFiles(r) PROVE LeakInv'
    BY <1>8, Routes DEF ReadFiles, GoesOn, Fails, Goes
  <1>9. ASSUME NEW r \in Requests, Encode(r) PROVE LeakInv'
    BY <1>9, Routes DEF Encode, Goes
  <1>10. ASSUME NEW r \in Requests, Commit(r) PROVE LeakInv'
    BY <1>10, Routes DEF Commit, Returns, Goes, Answered
  <1>11. ASSUME NEW r \in Requests, CommitFails(r) PROVE LeakInv'
    BY <1>11, Routes
       DEF CommitFails, Returns, Breaks, OnTheWire, Goes, Answered, Refused
  <1>12. ASSUME NEW r \in Requests, Rollback(r) PROVE LeakInv'
    BY <1>12, Routes DEF Rollback, Breaks, OnTheWire, Goes, Answered, Refused
  <1>13. ASSUME ConnectionLost PROVE LeakInv'
    BY <1>13 DEF ConnectionLost, Breaks, OnTheWire
  <1>14. ASSUME Restart PROVE LeakInv'
    BY <1>14 DEF Restart, OnTheWire
  <1>15. CASE UNCHANGED vars
    BY <1>15
  <1> QED
    BY <1>1, <1>2, <1>3, <1>4, <1>5, <1>6, <1>7, <1>8, <1>9, <1>10, <1>11,
       <1>12, <1>13, <1>14, <1>15
       DEF Next, Step

(* However requests overlap, every variable keeps its type.                 *)
THEOREM TypeCorrect == Spec => []TypeOK
  <1>1. LeakInv => TypeOK
    BY DEF LeakInv
  <1> QED BY <1>1, LeakStart, LeakStep, PTL DEF Spec

(* However requests overlap, a transaction that is open when none is being  *)
(* handled is one that a removal left.                                      *)
THEOREM NoOtherLeak == Spec => []OnlyRemovalsLeak
  <1>1. LeakInv => OnlyRemovalsLeak
    BY DEF LeakInv, OnlyRemovalsLeak, TxHasOwner, InTx, TxPlaces, InFlight,
           Places
  <1> QED BY <1>1, LeakStart, LeakStep, PTL DEF Spec

-----------------------------------------------------------------------------
(* One request at a time.                                                   *)

(* What a request writes in all, by its kind.                              *)
LEMMA AllWrites ==
    ASSUME TypeOK, NEW r \in Requests
    PROVE  WritesOf(r) = IF kind[r] \in TwoWrites
                         THEN {<<r, "first">>, <<r, "second">>}
                         ELSE IF kind[r] = "getData" THEN {} ELSE {<<r, "first">>}
  BY WritePlacesOf, RequestsAssumption DEF WritesOf, TypeOK

(* In the first states none has begun.                                     *)
LEMMA AloneStart == Init => AloneInv
  BY LeakStart, RequestsAssumption
     DEF AloneInv, Init, OneInFlight, DeadIsFree, TxIsOwn, TxIsNot, InTx,
         TxPlaces, PlainWithoutTx, FailedWasLeft, NoEarlyAnswer, InFlight,
         SuccessIsStored

(* One step, when requests do not overlap.                                  *)
LEMMA AloneStep == ~Overlapping /\ AloneInv /\ [Next]_vars => AloneInv'
  <1> SUFFICES ASSUME ~Overlapping, LeakInv, OneInFlight, DeadIsFree, TxIsOwn,
                      TxIsNot, PlainWithoutTx, FailedWasLeft, NoEarlyAnswer,
                      SuccessIsStored, [Next]_vars, LeakInv'
               PROVE  AloneInv'
    BY LeakStep DEF AloneInv
  <1> USE RequestsAssumption
      DEF LeakInv, TypeOK, OwnPlace, Places, Codes, Statement,
          WritePlaces, InFlight, TxKinds, TwoWrites, PlainKinds, TxPlaces,
          vars, hvars, dvars
  <1>0. ASSUME kind' = kind, NEW q \in Requests
        PROVE  WritesOf(q)' = WritesOf(q)
    BY <1>0 DEF WritesOf
  <1>1. ASSUME NEW r \in Requests, Arrive(r) PROVE AloneInv'
    <2>0. kind' = kind /\ \A q \in Requests : WritesOf(q)' = WritesOf(q)
      BY <1>1, <1>0 DEF Arrive
    <2>1. OneInFlight'
      BY <1>1, <2>0, Routes, AllWrites DEF Arrive, GoesOn, Goes, OneInFlight
    <2>2. DeadIsFree'
      BY <1>1, <2>0, Routes, AllWrites
         DEF Arrive, GoesOn, Goes, DeadIsFree, OneInFlight
    <2>3. TxIsOwn'
      BY <1>1, <2>0, Routes, AllWrites
         DEF Arrive, GoesOn, Goes, TxIsOwn, WrittenBy, FilesUnread,
             OneInFlight, TxIsNot, InTx, DeadIsFree, NoEarlyAnswer
    <2>4. TxIsNot'
      BY <1>1, <2>0, Routes, AllWrites
         DEF Arrive, GoesOn, Goes, TxIsNot, InTx, TxIsOwn, OneInFlight,
             DeadIsFree, PlainWithoutTx
    <2>5. PlainWithoutTx'
      BY <1>1, <2>0, Routes, AllWrites
         DEF Arrive, GoesOn, Goes, PlainWithoutTx, TxIsNot, InTx, OneInFlight
    <2>6. FailedWasLeft'
      BY <1>1, <2>0, Routes, AllWrites
         DEF Arrive, GoesOn, Goes, FailedWasLeft, TxIsOwn, DeadIsFree
    <2>7. NoEarlyAnswer'
      BY <1>1, <2>0, Routes, AllWrites DEF Arrive, GoesOn, Goes, NoEarlyAnswer
    <2>8. SuccessIsStored'
      BY <1>1, <2>0, Routes, AllWrites
         DEF Arrive, GoesOn, Goes, SuccessIsStored, TxIsOwn, WrittenBy,
             FilesUnread, NoEarlyAnswer, PlainWithoutTx, OneInFlight
    <2> QED BY <2>1, <2>2, <2>3, <2>4, <2>5, <2>6, <2>7, <2>8 DEF AloneInv
  <1>2. ASSUME NEW r \in Requests, Send(r) PROVE AloneInv'
    <2>0. kind' = kind /\ \A q \in Requests : WritesOf(q)' = WritesOf(q)
      BY <1>2, <1>0 DEF Send
    <2>1. OneInFlight'
      BY <1>2, <2>0, Routes, AllWrites DEF Send, OneInFlight
    <2>2. DeadIsFree'
      BY <1>2, <2>0, Routes, AllWrites DEF Send, DeadIsFree, OneInFlight
    <2>3. TxIsOwn'
      BY <1>2, <2>0, Routes, AllWrites
         DEF Send, TxIsOwn, WrittenBy, FilesUnread, OneInFlight, TxIsNot, InTx,
             DeadIsFree, NoEarlyAnswer
    <2>4. TxIsNot'
      BY <1>2, <2>0, Routes, AllWrites
         DEF Send, TxIsNot, InTx, TxIsOwn, OneInFlight, DeadIsFree,
             PlainWithoutTx
    <2>5. PlainWithoutTx'
      BY <1>2, <2>0, Routes, AllWrites
         DEF Send, PlainWithoutTx, TxIsNot, InTx, OneInFlight
    <2>6. FailedWasLeft'
      BY <1>2, <2>0, Routes, AllWrites
         DEF Send, FailedWasLeft, TxIsOwn, DeadIsFree
    <2>7. NoEarlyAnswer'
      BY <1>2, <2>0, Routes, AllWrites DEF Send, NoEarlyAnswer
    <2>8. SuccessIsStored'
      BY <1>2, <2>0, Routes, AllWrites
         DEF Send, SuccessIsStored, TxIsOwn, WrittenBy, FilesUnread,
             NoEarlyAnswer, PlainWithoutTx, OneInFlight
    <2> QED BY <2>1, <2>2, <2>3, <2>4, <2>5, <2>6, <2>7, <2>8 DEF AloneInv
  <1>3. ASSUME NEW r \in Requests, Lookup(r) PROVE AloneInv'
    <2>0. kind' = kind /\ \A q \in Requests : WritesOf(q)' = WritesOf(q)
      BY <1>3, <1>0 DEF Lookup
    <2>9. tx' = tx
      <3>1. \A q \in Requests : ~InTx(q)
        BY <1>3 DEF Lookup, OneInFlight, InTx
      <3> QED BY <1>3, <3>1 DEF Lookup, AfterLookup, TxIsNot
    <2>1. OneInFlight'
      BY <1>3, <2>0, Routes, AllWrites
         DEF Lookup, GoesOn, Fails, Goes, Answered, Refused, OneInFlight
    <2>2. DeadIsFree'
      BY <1>3, <2>0, Routes, AllWrites
         DEF Lookup, GoesOn, Fails, Goes, Answered, Refused, DeadIsFree,
             OneInFlight
    <2>3. TxIsOwn'
      BY <1>3, <2>0, Routes, AllWrites
         DEF Lookup, GoesOn, Fails, Goes, Answered, Refused, TxIsOwn,
             WrittenBy, FilesUnread, OneInFlight, TxIsNot, InTx, DeadIsFree,
             NoEarlyAnswer
    <2>4. TxIsNot'
      BY <1>3, <2>0, <2>9, Routes, AllWrites
         DEF Lookup, GoesOn, Fails, Goes, Answered, Refused, TxIsNot, InTx,
             TxIsOwn, OneInFlight, DeadIsFree, PlainWithoutTx
    <2>5. PlainWithoutTx'
      BY <1>3, <2>0, Routes, AllWrites
         DEF Lookup, GoesOn, Fails, Goes, Answered, Refused, PlainWithoutTx,
             TxIsNot, InTx, OneInFlight
    <2>6. FailedWasLeft'
      BY <1>3, <2>0, <2>9, Routes, AllWrites
         DEF Lookup, GoesOn, Fails, Goes, Answered, Refused, FailedWasLeft,
             TxIsOwn, DeadIsFree
    <2>7. NoEarlyAnswer'
      BY <1>3, <2>0, Routes, AllWrites
         DEF Lookup, GoesOn, Fails, Goes, Answered, Refused, NoEarlyAnswer
    <2>8. SuccessIsStored'
      BY <1>3, <2>0, Routes, AllWrites
         DEF Lookup, GoesOn, Fails, Goes, Answered, Refused, SuccessIsStored,
             TxIsOwn, WrittenBy, FilesUnread, NoEarlyAnswer, PlainWithoutTx,
             OneInFlight
    <2> QED BY <2>1, <2>2, <2>3, <2>4, <2>5, <2>6, <2>7, <2>8 DEF AloneInv
  <1>4. ASSUME NEW r \in Requests, Begin(r) PROVE AloneInv'
    <2>0. kind' = kind /\ \A q \in Requests : WritesOf(q)' = WritesOf(q)
      BY <1>4, <1>0 DEF Begin
    <2>1. OneInFlight'
      BY <1>4, <2>0, Routes, AllWrites
         DEF Begin, GoesOn, Goes, Answered, OneInFlight
    <2>2. DeadIsFree'
      BY <1>4, <2>0, Routes, AllWrites
         DEF Begin, GoesOn, Goes, Answered, DeadIsFree, OneInFlight
    <2>3. TxIsOwn'
      BY <1>4, <2>0, Routes, AllWrites
         DEF Begin, GoesOn, Goes, Answered, TxIsOwn, WrittenBy, FilesUnread,
             OneInFlight, TxIsNot, InTx, DeadIsFree, NoEarlyAnswer
    <2>4. TxIsNot'
      BY <1>4, <2>0, Routes, AllWrites
         DEF Begin, GoesOn, Goes, Answered, TxIsNot, InTx, TxIsOwn,
             OneInFlight, DeadIsFree, PlainWithoutTx
    <2>5. PlainWithoutTx'
      BY <1>4, <2>0, Routes, AllWrites
         DEF Begin, GoesOn, Goes, Answered, PlainWithoutTx, TxIsNot, InTx,
             OneInFlight
    <2>6. FailedWasLeft'
      BY <1>4, <2>0, Routes, AllWrites
         DEF Begin, GoesOn, Goes, Answered, FailedWasLeft, TxIsOwn, DeadIsFree
    <2>7. NoEarlyAnswer'
      BY <1>4, <2>0, Routes, AllWrites
         DEF Begin, GoesOn, Goes, Answered, NoEarlyAnswer
    <2>8. SuccessIsStored'
      BY <1>4, <2>0, Routes, AllWrites
         DEF Begin, GoesOn, Goes, Answered, SuccessIsStored, TxIsOwn,
             WrittenBy, FilesUnread, NoEarlyAnswer, PlainWithoutTx, OneInFlight
    <2> QED BY <2>1, <2>2, <2>3, <2>4, <2>5, <2>6, <2>7, <2>8 DEF AloneInv
  <1>5. ASSUME NEW r \in Requests, BeginFails(r) PROVE AloneInv'
    <2>0. kind' = kind /\ \A q \in Requests : WritesOf(q)' = WritesOf(q)
      BY <1>5, <1>0 DEF BeginFails
    <2>1. OneInFlight'
      BY <1>5, <2>0, Routes, AllWrites
         DEF BeginFails, Breaks, OnTheWire, Fails, Goes, Refused, OneInFlight
    <2>2. DeadIsFree'
      BY <1>5, <2>0, Routes, AllWrites
         DEF BeginFails, Breaks, OnTheWire, Fails, Goes, Refused, DeadIsFree,
             OneInFlight
    <2>3. TxIsOwn'
      BY <1>5, <2>0, Routes, AllWrites
         DEF BeginFails, Breaks, OnTheWire, Fails, Goes, Refused, TxIsOwn,
             WrittenBy, FilesUnread, OneInFlight, TxIsNot, InTx, DeadIsFree,
             NoEarlyAnswer
    <2>4. TxIsNot'
      BY <1>5, <2>0, Routes, AllWrites
         DEF BeginFails, Breaks, OnTheWire, Fails, Goes, Refused, TxIsNot,
             InTx, TxIsOwn, OneInFlight, DeadIsFree, PlainWithoutTx
    <2>5. PlainWithoutTx'
      BY <1>5, <2>0, Routes, AllWrites
         DEF BeginFails, Breaks, OnTheWire, Fails, Goes, Refused,
             PlainWithoutTx, TxIsNot, InTx, OneInFlight
    <2>6. FailedWasLeft'
      BY <1>5, <2>0, Routes, AllWrites
         DEF BeginFails, Breaks, OnTheWire, Fails, Goes, Refused,
             FailedWasLeft, TxIsOwn, DeadIsFree
    <2>7. NoEarlyAnswer'
      BY <1>5, <2>0, Routes, AllWrites
         DEF BeginFails, Breaks, OnTheWire, Fails, Goes, Refused, NoEarlyAnswer
    <2>8. SuccessIsStored'
      BY <1>5, <2>0, Routes, AllWrites
         DEF BeginFails, Breaks, OnTheWire, Fails, Goes, Refused,
             SuccessIsStored, TxIsOwn, WrittenBy, FilesUnread, NoEarlyAnswer,
             PlainWithoutTx, OneInFlight
    <2> QED BY <2>1, <2>2, <2>3, <2>4, <2>5, <2>6, <2>7, <2>8 DEF AloneInv
  <1>6. ASSUME NEW r \in Requests, Write(r) PROVE AloneInv'
    <2>0. kind' = kind /\ \A q \in Requests : WritesOf(q)' = WritesOf(q)
      BY <1>6, <1>0 DEF Write
    <2>1. OneInFlight'
      BY <1>6, <2>0, Routes, AllWrites
         DEF Write, GoesOn, Goes, Answered, OneInFlight
    <2>2. DeadIsFree'
      BY <1>6, <2>0, Routes, AllWrites
         DEF Write, GoesOn, Goes, Answered, DeadIsFree, OneInFlight
    <2>3. TxIsOwn'
      <3>1. conn = "up" /\ conn' = conn /\ at[r] \in WritePlaces
        BY <1>6 DEF Write, Answered, DeadIsFree
      <3>2. \A q \in Requests \ {r} : at'[q] = at[q] /\ at[q] \notin InFlight
        BY <1>6, <3>1 DEF Write, GoesOn, Goes, OneInFlight
      <3>3. at'[r] = Handler[kind[r]][at[r]]
        BY <1>6 DEF Write, GoesOn, Goes
      <3>4. ASSUME kind[r] \in TxKinds PROVE tx' = "open" /\ pending' = WrittenBy(r)'
        <4>1. tx = "open" /\ tx' = "open" /\ pending' = WrittenBy(r) \union {<<r, at[r]>>}
          BY <1>6, <3>1, <3>4 DEF Write, TxIsOwn
        <4>2. CASE at[r] = "first" /\ kind[r] \in TwoWrites
          <5>1. at'[r] \in {"files", "second"} /\ WrittenBy(r) = {}
            BY <3>3, <4>2, Routes DEF WrittenBy, FilesUnread
          <5> QED BY <2>0, <4>1, <4>2, <5>1 DEF WrittenBy
        <4>3. CASE at[r] = "first" /\ kind[r] \notin TwoWrites
          <5>1. at'[r] = "commit" /\ WrittenBy(r) = {} /\ WritesOf(r) = {<<r, "first">>}
            BY <3>3, <3>4, <4>3, Routes, AllWrites DEF WrittenBy, FilesUnread
          <5> QED BY <2>0, <3>4, <4>1, <4>3, <5>1 DEF WrittenBy, FilesUnread
        <4>4. CASE at[r] = "second"
          <5>1. /\ at'[r] = IF kind[r] = "addData" THEN "encode" ELSE "commit"
                /\ WrittenBy(r) = {<<r, "first">>}
                /\ WritesOf(r) = {<<r, "first">>, <<r, "second">>}
            BY <3>3, <4>4, Routes, AllWrites DEF WrittenBy
          <5> QED BY <2>0, <4>1, <4>4, <5>1 DEF WrittenBy, FilesUnread
        <4> QED BY <3>1, <4>2, <4>3, <4>4
      <3> QED BY <2>0, <3>1, <3>2, <3>4 DEF TxIsOwn
    <2>4. TxIsNot'
      BY <1>6, <2>0, Routes, AllWrites
         DEF Write, GoesOn, Goes, Answered, TxIsNot, InTx, TxIsOwn,
             OneInFlight, DeadIsFree, PlainWithoutTx
    <2>5. PlainWithoutTx'
      BY <1>6, <2>0, Routes, AllWrites
         DEF Write, GoesOn, Goes, Answered, PlainWithoutTx, TxIsNot, InTx,
             OneInFlight
    <2>6. FailedWasLeft'
      BY <1>6, <2>0, Routes, AllWrites
         DEF Write, GoesOn, Goes, Answered, FailedWasLeft, TxIsOwn, DeadIsFree
    <2>7. NoEarlyAnswer'
      BY <1>6, <2>0, Routes, AllWrites
         DEF Write, GoesOn, Goes, Answered, NoEarlyAnswer
    <2>8. SuccessIsStored'
      BY <1>6, <2>0, Routes, AllWrites
         DEF Write, GoesOn, Goes, Answered, SuccessIsStored, TxIsOwn,
             WrittenBy, FilesUnread, NoEarlyAnswer, PlainWithoutTx, OneInFlight
    <2> QED BY <2>1, <2>2, <2>3, <2>4, <2>5, <2>6, <2>7, <2>8 DEF AloneInv
  <1>7. ASSUME NEW r \in Requests, WriteFails(r) PROVE AloneInv'
    <2>0. kind' = kind /\ \A q \in Requests : WritesOf(q)' = WritesOf(q)
      BY <1>7, <1>0 DEF WriteFails
    <2>1. OneInFlight'
      BY <1>7, <2>0, Routes, AllWrites
         DEF WriteFails, AfterError, Fails, Goes, Answered, Refused,
             OneInFlight
    <2>2. DeadIsFree'
      BY <1>7, <2>0, Routes, AllWrites
         DEF WriteFails, AfterError, Fails, Goes, Answered, Refused,
             DeadIsFree, OneInFlight
    <2>3. TxIsOwn'
      BY <1>7, <2>0, Routes, AllWrites
         DEF WriteFails, AfterError, Fails, Goes, Answered, Refused, TxIsOwn,
             WrittenBy, FilesUnread, OneInFlight, TxIsNot, InTx, DeadIsFree,
             NoEarlyAnswer
    <2>4. TxIsNot'
      <3>1. at[r] \in WritePlaces /\ at'[r] = Handler[kind[r]]["error"]
        BY <1>7 DEF WriteFails, Fails, Goes
      <3>2. \A q \in Requests \ {r} : at'[q] = at[q] /\ at[q] \notin InFlight
        BY <1>7, <3>1 DEF WriteFails, Fails, Goes, OneInFlight
      <3>3. CASE kind[r] \in TxKinds \ {"deleteMachine"}
        BY <2>0, <3>1, <3>3, Routes DEF TxIsNot, InTx
      <3>4. CASE kind[r] = "deleteMachine"
        <4>1. at[r] = "first" /\ WrittenBy(r) = {}
          BY <3>1, <3>4 DEF WrittenBy, FilesUnread
        <4>2. CASE conn = "up"
          <5>1. tx = "open" /\ pending = {}
            BY <3>4, <4>1, <4>2 DEF TxIsOwn
          <5>2. busy = r
            BY <1>7, <4>1, <4>2 DEF WriteFails, Refused, Answered, OneInFlight
          <5> QED
            BY <1>7, <3>4, <5>1, <5>2
               DEF WriteFails, Refused, Answered, AfterError, TxIsNot
        <4>3. CASE conn = "dead"
          BY <1>7, <4>3 DEF WriteFails, Answered, AfterError, DeadIsFree, TxIsNot
        <4> QED BY <4>2, <4>3
      <3>5. CASE kind[r] \notin TxKinds
        <4>1. \A q \in Requests : ~InTx(q)
          BY <3>2, <3>5 DEF InTx
        <4>2. tx = "none" /\ pending = {} /\ tx' = tx /\ pending' = pending
          BY <1>7, <3>1, <3>5, <4>1, Routes
             DEF WriteFails, AfterError, TxIsNot, PlainWithoutTx
        <4> QED BY <4>2 DEF TxIsNot
      <3> QED BY <3>3, <3>4, <3>5
    <2>5. PlainWithoutTx'
      BY <1>7, <2>0, Routes, AllWrites
         DEF WriteFails, AfterError, Fails, Goes, Answered, Refused,
             PlainWithoutTx, TxIsNot, InTx, OneInFlight
    <2>6. FailedWasLeft'
      BY <1>7, <2>0, Routes, AllWrites
         DEF WriteFails, AfterError, Fails, Goes, Answered, Refused,
             FailedWasLeft, PlainWithoutTx, DeadIsFree
    <2>7. NoEarlyAnswer'
      BY <1>7, <2>0, Routes, AllWrites
         DEF WriteFails, AfterError, Fails, Goes, Answered, Refused,
             NoEarlyAnswer
    <2>8. SuccessIsStored'
      BY <1>7, <2>0, Routes, AllWrites
         DEF WriteFails, AfterError, Fails, Goes, Answered, Refused,
             SuccessIsStored, TxIsOwn, WrittenBy, FilesUnread, NoEarlyAnswer,
             PlainWithoutTx, OneInFlight
    <2> QED BY <2>1, <2>2, <2>3, <2>4, <2>5, <2>6, <2>7, <2>8 DEF AloneInv
  <1>8. ASSUME NEW r \in Requests, ReadFiles(r) PROVE AloneInv'
    <2>0. kind' = kind /\ \A q \in Requests : WritesOf(q)' = WritesOf(q)
      BY <1>8, <1>0 DEF ReadFiles
    <2>1. OneInFlight'
      BY <1>8, <2>0, Routes, AllWrites
         DEF ReadFiles, GoesOn, Fails, Goes, OneInFlight
    <2>2. DeadIsFree'
      BY <1>8, <2>0, Routes, AllWrites
         DEF ReadFiles, GoesOn, Fails, Goes, DeadIsFree, OneInFlight
    <2>3. TxIsOwn'
      BY <1>8, <2>0, Routes, AllWrites
         DEF ReadFiles, GoesOn, Fails, Goes, TxIsOwn, WrittenBy, FilesUnread,
             OneInFlight, TxIsNot, InTx, DeadIsFree, NoEarlyAnswer
    <2>4. TxIsNot'
      BY <1>8, <2>0, Routes, AllWrites
         DEF ReadFiles, GoesOn, Fails, Goes, TxIsNot, InTx, TxIsOwn,
             OneInFlight, DeadIsFree, PlainWithoutTx
    <2>5. PlainWithoutTx'
      BY <1>8, <2>0, Routes, AllWrites
         DEF ReadFiles, GoesOn, Fails, Goes, PlainWithoutTx, TxIsNot, InTx,
             OneInFlight
    <2>6. FailedWasLeft'
      BY <1>8, <2>0, Routes, AllWrites
         DEF ReadFiles, GoesOn, Fails, Goes, FailedWasLeft, TxIsOwn, DeadIsFree
    <2>7. NoEarlyAnswer'
      BY <1>8, <2>0, Routes, AllWrites
         DEF ReadFiles, GoesOn, Fails, Goes, NoEarlyAnswer
    <2>8. SuccessIsStored'
      BY <1>8, <2>0, Routes, AllWrites
         DEF ReadFiles, GoesOn, Fails, Goes, SuccessIsStored, TxIsOwn,
             WrittenBy, FilesUnread, NoEarlyAnswer, PlainWithoutTx, OneInFlight
    <2> QED BY <2>1, <2>2, <2>3, <2>4, <2>5, <2>6, <2>7, <2>8 DEF AloneInv
  <1>9. ASSUME NEW r \in Requests, Encode(r) PROVE AloneInv'
    <2>0. kind' = kind /\ \A q \in Requests : WritesOf(q)' = WritesOf(q)
      BY <1>9, <1>0 DEF Encode
    <2>1. OneInFlight'
      BY <1>9, <2>0, Routes, AllWrites DEF Encode, Goes, OneInFlight
    <2>2. DeadIsFree'
      BY <1>9, <2>0, Routes, AllWrites DEF Encode, Goes, DeadIsFree, OneInFlight
    <2>3. TxIsOwn'
      BY <1>9, <2>0, Routes, AllWrites
         DEF Encode, Goes, TxIsOwn, WrittenBy, FilesUnread, OneInFlight,
             TxIsNot, InTx, DeadIsFree, NoEarlyAnswer
    <2>4. TxIsNot'
      BY <1>9, <2>0, Routes, AllWrites
         DEF Encode, Goes, TxIsNot, InTx, TxIsOwn, OneInFlight, DeadIsFree,
             PlainWithoutTx
    <2>5. PlainWithoutTx'
      BY <1>9, <2>0, Routes, AllWrites
         DEF Encode, Goes, PlainWithoutTx, TxIsNot, InTx, OneInFlight
    <2>6. FailedWasLeft'
      BY <1>9, <2>0, Routes, AllWrites
         DEF Encode, Goes, FailedWasLeft, TxIsOwn, DeadIsFree
    <2>7. NoEarlyAnswer'
      BY <1>9, <2>0, Routes, AllWrites DEF Encode, Goes, NoEarlyAnswer
    <2>8. SuccessIsStored'
      BY <1>9, <2>0, Routes, AllWrites
         DEF Encode, Goes, SuccessIsStored, TxIsOwn, WrittenBy, FilesUnread,
             NoEarlyAnswer, PlainWithoutTx, OneInFlight
    <2> QED BY <2>1, <2>2, <2>3, <2>4, <2>5, <2>6, <2>7, <2>8 DEF AloneInv
  <1>10. ASSUME NEW r \in Requests, Commit(r) PROVE AloneInv'
    <2>0. kind' = kind /\ \A q \in Requests : WritesOf(q)' = WritesOf(q)
      BY <1>10, <1>0 DEF Commit
    <2>1. OneInFlight'
      BY <1>10, <2>0, Routes, AllWrites
         DEF Commit, Returns, Goes, Answered, OneInFlight
    <2>2. DeadIsFree'
      BY <1>10, <2>0, Routes, AllWrites
         DEF Commit, Returns, Goes, Answered, DeadIsFree, OneInFlight
    <2>3. TxIsOwn'
      BY <1>10, <2>0, Routes, AllWrites
         DEF Commit, Returns, Goes, Answered, TxIsOwn, WrittenBy, FilesUnread,
             OneInFlight, TxIsNot, InTx, DeadIsFree, NoEarlyAnswer
    <2>4. TxIsNot'
      BY <1>10, <2>0, Routes, AllWrites
         DEF Commit, Returns, Goes, Answered, TxIsNot, InTx, TxIsOwn,
             OneInFlight, DeadIsFree, PlainWithoutTx
    <2>5. PlainWithoutTx'
      BY <1>10, <2>0, Routes, AllWrites
         DEF Commit, Returns, Goes, Answered, PlainWithoutTx, TxIsNot, InTx,
             OneInFlight
    <2>6. FailedWasLeft'
      BY <1>10, <2>0, Routes, AllWrites
         DEF Commit, Returns, Goes, Answered, FailedWasLeft, TxIsOwn,
             DeadIsFree
    <2>7. NoEarlyAnswer'
      BY <1>10, <2>0, Routes, AllWrites
         DEF Commit, Returns, Goes, Answered, NoEarlyAnswer
    <2>8. SuccessIsStored'
      BY <1>10, <2>0, Routes, AllWrites
         DEF Commit, Returns, Goes, Answered, DeadIsFree, SuccessIsStored,
             TxIsOwn, WrittenBy, FilesUnread, NoEarlyAnswer, PlainWithoutTx,
             OneInFlight
    <2> QED BY <2>1, <2>2, <2>3, <2>4, <2>5, <2>6, <2>7, <2>8 DEF AloneInv
  <1>11. ASSUME NEW r \in Requests, CommitFails(r) PROVE AloneInv'
    <2>0. kind' = kind /\ \A q \in Requests : WritesOf(q)' = WritesOf(q)
      BY <1>11, <1>0 DEF CommitFails
    <2>1. OneInFlight'
      BY <1>11, <2>0, Routes, AllWrites
         DEF CommitFails, Returns, Breaks, OnTheWire, Goes, Answered, Refused,
             OneInFlight
    <2>2. DeadIsFree'
      BY <1>11, <2>0, Routes, AllWrites
         DEF CommitFails, Returns, Breaks, OnTheWire, Goes, Answered, Refused,
             DeadIsFree, OneInFlight
    <2>3. TxIsOwn'
      BY <1>11, <2>0, Routes, AllWrites
         DEF CommitFails, Returns, Breaks, OnTheWire, Goes, Answered, Refused,
             TxIsOwn, WrittenBy, FilesUnread, OneInFlight, TxIsNot, InTx,
             DeadIsFree, NoEarlyAnswer
    <2>4. TxIsNot'
      BY <1>11, <2>0, Routes, AllWrites
         DEF CommitFails, Returns, Breaks, OnTheWire, Goes, Answered, Refused,
             TxIsNot, InTx, TxIsOwn, OneInFlight, DeadIsFree, PlainWithoutTx
    <2>5. PlainWithoutTx'
      BY <1>11, <2>0, Routes, AllWrites
         DEF CommitFails, Returns, Breaks, OnTheWire, Goes, Answered, Refused,
             PlainWithoutTx, TxIsNot, InTx, OneInFlight
    <2>6. FailedWasLeft'
      BY <1>11, <2>0, Routes, AllWrites
         DEF CommitFails, Returns, Breaks, OnTheWire, Goes, Answered, Refused,
             FailedWasLeft, TxIsOwn, DeadIsFree
    <2>7. NoEarlyAnswer'
      BY <1>11, <2>0, Routes, AllWrites
         DEF CommitFails, Returns, Breaks, OnTheWire, Goes, Answered, Refused,
             NoEarlyAnswer
    <2>8. SuccessIsStored'
      BY <1>11, <2>0, Routes, AllWrites
         DEF CommitFails, Returns, Breaks, OnTheWire, Goes, Answered, Refused,
             SuccessIsStored, TxIsOwn, WrittenBy, FilesUnread, NoEarlyAnswer,
             PlainWithoutTx, OneInFlight
    <2> QED BY <2>1, <2>2, <2>3, <2>4, <2>5, <2>6, <2>7, <2>8 DEF AloneInv
  <1>12. ASSUME NEW r \in Requests, Rollback(r) PROVE AloneInv'
    <2>0. kind' = kind /\ \A q \in Requests : WritesOf(q)' = WritesOf(q)
      BY <1>12, <1>0 DEF Rollback
    <2>1. OneInFlight'
      BY <1>12, <2>0, Routes, AllWrites
         DEF Rollback, Breaks, OnTheWire, Goes, Answered, Refused, OneInFlight
    <2>2. DeadIsFree'
      BY <1>12, <2>0, Routes, AllWrites
         DEF Rollback, Breaks, OnTheWire, Goes, Answered, Refused, DeadIsFree,
             OneInFlight
    <2>3. TxIsOwn'
      BY <1>12, <2>0, Routes, AllWrites
         DEF Rollback, Breaks, OnTheWire, Goes, Answered, Refused, TxIsOwn,
             WrittenBy, FilesUnread, OneInFlight, TxIsNot, InTx, DeadIsFree,
             NoEarlyAnswer
    <2>4. TxIsNot'
      BY <1>12, <2>0, Routes, AllWrites
         DEF Rollback, Breaks, OnTheWire, Goes, Answered, Refused, TxIsNot,
             InTx, TxIsOwn, OneInFlight, DeadIsFree, PlainWithoutTx
    <2>5. PlainWithoutTx'
      BY <1>12, <2>0, Routes, AllWrites
         DEF Rollback, Breaks, OnTheWire, Goes, Answered, Refused,
             PlainWithoutTx, TxIsNot, InTx, OneInFlight
    <2>6. FailedWasLeft'
      BY <1>12, <2>0, Routes, AllWrites
         DEF Rollback, Breaks, OnTheWire, Goes, Answered, Refused,
             FailedWasLeft, TxIsOwn, DeadIsFree
    <2>7. NoEarlyAnswer'
      BY <1>12, <2>0, Routes, AllWrites
         DEF Rollback, Breaks, OnTheWire, Goes, Answered, Refused,
             NoEarlyAnswer
    <2>8. SuccessIsStored'
      BY <1>12, <2>0, Routes, AllWrites
         DEF Rollback, Breaks, OnTheWire, Goes, Answered, Refused,
             SuccessIsStored, TxIsOwn, WrittenBy, FilesUnread, NoEarlyAnswer,
             PlainWithoutTx, OneInFlight
    <2> QED BY <2>1, <2>2, <2>3, <2>4, <2>5, <2>6, <2>7, <2>8 DEF AloneInv
  <1>13. ASSUME ConnectionLost PROVE AloneInv'
    <2>0. kind' = kind /\ \A q \in Requests : WritesOf(q)' = WritesOf(q)
      BY <1>13, <1>0 DEF ConnectionLost
    <2>1. OneInFlight'
      BY <1>13, <2>0, AllWrites DEF ConnectionLost, Breaks, OnTheWire, OneInFlight
    <2>2. DeadIsFree'
      BY <1>13, <2>0, AllWrites
         DEF ConnectionLost, Breaks, OnTheWire, DeadIsFree, OneInFlight
    <2>3. TxIsOwn'
      BY <1>13, <2>0, AllWrites
         DEF ConnectionLost, Breaks, OnTheWire, TxIsOwn, WrittenBy,
             FilesUnread, OneInFlight, TxIsNot, InTx, DeadIsFree, NoEarlyAnswer
    <2>4. TxIsNot'
      BY <1>13, <2>0, AllWrites
         DEF ConnectionLost, Breaks, OnTheWire, TxIsNot, InTx, TxIsOwn,
             OneInFlight, DeadIsFree, PlainWithoutTx
    <2>5. PlainWithoutTx'
      BY <1>13, <2>0, AllWrites
         DEF ConnectionLost, Breaks, OnTheWire, PlainWithoutTx, TxIsNot, InTx,
             OneInFlight
    <2>6. FailedWasLeft'
      BY <1>13, <2>0, AllWrites
         DEF ConnectionLost, Breaks, OnTheWire, FailedWasLeft, TxIsOwn,
             DeadIsFree
    <2>7. NoEarlyAnswer'
      BY <1>13, <2>0, AllWrites
         DEF ConnectionLost, Breaks, OnTheWire, NoEarlyAnswer
    <2>8. SuccessIsStored'
      BY <1>13, <2>0, AllWrites
         DEF ConnectionLost, Breaks, OnTheWire, SuccessIsStored, TxIsOwn,
             WrittenBy, FilesUnread, NoEarlyAnswer, PlainWithoutTx, OneInFlight
    <2> QED BY <2>1, <2>2, <2>3, <2>4, <2>5, <2>6, <2>7, <2>8 DEF AloneInv
  <1>14. ASSUME Restart PROVE AloneInv'
    <2>0. kind' = kind /\ \A q \in Requests : WritesOf(q)' = WritesOf(q)
      BY <1>14, <1>0 DEF Restart
    <2>1. OneInFlight'
      BY <1>14, <2>0, AllWrites DEF Restart, OnTheWire, OneInFlight
    <2>2. DeadIsFree'
      BY <1>14, <2>0, AllWrites DEF Restart, OnTheWire, DeadIsFree, OneInFlight
    <2>3. TxIsOwn'
      BY <1>14, <2>0, AllWrites
         DEF Restart, OnTheWire, TxIsOwn, WrittenBy, FilesUnread, OneInFlight,
             TxIsNot, InTx, DeadIsFree, NoEarlyAnswer
    <2>4. TxIsNot'
      BY <1>14, <2>0, AllWrites
         DEF Restart, OnTheWire, TxIsNot, InTx, TxIsOwn, OneInFlight,
             DeadIsFree, PlainWithoutTx
    <2>5. PlainWithoutTx'
      BY <1>14, <2>0, AllWrites
         DEF Restart, OnTheWire, PlainWithoutTx, TxIsNot, InTx, OneInFlight
    <2>6. FailedWasLeft'
      BY <1>14, <2>0, AllWrites
         DEF Restart, OnTheWire, FailedWasLeft, TxIsOwn, DeadIsFree
    <2>7. NoEarlyAnswer'
      BY <1>14, <2>0, AllWrites DEF Restart, OnTheWire, NoEarlyAnswer
    <2>8. SuccessIsStored'
      BY <1>14, <2>0, AllWrites
         DEF Restart, OnTheWire, SuccessIsStored, TxIsOwn, WrittenBy,
             FilesUnread, NoEarlyAnswer, PlainWithoutTx, OneInFlight
    <2> QED BY <2>1, <2>2, <2>3, <2>4, <2>5, <2>6, <2>7, <2>8 DEF AloneInv
  <1>15. CASE UNCHANGED vars
    BY <1>15, <1>0 DEF AloneInv, OneInFlight, DeadIsFree, TxIsOwn, WrittenBy,
       FilesUnread, TxIsNot, InTx, PlainWithoutTx, FailedWasLeft,
       NoEarlyAnswer, SuccessIsStored
  <1> QED
    BY <1>1, <1>2, <1>3, <1>4, <1>5, <1>6, <1>7, <1>8, <1>9, <1>10, <1>11,
       <1>12, <1>13, <1>14, <1>15
       DEF Next, Step

(* What holds in every state when requests do not overlap.                  *)
THEOREM AloneInvariant == ~Overlapping => (Spec => []AloneInv)
  <1> SUFFICES ASSUME ~Overlapping PROVE Spec => []AloneInv
    OBVIOUS
  <1>1. Init => AloneInv
    BY AloneStart
  <1>2. AloneInv /\ [Next]_vars => AloneInv'
    BY AloneStep
  <1> QED BY <1>1, <1>2, PTL DEF Spec

(* A request that does not meet another and is answered with success is     *)
(* stored, uploads excepted.                                                *)
THEOREM SuccessMeansStored == ~Overlapping => (Spec => []SuccessIsStored)
  <1>1. AloneInv => SuccessIsStored
    BY DEF AloneInv
  <1> QED BY <1>1, AloneInvariant, PTL

-----------------------------------------------------------------------------
(* What may be on the wire when the connection breaks.                      *)
LEMMA WireIsWhole ==
    ASSUME AloneInv, OnTheWire # {}
    PROVE  /\ busy \in Requests
           /\ OnTheWire = IF FilesUnread(busy) THEN {<<busy, "first">>}
                          ELSE WritesOf(busy)
  <1> USE RequestsAssumption DEF AloneInv, LeakInv, TypeOK
  <1>1. busy \in Requests /\ conn = "up"
    BY DEF OnTheWire, DeadIsFree
  <1>2. CASE at[busy] = "commit"
    <2>1. OnTheWire = pending /\ pending = WrittenBy(busy)
      BY <1>1, <1>2 DEF OnTheWire, TxIsOwn, OwnPlace, TxPlaces
    <2> QED BY <1>1, <1>2, <2>1 DEF WrittenBy
  <1>3. CASE at[busy] # "commit"
    <2>1. /\ at[busy] \in WritePlaces /\ tx = "none"
          /\ OnTheWire = {<<busy, at[busy]>>}
      BY <1>1, <1>3 DEF OnTheWire
    <2>2. kind[busy] \notin TxKinds
      BY <1>1, <2>1 DEF TxIsOwn, WritePlaces, TxPlaces
    <2>3. at[busy] = "first" /\ kind[busy] # "getData" /\ kind[busy] \notin TwoWrites
      BY <1>1, <2>1, <2>2 DEF OwnPlace, WritePlaces, TwoWrites, TxKinds
    <2> QED BY <1>1, <1>3, <2>1, <2>3, AllWrites DEF FilesUnread
  <1> QED BY <1>2, <1>3

(* One step, when requests do not overlap, stores one request or nothing.   *)
LEMMA AtomicStep ==
    ASSUME AloneInv, [Next]_vars, stored' # stored
    PROVE  \E r \in Requests :
               stored' = stored \union
                   (IF FilesUnread(r) THEN {<<r, "first">>} ELSE WritesOf(r))
  <1> USE RequestsAssumption DEF AloneInv, LeakInv, TypeOK
  <1>1. ASSUME stored' = stored \union OnTheWire
        PROVE  \E r \in Requests :
                   stored' = stored \union
                       (IF FilesUnread(r) THEN {<<r, "first">>} ELSE WritesOf(r))
    BY <1>1, WireIsWhole
  <1>2. ASSUME NEW r \in Requests, Write(r)
        PROVE  stored' = stored \union WritesOf(r) /\ ~FilesUnread(r)
    <2>1. /\ at[r] \in WritePlaces /\ tx # "open" /\ conn = "up"
          /\ stored' = stored \union {<<r, at[r]>>}
      BY <1>2 DEF Write, Answered, DeadIsFree
    <2>2. kind[r] \notin TxKinds
      BY <2>1 DEF TxIsOwn, WritePlaces, TxPlaces
    <2>3. at[r] = "first" /\ kind[r] # "getData" /\ kind[r] \notin TwoWrites
      BY <2>1, <2>2 DEF OwnPlace, WritePlaces, TwoWrites, TxKinds
    <2> QED BY <2>1, <2>3, AllWrites DEF FilesUnread
  <1>3. ASSUME NEW r \in Requests, Commit(r)
        PROVE  stored' = stored \union
                   (IF FilesUnread(r) THEN {<<r, "first">>} ELSE WritesOf(r))
    <2>1. at[r] = "commit" /\ conn = "up" /\ stored' = stored \union pending
      BY <1>3 DEF Commit, Answered, DeadIsFree
    <2>2. pending = WrittenBy(r)
      BY <2>1 DEF TxIsOwn, OwnPlace, TxPlaces
    <2> QED BY <2>1, <2>2 DEF WrittenBy
  <1>4. ASSUME NEW r \in Requests, BeginFails(r) \/ CommitFails(r) \/ Rollback(r)
        PROVE  stored' = stored \union OnTheWire
    BY <1>4 DEF BeginFails, CommitFails, Rollback, Breaks, dvars
  <1>5. ASSUME ConnectionLost \/ Restart
        PROVE  stored' = stored \union OnTheWire
    BY <1>5 DEF ConnectionLost, Restart, Breaks
  <1>6. ASSUME NEW r \in Requests,
               \/ Arrive(r) \/ Send(r) \/ Lookup(r) \/ Begin(r)
               \/ WriteFails(r) \/ ReadFiles(r) \/ Encode(r)
        PROVE  FALSE
    BY <1>6 DEF Arrive, Send, Lookup, Begin, WriteFails, ReadFiles, Encode, dvars
  <1>7. CASE UNCHANGED vars
    BY <1>7 DEF vars, dvars
  <1> QED
    BY <1>1, <1>2, <1>3, <1>4, <1>5, <1>6, <1>7 DEF Next, Step

(* Requests that do not overlap take effect at once and entirely, uploads   *)
(* with unreadable files excepted.                                          *)
THEOREM EffectIsAtomic == ~Overlapping => (Spec => AtomicEffect)
  <1>1. AloneInv /\ [Next]_vars =>
            [stored' # stored =>
                \E r \in Requests :
                   stored' = stored \union
                       (IF FilesUnread(r) THEN {<<r, "first">>} ELSE WritesOf(r))]_vars
    BY AtomicStep
  <1> QED BY <1>1, AloneInvariant, PTL DEF Spec, AtomicEffect

-----------------------------------------------------------------------------
(* One step, when requests do not overlap, closes the connection only if it *)
(* is lost or a removal was left.                                           *)
LEMMA BreakStep ==
    ASSUME AloneInv, [Next]_vars, conn = "up", conn' = "dead"
    PROVE  ConnectionLost \/ \E r \in Requests : at[r] = "left"
  <1> USE RequestsAssumption DEF AloneInv, LeakInv, TypeOK
  <1>1. ASSUME NEW r \in Requests, at[r] \in InFlight PROVE ~Refused(r)
    BY <1>1 DEF Refused, OneInFlight, Statement, WritePlaces, InFlight, Places
  <1>2. ASSUME NEW r \in Requests, BeginFails(r)
        PROVE  \E q \in Requests : at[q] = "left"
    <2>1. tx = "failed"
      BY <1>1, <1>2 DEF BeginFails, InFlight, Places
    <2>2. PICK q \in Requests : at[q] \in {"rollback", "left"}
      BY <2>1 DEF FailedWasLeft
    <2> QED BY <1>2, <2>2 DEF BeginFails, OneInFlight, InFlight, Places
  <1>3. ASSUME NEW r \in Requests, CommitFails(r) \/ Rollback(r) PROVE FALSE
    BY <1>1, <1>3 DEF CommitFails, Rollback, Answered, InFlight, Places
  <1>4. ASSUME NEW r \in Requests,
               \/ Arrive(r) \/ Send(r) \/ Lookup(r) \/ Begin(r) \/ Write(r)
               \/ WriteFails(r) \/ ReadFiles(r) \/ Encode(r) \/ Commit(r)
        PROVE  FALSE
    BY <1>4
       DEF Arrive, Send, Lookup, Begin, Write, WriteFails, ReadFiles, Encode,
           Commit, Answered, dvars
  <1>5. ASSUME Restart PROVE FALSE
    BY <1>5 DEF Restart
  <1>6. CASE UNCHANGED vars
    BY <1>6 DEF vars, dvars
  <1> QED BY <1>2, <1>3, <1>4, <1>5, <1>6 DEF Next, Step

(* Requests that do not overlap never cost the server its connection,       *)
(* unless a removal has failed.                                             *)
THEOREM OnlyLeaksClose == ~Overlapping => (Spec => OnlyLeaksBreak)
  <1>1. AloneInv /\ [Next]_vars =>
            [conn = "up" /\ conn' = "dead" =>
                ConnectionLost \/ \E r \in Requests : at[r] = "left"]_vars
    BY BreakStep
  <1> QED BY <1>1, AloneInvariant, PTL DEF Spec, OnlyLeaksBreak

-----------------------------------------------------------------------------
(* The way a handler has to go shortens with every place of its route.      *)
LEMMA DistanceFalls ==
    ASSUME LeakInv, NEW r \in Requests
    PROVE  LET h == Handler[kind[r]] IN
           /\ \A p \in Places : Distance[p] \in 0..8
           /\ Distance[h["error"]] < 2
           /\ at[r] \in {"lookup", "begin", "first", "second", "files", "encode"} =>
                 Distance[h[at[r]]] < Distance[at[r]]
  <1>1. \A p \in Places : Distance[p] \in 0..8
    BY DEF Places, Distance
  <1> QED
    BY <1>1, Routes, RequestsAssumption
       DEF LeakInv, TypeOK, OwnPlace, Distance, Places, TxKinds, PlainKinds,
           TwoWrites

(* What is left of a request's way, as a number.                           *)
LEMMA LeftIs ==
    ASSUME TypeOK, NEW r \in Requests
    PROVE  /\ Distance[at[r]] \in Nat
           /\ Left(r) \in {2 * Distance[at[r]], 2 * Distance[at[r]] + 1}
           /\ at[r] \in Statement /\ conn = "up" /\ busy # r =>
                 Left(r) = 2 * Distance[at[r]] + 1
           /\ busy = r \/ conn = "dead" => Left(r) = 2 * Distance[at[r]]
           /\ at[r] \notin InFlight => Left(r) = 0
  <1>1. at[r] \in Places /\ conn \in {"up", "dead"}
    BY DEF TypeOK
  <1>2. Distance[at[r]] \in Nat /\ (at[r] \notin InFlight => Distance[at[r]] = 0)
    BY <1>1 DEF Distance, Places, InFlight
  <1>3. Statement \subseteq InFlight
    BY DEF Statement, WritePlaces, InFlight, Places
  <1> QED BY <1>1, <1>2, <1>3 DEF Left

(* A handler that moves on to a nearer place has less left.                *)
LEMMA Shorter ==
    ASSUME TypeOK, TypeOK', NEW r \in Requests,
           Distance[at'[r]] < Distance[at[r]]
    PROVE  Left(r)' < Left(r)
  <1>1. /\ Distance[at[r]] \in Nat
        /\ Left(r) \in {2 * Distance[at[r]], 2 * Distance[at[r]] + 1}
    BY LeftIs
  <1>2. /\ Distance[at'[r]] \in Nat
        /\ Left(r)' \in {2 * Distance[at'[r]], 2 * Distance[at'[r]] + 1}
    <2>1. at'[r] \in Places
      BY DEF TypeOK
    <2>2. Distance[at'[r]] \in Nat
      BY <2>1 DEF Distance, Places
    <2> QED BY <2>2 DEF Left
  <1> QED BY <1>1, <1>2

(* Every step of a handler but the sending of a statement takes it on.      *)
LEMMA OwnStep ==
    ASSUME LeakInv, LeakInv', NEW r \in Requests, Step(r)
    PROVE  Left(r)' < Left(r)
  <1> USE RequestsAssumption DEF LeakInv
  <1>0. at \in [Requests -> Places] /\ TypeOK /\ TypeOK'
    BY DEF TypeOK
  <1>1. CASE Send(r)
    <2>1. Left(r) = 2 * Distance[at[r]] + 1 /\ Distance[at[r]] \in Nat
      <3>1. busy # r
        BY <1>1 DEF Send
      <3> QED BY <1>1, <3>1, <1>0, LeftIs DEF Send
    <2>2. at' = at /\ busy' = r
      BY <1>1 DEF Send, hvars
    <2>3. Left(r)' = 2 * Distance[at[r]]
      BY <2>1, <2>2 DEF Left
    <2> QED BY <2>1, <2>3
  <1>2. CASE Lookup(r)
    <2>1. at[r] = "lookup" /\ at'[r] \in {Handler[kind[r]]["lookup"], "done"}
      BY <1>0, <1>2 DEF Lookup, GoesOn, Fails, Goes
    <2> QED BY <1>0, <2>1, DistanceFalls, Shorter DEF Distance
  <1>3. CASE Begin(r) \/ BeginFails(r)
    <2>1. at[r] = "begin" /\ at'[r] \in {Handler[kind[r]]["begin"], "done"}
      BY <1>0, <1>3 DEF Begin, BeginFails, GoesOn, Fails, Goes
    <2> QED BY <1>0, <2>1, DistanceFalls, Shorter DEF Distance
  <1>4. CASE Write(r) \/ WriteFails(r)
    <2>1. /\ at[r] \in {"first", "second"}
          /\ at'[r] \in {Handler[kind[r]][at[r]], Handler[kind[r]]["error"]}
      BY <1>0, <1>4 DEF Write, WriteFails, GoesOn, Fails, Goes, WritePlaces
    <2>2. Distance[at'[r]] < Distance[at[r]]
      <3>1. CASE at'[r] = Handler[kind[r]][at[r]]
        BY <2>1, <3>1, DistanceFalls
      <3>2. CASE at'[r] = Handler[kind[r]]["error"]
        <4>1. at'[r] \in Places /\ Distance[at'[r]] < 2
          BY <3>2, <1>0, DistanceFalls DEF TypeOK
        <4>2. Distance[at'[r]] \in 0..8
          BY <4>1, DistanceFalls
        <4>3. Distance[at[r]] \in {4, 6}
          BY <2>1 DEF Distance
        <4> QED BY <4>1, <4>2, <4>3
      <3> QED BY <2>1, <3>1, <3>2
    <2> QED BY <1>0, <2>2, Shorter
  <1>5. CASE ReadFiles(r) \/ Encode(r)
    <2>1. \/ at[r] = "files" /\ at'[r] \in {Handler[kind[r]]["files"], "rollback", "commit"}
          \/ at[r] = "encode" /\ at'[r] = Handler[kind[r]]["encode"]
      BY <1>0, <1>5 DEF ReadFiles, Encode, GoesOn, Fails, Goes
    <2> QED BY <1>0, <2>1, DistanceFalls, Shorter DEF Distance
  <1>6. CASE Commit(r) \/ CommitFails(r) \/ Rollback(r)
    <2>1. at[r] \in {"commit", "rollback"} /\ at'[r] = "done"
      BY <1>0, <1>6 DEF Commit, CommitFails, Rollback, Returns, Goes
    <2> QED BY <1>0, <2>1, Shorter DEF Distance
  <1> QED BY <1>1, <1>2, <1>3, <1>4, <1>5, <1>6 DEF Step

(* What another does, or what happens to the connection, does not lengthen  *)
(* a handler's way.                                                         *)
LEMMA OthersStep ==
    ASSUME LeakInv, LeakInv', NEW r \in Requests, at[r] # "idle",
           \/ \E q \in Requests \ {r} : Arrive(q) \/ Step(q)
           \/ ConnectionLost \/ Restart \/ UNCHANGED vars
    PROVE  Left(r)' <= Left(r)
  <1> USE RequestsAssumption DEF LeakInv
  <1>0. /\ TypeOK /\ TypeOK' /\ at[r] \in Places /\ Distance[at[r]] \in Nat
        /\ Left(r) \in Nat
    BY LeftIs DEF TypeOK
  <1>1. CASE Restart
    <2>1. at'[r] \notin InFlight
      BY <1>0, <1>1 DEF Restart, TypeOK, InFlight, Places
    <2>2. Left(r)' = 0
      BY <2>1, <1>0 DEF Left, TypeOK, InFlight, Places, Distance
    <2> QED BY <1>0, <2>2
  <1>2. ASSUME at'[r] = at[r],
               conn' = "up" => conn = "up" /\ (busy = r => busy' = r)
        PROVE  Left(r)' <= Left(r)
    BY <1>0, <1>2 DEF Left, TypeOK
  <1>3. CASE ConnectionLost \/ UNCHANGED vars
    BY <1>2, <1>3 DEF ConnectionLost, Breaks, vars, hvars, dvars
  <1>4. ASSUME NEW q \in Requests \ {r}, Arrive(q) \/ Step(q)
        PROVE  Left(r)' <= Left(r)
    <2>1. at'[r] = at[r]
      BY <1>0, <1>4
         DEF Step, Arrive, Send, Lookup, Begin, BeginFails, Write, WriteFails,
             ReadFiles, Encode, Commit, CommitFails, Rollback, GoesOn, Fails,
             Goes, Returns, TypeOK, hvars
    <2>2. conn' = "up" => conn = "up" /\ (busy = r => busy' = r)
      BY <1>4
         DEF Step, Arrive, Send, Lookup, Begin, BeginFails, Write, WriteFails,
             ReadFiles, Encode, Commit, CommitFails, Rollback, Answered, Breaks,
             dvars
    <2> QED BY <1>2, <2>1, <2>2
  <1> QED BY <1>1, <1>3, <1>4

(* However requests overlap, the steps of each run out: this is what         *)
(* EveryRequestEnds rests on besides fairness.                              *)
THEOREM RequestsRunOut == Spec => StepsRunOut
  <1>1. LeakInv /\ [Next]_vars /\ LeakInv' =>
            [\A r \in Requests : at[r] # "idle" =>
                /\ Left(r)' <= Left(r)
                /\ Step(r) => Left(r)' < Left(r)]_vars
    <2> SUFFICES ASSUME LeakInv, [Next]_vars, LeakInv',
                        NEW r \in Requests, at[r] # "idle"
                 PROVE  /\ Left(r)' <= Left(r)
                        /\ Step(r) => Left(r)' < Left(r)
      OBVIOUS
    <2>1. CASE Step(r)
      <3>1. Left(r)' < Left(r)
        BY <2>1, OwnStep
      <3>2. Left(r) \in Nat /\ Left(r)' \in Nat
        <4>1. Left(r) \in Nat
          BY LeftIs DEF LeakInv
        <4>2. at'[r] \in Places /\ Distance[at'[r]] \in Nat
          BY DEF LeakInv, TypeOK, Places, Distance
        <4> QED BY <4>1, <4>2 DEF Left
      <3> QED BY <3>1, <3>2
    <2>2. CASE ~Step(r)
      BY <2>2, OthersStep DEF Next, Arrive
    <2> QED BY <2>1, <2>2
  <1> QED BY <1>1, LeakStart, LeakStep, PTL DEF Spec, StepsRunOut

-----------------------------------------------------------------------------
(* What overlapping requests lose.                                          *)

(* A closed connection has no statement and no transaction, and an answer   *)
(* is decided as late as NoEarlyAnswer says, also when requests overlap.    *)
LEMMA MixedBasics ==
    ASSUME LeakInv, DeadIsFree, NoEarlyAnswer, [Next]_vars
    PROVE  DeadIsFree' /\ NoEarlyAnswer'
  <1> USE RequestsAssumption
      DEF LeakInv, TypeOK, OwnPlace, DeadIsFree, NoEarlyAnswer, Places, Codes,
          Statement, WritePlaces, InFlight, TxKinds, PlainKinds, vars, hvars,
          dvars
  <1>1. ASSUME NEW r \in Requests, Arrive(r) PROVE DeadIsFree' /\ NoEarlyAnswer'
    BY <1>1, Routes DEF Arrive, GoesOn, Goes
  <1>2. ASSUME NEW r \in Requests, Send(r) PROVE DeadIsFree' /\ NoEarlyAnswer'
    BY <1>2 DEF Send
  <1>3. ASSUME NEW r \in Requests, Lookup(r) PROVE DeadIsFree' /\ NoEarlyAnswer'
    BY <1>3, Routes DEF Lookup, GoesOn, Fails, Goes, Answered, Refused
  <1>4. ASSUME NEW r \in Requests, Begin(r) PROVE DeadIsFree' /\ NoEarlyAnswer'
    BY <1>4, Routes DEF Begin, GoesOn, Goes, Answered
  <1>5. ASSUME NEW r \in Requests, BeginFails(r) PROVE DeadIsFree' /\ NoEarlyAnswer'
    BY <1>5 DEF BeginFails, Breaks, Fails, Goes
  <1>6. ASSUME NEW r \in Requests, Write(r) PROVE DeadIsFree' /\ NoEarlyAnswer'
    <2>1. Handler[kind[r]][at[r]] \in {"second", "commit", "files", "encode", "done"}
      BY <1>6, Routes DEF Write, TwoWrites
    <2>2. DeadIsFree'
      BY <1>6 DEF Write, Answered
    <2>3. NoEarlyAnswer'
      BY <1>6, <2>1 DEF Write, GoesOn, Goes
    <2> QED BY <2>2, <2>3
  <1>7. ASSUME NEW r \in Requests, WriteFails(r) PROVE DeadIsFree' /\ NoEarlyAnswer'
    BY <1>7, Routes DEF WriteFails, AfterError, Fails, Goes, Answered, Refused
  <1>8. ASSUME NEW r \in Requests, ReadFiles(r) PROVE DeadIsFree' /\ NoEarlyAnswer'
    BY <1>8, Routes DEF ReadFiles, GoesOn, Fails, Goes
  <1>9. ASSUME NEW r \in Requests, Encode(r) PROVE DeadIsFree' /\ NoEarlyAnswer'
    BY <1>9, Routes DEF Encode, Goes
  <1>10. ASSUME NEW r \in Requests, Commit(r) PROVE DeadIsFree' /\ NoEarlyAnswer'
    BY <1>10 DEF Commit, Returns, Goes, Answered
  <1>11. ASSUME NEW r \in Requests, CommitFails(r) PROVE DeadIsFree' /\ NoEarlyAnswer'
    BY <1>11 DEF CommitFails, Returns, Breaks, Goes, Answered, Refused
  <1>12. ASSUME NEW r \in Requests, Rollback(r) PROVE DeadIsFree' /\ NoEarlyAnswer'
    BY <1>12 DEF Rollback, Breaks, Goes, Answered, Refused
  <1>13. CASE ConnectionLost
    BY <1>13 DEF ConnectionLost, Breaks
  <1>14. CASE Restart
    BY <1>14 DEF Restart
  <1>15. CASE UNCHANGED vars
    BY <1>15
  <1> QED
    BY <1>1, <1>2, <1>3, <1>4, <1>5, <1>6, <1>7, <1>8, <1>9, <1>10, <1>11,
       <1>12, <1>13, <1>14, <1>15
       DEF Next, Step

(* A step of a handler moves no other, and none changes its kind.           *)
LEMMA OthersPlaces ==
    ASSUME TypeOK, NEW r \in Requests, Arrive(r) \/ Step(r)
    PROVE  /\ kind' = kind
           /\ \A q \in Requests : q # r => at'[q] = at[q] /\ code'[q] = code[q]
           /\ conn' \in {conn, "dead"}
  BY DEF Step, Arrive, Send, Lookup, Begin, BeginFails, Write, WriteFails,
         ReadFiles, Encode, Commit, CommitFails, Rollback, GoesOn, Fails,
         Goes, Returns, Breaks, Answered, TypeOK, hvars, dvars

(* A request that spoils others goes on doing so: it cannot succeed any      *)
(* more, and its failure is remembered.                                     *)
LEMMA SpoilersStay ==
    ASSUME LeakInv, DeadIsFree, NoEarlyAnswer, [Next]_vars,
           NEW q \in Requests, Spoiler(q)
    PROVE  Spoiler(q)'
  <1> USE RequestsAssumption DEF LeakInv
  <1>0. /\ TypeOK /\ at[q] \in Places /\ code[q] \in Codes /\ at[q] # "idle"
        /\ at[q] = "rollback" => code[q] = "fail"
        /\ at[q] \in InFlight /\ code[q] = "ok" => kind[q] = "addData"
    BY DEF TypeOK, NoEarlyAnswer, Spoiler, InFlight
  <1>1. ASSUME Step(q) PROVE Spoiler(q)'
    <2>1. at[q] \in InFlight
      BY <1>1 DEF Step, Send, Lookup, Begin, BeginFails, Write, WriteFails,
                  ReadFiles, Encode, Commit, CommitFails, Rollback, Statement,
                  WritePlaces, InFlight, Places
    <2>2. CASE at[q] = "rollback"
      <3>1. kind' = kind /\ code' = code /\ at'[q] \in {"rollback", "done"}
        BY <1>0, <1>1, <2>2
           DEF Step, Send, Lookup, Begin, BeginFails, Write, WriteFails,
               ReadFiles, Encode, Commit, CommitFails, Rollback, Goes, TypeOK,
               WritePlaces, hvars
      <3> QED BY <1>0, <2>2, <3>1 DEF Spoiler
    <2>3. CASE at[q] # "rollback"
      <3>1. conn = "dead" /\ busy = NoOne
        BY <2>1, <2>3 DEF Spoiler, DeadIsFree, InFlight
      <3>2. conn' = "dead" /\ kind' = kind
        BY <1>1, <3>1, OthersPlaces, <1>0
      <3>3. ~Send(q) /\ ~Answered(q)
        BY <3>1 DEF Send, Answered
      <3>4. CASE ReadFiles(q) \/ Encode(q)
        <4>1. kind[q] = "addData"
          BY <3>4 DEF ReadFiles, Encode, OwnPlace
        <4>2. at'[q] \in {"second", "rollback", "commit"}
          <5>1. /\ Handler[kind[q]]["files"] = "second"
                /\ Handler[kind[q]]["encode"] = "commit"
                /\ Handler[kind[q]].encode = "commit"
            BY <1>0, <4>1, Routes DEF TypeOK, TxKinds
          <5> QED BY <1>0, <3>4, <5>1
                  DEF ReadFiles, Encode, GoesOn, Fails, Goes, TypeOK
        <4> QED BY <3>2, <4>2 DEF Spoiler, InFlight, Places
      <3>5. CASE Lookup(q) \/ BeginFails(q) \/ WriteFails(q)
        <4>1. /\ code'[q] = "fail"
              /\ at'[q] \in {"done", Handler[kind[q]]["error"]}
          BY <1>0, <3>3, <3>5
             DEF Lookup, BeginFails, WriteFails, Fails, Goes, TypeOK
        <4>2. Handler[kind[q]]["error"] \in {"left", "rollback", "done"}
          BY <1>0, Routes DEF TypeOK
        <4> QED BY <4>1, <4>2 DEF Spoiler
      <3>6. CASE CommitFails(q)
        <4>1. at'[q] = "done" /\ (code'[q] = "ok" => code[q] = "ok")
          BY <1>0, <3>6 DEF CommitFails, Returns, Goes, TypeOK
        <4> QED BY <1>0, <2>1, <3>2, <4>1 DEF Spoiler
      <3>7. ~Begin(q) /\ ~Write(q) /\ ~Commit(q) /\ ~Rollback(q)
        BY <2>3, <3>3 DEF Begin, Write, Commit, Rollback
      <3> QED BY <1>1, <3>3, <3>4, <3>5, <3>6, <3>7 DEF Step
    <2> QED BY <2>2, <2>3
  <1>2. ASSUME NEW r \in Requests, Arrive(r) \/ Step(r), r # q PROVE Spoiler(q)'
    <2>1. /\ kind' = kind /\ at'[q] = at[q] /\ code'[q] = code[q]
          /\ conn = "dead" => conn' = "dead"
      BY <1>0, <1>2, OthersPlaces
    <2> QED BY <2>1 DEF Spoiler
  <1>3. CASE Restart
    BY <1>0, <1>3 DEF Restart, Spoiler, TypeOK, InFlight, Places
  <1>4. CASE ConnectionLost
    BY <1>4 DEF ConnectionLost, Breaks, Spoiler, hvars
  <1>5. CASE UNCHANGED vars
    BY <1>5 DEF Spoiler, vars, hvars, dvars
  <1> QED BY <1>0, <1>1, <1>2, <1>3, <1>4, <1>5 DEF Next, Arrive

(* It claims no write, unless it can only fail.                             *)
LEMMA SpoilerClaimsNothing ==
    ASSUME NEW r \in Requests, kind'[r] # "addData", Spoiler(r)'
    PROVE  Made(r)' = {} \/ (at'[r] \in InFlight /\ conn' = "dead")
  BY DEF Spoiler, Made

(* Writes are lost only in a step that leaves a spoiler: the request whose  *)
(* commit or rollback it is, or the owner of a transaction that is cut off. *)
LEMMA Drops ==
    ASSUME MixedInv, [Next]_vars,
           ~(stored \union pending \subseteq stored' \union pending')
    PROVE  \E q \in Requests : Spoiler(q)'
  <1> USE RequestsAssumption DEF MixedInv, LeakInv, TypeOK
  <1>1. PICK w \in stored \union pending : w \notin stored' \union pending'
    OBVIOUS
  <1>2. ASSUME Breaks PROVE tx # "none"
    BY <1>1, <1>2 DEF Breaks
  <1>3. CASE ConnectionLost
    <2>1. PICK q \in Requests : InTx(q) \/ at[q] = "left"
      BY <1>2, <1>3 DEF ConnectionLost, TxHasOwner
    <2>2. at' = at /\ code' = code /\ kind' = kind /\ conn' = "dead"
      BY <1>3 DEF ConnectionLost, Breaks, hvars
    <2>3. Spoiler(q)'
      BY <2>1, <2>2
         DEF InTx, TxPlaces, InFlight, Places, Spoiler, NoEarlyAnswer
    <2> QED BY <2>3
  <1>4. CASE Restart
    <2>1. tx # "none"
      BY <1>1, <1>4 DEF Restart
    <2>2. PICK q \in Requests : InTx(q) \/ at[q] = "left"
      BY <2>1 DEF TxHasOwner
    <2>3. /\ at'[q] \in {"done", "left"} /\ code'[q] # "ok"
      BY <2>2, <1>4
         DEF Restart, InTx, TxPlaces, InFlight, Places, NoEarlyAnswer
    <2> QED BY <2>3 DEF Spoiler
  <1>5. ASSUME NEW q \in Requests, Step(q) PROVE Spoiler(q)'
    <2>1. CASE BeginFails(q)
      BY <2>1 DEF BeginFails, Fails, Goes, Spoiler
    <2>2. CASE CommitFails(q)
      <3>1. /\ at'[q] = "done" /\ kind' = kind
            /\ code'[q] = IF code[q] = "none" THEN "fail" ELSE code[q]
        BY <2>2 DEF CommitFails, Returns, Goes
      <3>2. code[q] = "ok" => kind[q] = "addData"
        BY <2>2 DEF CommitFails, NoEarlyAnswer, InFlight, Places
      <3> QED BY <3>1, <3>2 DEF Spoiler
    <2>3. CASE Rollback(q)
      <3>1. at'[q] = "done" /\ code'[q] = "fail"
        BY <2>3 DEF Rollback, Goes, NoEarlyAnswer
      <3> QED BY <3>1 DEF Spoiler
    <2>4. ~Send(q) /\ ~Lookup(q) /\ ~Begin(q) /\ ~WriteFails(q)
      BY <1>1 DEF Send, Lookup, Begin, WriteFails
    <2>5. ~ReadFiles(q) /\ ~Encode(q) /\ ~Commit(q) /\ ~Write(q)
      BY <1>1 DEF ReadFiles, Encode, Commit, Write, dvars
    <2> QED BY <1>5, <2>1, <2>2, <2>3, <2>4, <2>5 DEF Step
  <1>6. ASSUME NEW q \in Requests, Arrive(q) PROVE FALSE
    BY <1>1, <1>6 DEF Arrive, dvars
  <1>7. CASE UNCHANGED vars
    BY <1>1, <1>7 DEF vars, dvars
  <1> QED BY <1>3, <1>4, <1>5, <1>6, <1>7 DEF Next

(* What a handler has written grows by its own writes alone.                *)
LEMMA MadeGrows ==
    ASSUME MixedInv, [Next]_vars, NEW r \in Requests, kind[r] # "addData"
    PROVE  \/ Made(r)' \subseteq Made(r)
           \/ /\ Write(r)
              /\ Made(r)' \subseteq Made(r) \union {<<r, at[r]>>}
  <1> USE RequestsAssumption DEF MixedInv, LeakInv
  <1>0. /\ TypeOK /\ kind[r] \in DOMAIN Handler /\ kind' = kind
        /\ WritesOf(r)' = WritesOf(r)
    <2>1. TypeOK /\ kind[r] \in DOMAIN Handler
      BY DEF TypeOK
    <2>2. kind' = kind
      BY <2>1, OthersPlaces DEF Next, ConnectionLost, Restart, vars, hvars
    <2> QED BY <2>1, <2>2 DEF WritesOf
  <1>1. ASSUME at'[r] = at[r] /\ code'[r] = code[r]
        PROVE  Made(r)' = Made(r)
    BY <1>0, <1>1 DEF Made
  <1>2. ASSUME at'[r] \notin {"second", "commit"},
               at'[r] = "done" => code'[r] # "ok"
        PROVE  Made(r)' = {}
    BY <1>2 DEF Made
  <1>3. CASE Restart
    BY <1>0, <1>1, <1>2, <1>3 DEF Restart, TypeOK, InFlight, Places
  <1>4. CASE ConnectionLost \/ UNCHANGED vars
    BY <1>1, <1>4 DEF ConnectionLost, vars, hvars
  <1>5. ASSUME NEW q \in Requests \ {r}, Arrive(q) \/ Step(q)
        PROVE  Made(r)' = Made(r)
    BY <1>0, <1>1, <1>5, OthersPlaces
  <1>6. CASE Arrive(r)
    <2>1. at'[r] \in {"begin", "lookup"}
      BY <1>0, <1>6, Routes DEF Arrive, GoesOn, Goes, TypeOK
    <2> QED BY <2>1, <1>2
  <1>7. CASE Send(r)
    BY <1>1, <1>7 DEF Send, hvars
  <1>8. CASE Lookup(r)
    <2>1. CASE at'[r] = "done" /\ code'[r] = "fail"
      BY <2>1, <1>2
    <2>2. CASE GoesOn(r)
      <3>1. kind[r] # "initialSetup"
        BY <1>8 DEF Lookup, OwnPlace
      <3>2. at'[r] \in {"begin", "first", "done"}
        BY <1>0, <1>8, <2>2, <3>1, Routes DEF Lookup, GoesOn, Goes, TypeOK
      <3>3. at'[r] = "done" => kind[r] = "getData"
        BY <1>0, <1>8, <2>2, <3>1, Routes DEF Lookup, GoesOn, Goes, TypeOK
      <3>4. kind[r] = "getData" => WritesOf(r) = {}
        BY AllWrites, <1>0 DEF TwoWrites
      <3> QED BY <1>0, <3>2, <3>3, <3>4 DEF Made
    <2> QED BY <1>0, <1>8, <2>1, <2>2 DEF Lookup, Fails, Goes, TypeOK
  <1>9. CASE Begin(r)
    <2>1. at'[r] = "first"
      BY <1>0, <1>9, Routes DEF Begin, GoesOn, Goes, TypeOK, OwnPlace
    <2> QED BY <2>1, <1>2
  <1>10. CASE BeginFails(r)
    <2>1. at'[r] = "done" /\ code'[r] = "fail"
      BY <1>0, <1>10 DEF BeginFails, Fails, Goes, TypeOK
    <2> QED BY <2>1, <1>2
  <1>11. CASE Write(r)
    <2>1. CASE at[r] = "first"
      <3>1. /\ at'[r] \in {"second", "commit", "done"}
            /\ at'[r] # "second" => kind[r] \notin TwoWrites
        <4>1. kind[r] # "getData"
          BY <2>1 DEF OwnPlace
        <4> QED BY <1>0, <1>11, <2>1, <4>1, Routes
                DEF Write, GoesOn, Goes, TypeOK, TwoWrites, TxKinds
      <3>2. kind[r] \notin TwoWrites => WritesOf(r) \subseteq {<<r, "first">>}
        BY AllWrites, <1>0
      <3> QED BY <1>0, <1>11, <2>1, <3>1, <3>2 DEF Made
    <2>2. CASE at[r] = "second"
      <3>1. kind[r] \in TwoWrites
        BY <2>2 DEF OwnPlace
      <3>2. at'[r] = "commit"
        BY <1>0, <1>11, <2>2, <3>1, Routes
           DEF Write, GoesOn, Goes, TypeOK, TwoWrites
      <3>3. WritesOf(r) = {<<r, "first">>, <<r, "second">>}
        BY AllWrites, <1>0, <3>1
      <3> QED BY <1>0, <1>11, <2>2, <3>2, <3>3 DEF Made
    <2> QED BY <1>11, <2>1, <2>2 DEF Write, WritePlaces
  <1>12. CASE WriteFails(r)
    <2>1. at'[r] \in {"left", "rollback", "done"} /\ code'[r] = "fail"
      <3>1. Handler[kind[r]].error \in {"left", "rollback", "done"}
        BY <1>0, Routes
      <3> QED BY <1>0, <1>12, <3>1 DEF WriteFails, Fails, Goes, TypeOK
    <2> QED BY <2>1, <1>2
  <1>13. CASE ReadFiles(r) \/ Encode(r)
    BY <1>13 DEF ReadFiles, Encode, OwnPlace
  <1>14. CASE Commit(r)
    BY <1>0, <1>14 DEF Commit, Returns, Goes, TypeOK, Made
  <1>15. CASE CommitFails(r)
    <2>1. code[r] # "ok"
      BY <1>15 DEF CommitFails, NoEarlyAnswer, InFlight, Places
    <2>2. at'[r] = "done" /\ code'[r] # "ok"
      BY <1>0, <1>15, <2>1 DEF CommitFails, Returns, Goes, TypeOK
    <2> QED BY <2>2, <1>2
  <1>16. CASE Rollback(r)
    <2>1. at'[r] = "done" /\ code'[r] = "fail"
      BY <1>0, <1>16 DEF Rollback, Goes, TypeOK, NoEarlyAnswer
    <2> QED BY <2>1, <1>2
  <1> QED
    BY <1>3, <1>4, <1>5, <1>6, <1>7, <1>8, <1>9, <1>10, <1>11, <1>12, <1>13,
       <1>14, <1>15, <1>16
       DEF Next, Step

LEMMA MixedStart == Init => MixedInv
  BY LeakStart, RequestsAssumption
     DEF MixedInv, Init, DeadIsFree, NoEarlyAnswer, MadeIsKept, Made

(* One step, whether or not requests overlap.                              *)
LEMMA MixedStep == MixedInv /\ [Next]_vars => MixedInv'
  <1> SUFFICES ASSUME MixedInv, [Next]_vars,
                      NEW r \in Requests, kind'[r] # "addData"
               PROVE  \/ Made(r)' \subseteq stored' \union pending'
                      \/ at'[r] \in InFlight /\ conn' = "dead"
                      \/ \E q \in Requests \ {r} : Spoiler(q)'
    BY LeakStep, MixedBasics DEF MixedInv, MadeIsKept
  <1>0. TypeOK /\ kind' = kind
    BY OthersPlaces
       DEF MixedInv, LeakInv, Next, ConnectionLost, Restart, vars, hvars
  <1>1. ASSUME NEW q \in Requests, Spoiler(q) PROVE Spoiler(q)'
    BY <1>1, SpoilersStay DEF MixedInv
  <1>2. ASSUME Spoiler(r)'
        PROVE  Made(r)' = {} \/ (at'[r] \in InFlight /\ conn' = "dead")
    BY <1>2, SpoilerClaimsNothing
  <1>3. CASE \E q \in Requests \ {r} : Spoiler(q)
    BY <1>1, <1>3
  <1>4. CASE at[r] \in InFlight /\ conn = "dead"
    <2>1. Spoiler(r)'
      BY <1>1, <1>4 DEF Spoiler
    <2> QED BY <1>2, <2>1
  <1>5. CASE /\ Made(r) \subseteq stored \union pending
             /\ stored \union pending \subseteq stored' \union pending'
    <2>1. CASE Made(r)' \subseteq Made(r)
      BY <1>5, <2>1
    <2>2. CASE Write(r) /\ Made(r)' \subseteq Made(r) \union {<<r, at[r]>>}
      <3>1. <<r, at[r]>> \in stored' \union pending'
        BY <2>2 DEF Write
      <3> QED BY <1>5, <2>2, <3>1
    <2> QED BY <1>0, <2>1, <2>2, MadeGrows
  <1>6. CASE ~(stored \union pending \subseteq stored' \union pending')
    <2>1. PICK q \in Requests : Spoiler(q)'
      BY <1>6, Drops
    <2> QED BY <1>2, <2>1
  <1> QED BY <1>0, <1>3, <1>4, <1>5, <1>6 DEF MixedInv, MadeIsKept

(* However requests overlap, what a handler that can still succeed has      *)
(* written is still there, or another request pays for it.                  *)
THEOREM MixedInvariant == Spec => []MixedInv
  BY MixedStart, MixedStep, PTL DEF Spec

(* However requests overlap, a success that is not kept goes with the       *)
(* failure of another request: the loss is never silent.                    *)
THEOREM LossIsNotSilent == Spec => []NoSilentLoss
  <1>1. MixedInv => NoSilentLoss
    BY DEF MixedInv, MadeIsKept, NoSilentLoss, Made, InFlight
  <1> QED BY <1>1, MixedInvariant, PTL

(* So when every request is answered, none is an upload and none was told   *)
(* of a failure, all of them are stored, in whatever order their statements *)
(* mixed.                                                                   *)
THEOREM AllServedAllStored ==
    Spec => []((\A r \in Requests :
                    at[r] = "done" /\ code[r] = "ok" /\ kind[r] # "addData")
               => \A r \in Requests : WritesOf(r) \subseteq stored)
  <1>1. MixedInv =>
          ((\A r \in Requests :
                at[r] = "done" /\ code[r] = "ok" /\ kind[r] # "addData")
           => \A r \in Requests : WritesOf(r) \subseteq stored)
    <2> SUFFICES ASSUME MixedInv, NEW r \in Requests,
                        \A q \in Requests : /\ at[q] = "done" /\ code[q] = "ok"
                                            /\ kind[q] # "addData"
                 PROVE  WritesOf(r) \subseteq stored
      OBVIOUS
    <2>1. \A q \in Requests : ~Spoiler(q)
      BY DEF Spoiler, InFlight
    <2>2. Made(r) = WritesOf(r)
      BY DEF Made
    <2>3. WritesOf(r) \subseteq stored \union pending
      BY <2>1, <2>2 DEF MixedInv, MadeIsKept, InFlight
    <2>4. tx = "none"
      BY DEF MixedInv, LeakInv, TxHasOwner, InTx, TxPlaces
    <2> QED BY <2>3, <2>4 DEF MixedInv, LeakInv, TypeOK
  <1> QED BY <1>1, MixedInvariant, PTL
=============================================================================
