---------------------------- MODULE ServiceProofs ----------------------------
(***************************************************************************)
(* Requests that do not overlap implement Service, for any number of them. *)
(***************************************************************************)
EXTENDS RequestsProofs

(* In the first states nothing is stored and nothing answered.             *)
LEMMA ServiceStart == Init => ServiceInv
  BY AloneStart DEF ServiceInv, Fresh, AnsweredLate, Init, InFlight, Places

(* What a step stores: nothing, or the request that is running, as a whole  *)
(* unless its files could not be read, and while there is a connection.     *)
Puts(r) ==
    /\ at[r] \in InFlight /\ conn = "up"
    /\ kind[r] # "getData"
    /\ at[r] # "rollback"
    /\ stored' = stored \union
           (IF FilesUnread(r) THEN {<<r, "first">>} ELSE WritesOf(r))

(* What was on the wire is of the request that sent it.                    *)
LEMMA WirePuts ==
    ASSUME AloneInv, stored' \in {stored, stored \union OnTheWire}
    PROVE  stored' = stored \/ \E r \in Requests : Puts(r)
  <1>1. CASE stored' = stored
    BY <1>1
  <1>2. CASE stored' # stored
    <2>1. OnTheWire # {} /\ stored' = stored \union OnTheWire
      BY <1>2
    <2>2. /\ busy \in Requests
          /\ OnTheWire = IF FilesUnread(busy) THEN {<<busy, "first">>}
                         ELSE WritesOf(busy)
      BY <2>1, WireIsWhole
    <2>3. conn = "up" /\ at[busy] \in {"commit", "first", "second"}
      BY <2>1, <2>2, RequestsAssumption
         DEF OnTheWire, AloneInv, LeakInv, TypeOK, DeadIsFree, WritePlaces
    <2>4. kind[busy] # "getData"
      BY <2>2, <2>3 DEF AloneInv, LeakInv, OwnPlace, TxKinds, TwoWrites
    <2> QED BY <2>1, <2>2, <2>3, <2>4 DEF Puts, InFlight, Places
  <1> QED BY <1>1, <1>2

(* A write outside of a transaction is all its request writes.              *)
LEMMA WritePuts ==
    ASSUME AloneInv, NEW r \in Requests, Write(r)
    PROVE  \/ /\ tx = "open" /\ kind[r] \in TxKinds /\ stored' = stored
           \/ /\ tx # "open" /\ kind[r] \in PlainKinds /\ at[r] = "first"
              /\ ~FilesUnread(r) /\ Puts(r)
  <1> USE RequestsAssumption DEF AloneInv, LeakInv, TypeOK
  <1>1. at[r] \in WritePlaces /\ conn = "up" /\ tx # "failed"
    BY DEF Write, Answered, DeadIsFree
  <1>2. kind[r] \in TxKinds \union PlainKinds \union {"getData"}
    BY Routes
  <1>3. CASE kind[r] \in TxKinds
    BY <1>1, <1>3 DEF TxIsOwn, WritePlaces, TxPlaces, Write
  <1>4. CASE kind[r] \notin TxKinds
    <2>1. at[r] = "first" /\ kind[r] \in PlainKinds /\ kind[r] \notin TwoWrites
      BY <1>1, <1>2, <1>4 DEF OwnPlace, WritePlaces, TwoWrites, TxKinds
    <2>2. tx # "open" /\ WritesOf(r) = {<<r, "first">>} /\ kind[r] # "getData"
      BY <2>1, AllWrites DEF PlainWithoutTx, PlainKinds
    <2> QED BY <1>1, <2>1, <2>2 DEF Write, Puts, FilesUnread, InFlight, Places
  <1> QED BY <1>3, <1>4

(* A commit is of what its own handler wrote.                              *)
LEMMA CommitPuts ==
    ASSUME AloneInv, NEW r \in Requests, Commit(r)
    PROVE  Puts(r)
  <1> USE RequestsAssumption DEF AloneInv, LeakInv, TypeOK
  <1>1. at[r] = "commit" /\ conn = "up" /\ stored' = stored \union pending
    BY DEF Commit, Answered, DeadIsFree
  <1>2. kind[r] \in TxKinds /\ pending = WrittenBy(r)
    BY <1>1 DEF TxIsOwn, OwnPlace, TxPlaces
  <1> QED BY <1>1, <1>2 DEF WrittenBy, Puts, InFlight, Places, TxKinds

(* A request in flight is not refused while there is a connection.          *)
LEMMA NotRefused ==
    ASSUME AloneInv, NEW r \in Requests, at[r] \in InFlight, conn = "up"
    PROVE  ~Refused(r)
  BY DEF Refused, AloneInv, LeakInv, TypeOK, OneInFlight, Statement,
         WritePlaces, InFlight, Places

(* One step stores nothing or puts one request.                             *)
LEMMA StepPuts ==
    ASSUME AloneInv, [Next]_vars
    PROVE  stored' = stored \/ \E r \in Requests : Puts(r)
  <1>1. ASSUME NEW r \in Requests, Write(r) \/ Commit(r)
        PROVE  stored' = stored \/ \E q \in Requests : Puts(q)
    BY <1>1, WritePuts, CommitPuts
  <1>2. ASSUME \/ \E r \in Requests : BeginFails(r) \/ CommitFails(r) \/ Rollback(r)
               \/ ConnectionLost \/ Restart
        PROVE  stored' \in {stored, stored \union OnTheWire}
    BY <1>2
       DEF BeginFails, CommitFails, Rollback, ConnectionLost, Restart, Breaks,
           dvars
  <1>3. ASSUME NEW r \in Requests,
               \/ Arrive(r) \/ Send(r) \/ Lookup(r) \/ Begin(r)
               \/ WriteFails(r) \/ ReadFiles(r) \/ Encode(r)
        PROVE  stored' = stored
    BY <1>3 DEF Arrive, Send, Lookup, Begin, WriteFails, ReadFiles, Encode, dvars
  <1>4. CASE UNCHANGED vars
    BY <1>4 DEF vars, dvars
  <1> QED BY <1>1, <1>2, <1>3, <1>4, WirePuts DEF Next, Step

-----------------------------------------------------------------------------
(* The steps of a handler, as the Service sees them.                        *)

Runs(r) ==
    /\ kind' = kind /\ at[r] \in InFlight
    /\ at' = [at EXCEPT ![r] = at'[r]]

(* It goes on and nothing is to be seen of it.                              *)
MovesOn(r) ==
    /\ Runs(r) /\ at'[r] \in InFlight
    /\ at'[r] = at[r] \/ code[r] = "none"
    /\ UNCHANGED <<code, conn, stored>>

(* It goes on and has decided its answer.                                   *)
Decides(r, answer) ==
    /\ Runs(r) /\ code[r] = "none"
    /\ \/ at'[r] = "rollback" /\ answer = "fail"
       \/ at'[r] = "commit" /\ kind[r] = "addData"
    /\ code' = [code EXCEPT ![r] = answer]
    /\ UNCHANGED <<conn, stored>>

Finishes(r, answer) ==
    /\ Runs(r) /\ at'[r] \in {"done", "left"}
    /\ code' = IF code[r] = "none" THEN [code EXCEPT ![r] = answer] ELSE code

Succeeds(r) ==
    /\ Finishes(r, "ok")
    /\ conn' = conn
    /\ Puts(r) \/ (kind[r] = "getData" /\ stored' = stored)

(* The connection is as it was, or closed.                                  *)
GivesUp(r) ==
    /\ Finishes(r, "fail")
    /\ conn' \in {conn, "dead"}
    /\ stored' = stored

(* A step of a handler is one of these.                                    *)
LEMMA StepIsSeen ==
    ASSUME ServiceInv, NEW r \in Requests, Step(r)
    PROVE  \/ MovesOn(r) \/ Succeeds(r) \/ GivesUp(r)
           \/ \E answer \in {"ok", "fail"} : Decides(r, answer)
  <1> USE RequestsAssumption DEF ServiceInv, AloneInv, LeakInv, TypeOK
  <1>0. /\ at[r] \in Places /\ code[r] \in Codes
        /\ at[r] \in InFlight /\ at[r] \notin {"commit", "rollback"} =>
              code[r] = "none"
    BY DEF AnsweredLate
  <1>1. CASE Send(r)
    BY <1>1, <1>0
       DEF Send, MovesOn, Runs, Statement, WritePlaces, InFlight, Places, hvars
  <1>2. CASE Lookup(r)
    <2>1. /\ at[r] = "lookup" /\ code[r] = "none" /\ kind[r] # "initialSetup"
          /\ at[r] \in InFlight
      BY <1>0, <1>2 DEF Lookup, InFlight, Places, OwnPlace
    <2>2. CASE GoesOn(r)
      <3>1. /\ at' = [at EXCEPT ![r] = Handler[kind[r]]["lookup"]]
            /\ code' = IF Handler[kind[r]]["lookup"] = "done"
                       THEN [code EXCEPT ![r] = "ok"] ELSE code
        BY <2>1, <2>2 DEF GoesOn, Goes
      <3>2. kind' = kind /\ stored' = stored /\ conn' = conn
        BY <1>2 DEF Lookup, Answered
      <3>3. CASE kind[r] = "getData"
        BY <2>1, <3>1, <3>2, <3>3, Routes DEF Succeeds, Finishes, Runs
      <3>4. CASE kind[r] # "getData"
        <4>1. Handler[kind[r]]["lookup"] \in {"first", "begin"}
          BY <2>1, <3>4, Routes
        <4> QED BY <2>1, <3>1, <3>2, <4>1 DEF MovesOn, Runs, InFlight, Places
      <3> QED BY <3>3, <3>4
    <2>3. CASE Fails(r, "done")
      BY <1>2, <2>1, <2>3
         DEF Lookup, Answered, Fails, Goes, GivesUp, Finishes, Runs
    <2> QED BY <1>2, <2>2, <2>3 DEF Lookup
  <1>3. CASE Begin(r)
    <2>1. /\ at[r] = "begin" /\ code[r] = "none" /\ kind[r] \in TxKinds
          /\ at[r] \in InFlight
      BY <1>0, <1>3 DEF Begin, InFlight, Places, OwnPlace
    <2>2. Handler[kind[r]]["begin"] = "first"
      BY <2>1, Routes
    <2> QED BY <1>3, <2>1, <2>2
            DEF Begin, GoesOn, Goes, Answered, MovesOn, Runs, InFlight, Places
  <1>4. CASE BeginFails(r)
    <2>1. /\ at[r] = "begin" /\ code[r] = "none" /\ at[r] \in InFlight
      BY <1>0, <1>4 DEF BeginFails, InFlight, Places
    <2>2. OnTheWire = {}
      <3>1. busy = r \/ conn = "dead"
        BY <1>4, <2>1, NotRefused DEF BeginFails
      <3> QED BY <2>1, <3>1 DEF OnTheWire, DeadIsFree, WritePlaces
    <2> QED BY <1>4, <2>1, <2>2
            DEF BeginFails, Breaks, Fails, Goes, GivesUp, Finishes, Runs
  <1>5. CASE Write(r)
    <2>1. /\ at[r] \in WritePlaces /\ code[r] = "none" /\ at[r] \in InFlight
      BY <1>0, <1>5 DEF Write, WritePlaces, InFlight, Places
    <2>2. CASE tx = "open" /\ kind[r] \in TxKinds /\ stored' = stored
      <3>1. Handler[kind[r]][at[r]] \in {"files", "second", "encode", "commit"}
        BY <2>1, <2>2, Routes DEF WritePlaces, OwnPlace, TwoWrites, TxKinds
      <3> QED BY <1>5, <2>1, <2>2, <3>1
              DEF Write, GoesOn, Goes, Answered, MovesOn, Runs, InFlight, Places
    <2>3. CASE kind[r] \in PlainKinds /\ at[r] = "first" /\ Puts(r)
      <3>1. Handler[kind[r]]["first"] = "done"
        BY <2>3, Routes
      <3> QED BY <1>5, <2>1, <2>3, <3>1
              DEF Write, GoesOn, Goes, Answered, Succeeds, Finishes, Runs
    <2> QED BY <1>5, <2>2, <2>3, WritePuts
  <1>6. CASE WriteFails(r)
    <2>1. /\ at[r] \in WritePlaces /\ code[r] = "none" /\ at[r] \in InFlight
          /\ kind' = kind /\ stored' = stored /\ conn' = conn
          /\ at' = [at EXCEPT ![r] = Handler[kind[r]]["error"]]
          /\ code' = [code EXCEPT ![r] = "fail"]
      BY <1>0, <1>6
         DEF WriteFails, Fails, Goes, Answered, WritePlaces, InFlight, Places
    <2>2. Handler[kind[r]]["error"] \in {"left", "rollback", "done"}
      BY Routes
    <2>3. CASE Handler[kind[r]]["error"] = "rollback"
      BY <2>1, <2>3 DEF Decides, Runs
    <2>4. CASE Handler[kind[r]]["error"] \in {"left", "done"}
      BY <2>1, <2>4 DEF GivesUp, Finishes, Runs
    <2> QED BY <2>2, <2>3, <2>4
  <1>7. CASE ReadFiles(r)
    <2>1. /\ at[r] = "files" /\ code[r] = "none" /\ at[r] \in InFlight
          /\ kind[r] = "addData" /\ kind' = kind /\ stored' = stored /\ conn' = conn
      BY <1>0, <1>7 DEF ReadFiles, InFlight, Places, OwnPlace, dvars
    <2>2. Handler[kind[r]]["files"] = "second"
      BY <2>1, Routes DEF TxKinds
    <2>3. CASE GoesOn(r)
      BY <2>1, <2>2, <2>3 DEF GoesOn, Goes, MovesOn, Runs, InFlight, Places
    <2>4. CASE Fails(r, "rollback") \/ Fails(r, "commit")
      BY <2>1, <2>4 DEF Fails, Goes, Decides, Runs
    <2> QED BY <1>7, <2>3, <2>4 DEF ReadFiles
  <1>8. CASE Encode(r)
    <2>1. /\ at[r] = "encode" /\ code[r] = "none" /\ at[r] \in InFlight
          /\ kind[r] = "addData" /\ kind' = kind /\ stored' = stored /\ conn' = conn
      BY <1>0, <1>8 DEF Encode, InFlight, Places, OwnPlace, dvars
    <2>2. Handler[kind[r]]["encode"] = "commit" /\ Handler[kind[r]].encode = "commit"
      BY <2>1, Routes DEF TxKinds
    <2> QED BY <1>8, <2>1, <2>2 DEF Encode, Goes, Decides, Runs
  <1>9. CASE Commit(r)
    <2>1. at[r] \in InFlight
      BY <1>9 DEF Commit, InFlight, Places
    <2> QED BY <1>9, <2>1, CommitPuts
            DEF Commit, Returns, Goes, Answered, Succeeds, Finishes, Runs
  <1>10. CASE CommitFails(r)
    <2>1. at[r] \in InFlight
      BY <1>10 DEF CommitFails, InFlight, Places
    <2>2. stored' = stored /\ conn' = conn
      <3>1. CASE Answered(r)
        BY <1>10, <3>1, <2>1 DEF CommitFails, Answered, Refused, Breaks, dvars
      <3>2. CASE Refused(r)
        <4>1. conn = "dead" /\ tx = "none"
          BY <2>1, <3>2, NotRefused DEF DeadIsFree
        <4> QED BY <1>10, <4>1 DEF CommitFails, Answered, DeadIsFree, dvars
      <3> QED BY <1>10, <3>1, <3>2 DEF CommitFails
    <2> QED BY <1>10, <2>1, <2>2
            DEF CommitFails, Returns, Goes, GivesUp, Finishes, Runs
  <1>11. CASE Rollback(r)
    <2>1. at[r] \in InFlight /\ code[r] = "fail"
      BY <1>11 DEF Rollback, InFlight, Places, NoEarlyAnswer
    <2>2. stored' = stored /\ conn' \in {conn, "dead"}
      <3>1. CASE Answered(r) /\ UNCHANGED stored
        BY <3>1 DEF Answered
      <3>2. CASE Refused(r) /\ Breaks
        <4>1. OnTheWire = {}
          BY <2>1, <3>2, NotRefused DEF DeadIsFree, OnTheWire
        <4> QED BY <3>2, <4>1 DEF Breaks
      <3> QED BY <1>11, <3>1, <3>2 DEF Rollback
    <2> QED BY <1>11, <2>1, <2>2 DEF Rollback, Goes, GivesUp, Finishes, Runs
  <1> QED
    BY <1>1, <1>2, <1>3, <1>4, <1>5, <1>6, <1>7, <1>8, <1>9, <1>10, <1>11
       DEF Step

-----------------------------------------------------------------------------
(* A step keeps ServiceInv.                                                 *)

(* What a request writes is its own.                                       *)
LEMMA OwnWrites ==
    ASSUME NEW q \in Requests, NEW r \in Requests, q # r, Puts(r)
    PROVE  WritesOf(q) \intersect stored' = WritesOf(q) \intersect stored
  BY DEF Puts, WritesOf

(* A step that is no handler's arrives, ends everything, or leaves the      *)
(* handlers where they are.                                                 *)
LEMMA ServiceStep == ~Overlapping /\ ServiceInv /\ [Next]_vars => ServiceInv'
  <1> SUFFICES ASSUME ~Overlapping, ServiceInv, [Next]_vars PROVE ServiceInv'
    OBVIOUS
  <1> USE RequestsAssumption DEF ServiceInv
  <1>1. AloneInv' /\ TypeOK /\ TypeOK'
    BY AloneStep DEF AloneInv, LeakInv
  <1>2. SUFFICES Fresh' /\ AnsweredLate'
    BY <1>1
  <1>3. ASSUME kind' = kind, stored' = stored, conn' = conn,
               NEW r \in Requests, at[r] \in InFlight \union {"idle"},
               at' = [at EXCEPT ![r] = at'[r]], at'[r] # "idle"
        PROVE  Fresh'
    BY <1>1, <1>3 DEF Fresh, WritesOf, TypeOK
  <1>4. ASSUME NEW r \in Requests, Arrive(r) PROVE Fresh' /\ AnsweredLate'
    <2>1. /\ at[r] = "idle" /\ kind' = kind /\ stored' = stored /\ conn' = conn
          /\ at' = [at EXCEPT ![r] = Handler[kind[r]]["idle"]]
          /\ code[r] = "none"
      BY <1>4, <1>1 DEF Arrive, GoesOn, Goes, dvars, AloneInv, NoEarlyAnswer
    <2>2. Handler[kind[r]]["idle"] \in {"begin", "lookup"}
      BY <1>1, Routes DEF TypeOK
    <2>3. code' = code
      BY <1>4, <2>1, <2>2 DEF Arrive, GoesOn
    <2> QED BY <1>1, <1>3, <2>1, <2>2, <2>3 DEF AnsweredLate, TypeOK
  <1>5. ASSUME NEW r \in Requests, Step(r) PROVE Fresh' /\ AnsweredLate'
    <2>0. /\ MovesOn(r) \/ Succeeds(r) \/ GivesUp(r)
             \/ \E answer \in {"ok", "fail"} : Decides(r, answer)
          /\ Runs(r)
      <3>1. \/ MovesOn(r) \/ Succeeds(r) \/ GivesUp(r)
            \/ \E answer \in {"ok", "fail"} : Decides(r, answer)
        BY <1>5, StepIsSeen
      <3> QED BY <3>1 DEF MovesOn, Decides, Succeeds, GivesUp, Finishes
    <2>1. /\ Runs(r) /\ at'[r] # "idle"
          /\ \A q \in Requests : q # r => at'[q] = at[q] /\ code'[q] = code[q]
      BY <1>1, <2>0
         DEF MovesOn, Decides, Succeeds, GivesUp, Finishes, Runs, TypeOK,
             InFlight
    <2>2. AnsweredLate'
      <3>1. at'[r] \in InFlight /\ code'[r] # "none" =>
                \/ at'[r] = "rollback" /\ code'[r] = "fail"
                \/ at'[r] = "commit" /\ kind'[r] = "addData"
        BY <1>1, <2>0
           DEF AnsweredLate, MovesOn, Decides, Succeeds, GivesUp, Finishes,
               Runs, TypeOK, InFlight
      <3> QED BY <2>1, <3>1 DEF AnsweredLate, Runs
    <2>3. CASE MovesOn(r) \/ \E answer \in {"ok", "fail"} : Decides(r, answer)
      BY <2>1, <2>2, <2>3, <1>3 DEF MovesOn, Decides, Runs
    <2>4. CASE Succeeds(r) \/ GivesUp(r)
      <3>1. /\ at'[r] \in {"done", "left"} /\ kind' = kind
            /\ conn' = "up" => conn = "up"
        BY <1>1, <2>4 DEF Succeeds, GivesUp, Finishes, Runs, TypeOK
      <3>2. ASSUME NEW q \in Requests, q # r
            PROVE  WritesOf(q)' \intersect stored' = WritesOf(q) \intersect stored
        <4>1. stored' = stored \/ Puts(r)
          BY <2>4 DEF Succeeds, GivesUp
        <4>2. WritesOf(q)' = WritesOf(q)
          BY <3>1 DEF WritesOf
        <4> QED BY <3>2, <4>1, <4>2, OwnWrites
      <3> QED BY <2>1, <2>2, <3>1, <3>2 DEF Fresh, InFlight
    <2> QED BY <2>0, <2>2, <2>3, <2>4
  <1>6. ASSUME ConnectionLost \/ Restart PROVE Fresh' /\ AnsweredLate'
    <2>1. stored' \in {stored, stored \union OnTheWire}
      BY <1>6 DEF ConnectionLost, Restart, Breaks
    <2>2. \A q \in Requests :
             /\ at'[q] = "idle" => at[q] = "idle"
             /\ at'[q] \in InFlight => conn' # "up"
      BY <1>1, <1>6
         DEF ConnectionLost, Restart, Breaks, TypeOK, InFlight, Places, hvars
    <2>3. Fresh'
      <3>1. kind' = kind
        BY <1>6 DEF ConnectionLost, Restart, hvars
      <3>2. ASSUME NEW q \in Requests, at'[q] = "idle"
            PROVE  WritesOf(q)' \intersect stored' = {}
        <4>1. at[q] = "idle" /\ WritesOf(q) \intersect stored = {}
          BY <2>2, <3>2 DEF Fresh
        <4>2. CASE stored' = stored
          BY <3>1, <4>1, <4>2 DEF WritesOf
        <4>3. ASSUME NEW r \in Requests, Puts(r)
              PROVE  WritesOf(q) \intersect stored' = {}
          <5>1. q # r
            BY <4>1, <4>3 DEF Puts, InFlight
          <5> QED BY <4>1, <4>3, <5>1, OwnWrites
        <4> QED BY <2>1, <3>1, <4>2, <4>3, WirePuts DEF WritesOf
      <3> QED BY <2>2, <3>2 DEF Fresh
    <2>4. AnsweredLate'
      BY <1>1, <1>6
         DEF ConnectionLost, Restart, AnsweredLate, TypeOK, InFlight, Places, hvars
    <2> QED BY <2>3, <2>4
  <1>7. CASE UNCHANGED vars
    BY <1>7 DEF vars, hvars, dvars, Fresh, AnsweredLate, WritesOf
  <1> QED BY <1>4, <1>5, <1>6, <1>7 DEF Next

-----------------------------------------------------------------------------
(* The steps, seen as the Service's.                                        *)

Phases  == [r \in Requests |-> Phase(r)]
Effects == [r \in Requests |-> Effect(r)]

(* What is stored of each request depends on nothing else.                  *)
LEMMA EffectsStay ==
    kind' = kind /\ stored' = stored => Effects' = Effects
  BY DEF Effects, Effect, WritesOf

(* What sort of request each is never changes.                             *)
LEMMA SortsStay ==
    kind' = kind => UNCHANGED [r \in Requests |-> Sort(r)]
  BY DEF Sort

(* A request that moves changes its own phase.                             *)
LEMMA PhaseMoves ==
    ASSUME TypeOK, NEW r \in Requests, at' = [at EXCEPT ![r] = at'[r]]
    PROVE  Phases' = [Phases EXCEPT ![r] = Phase(r)']
  BY DEF TypeOK, Phases, Phase

(* As long as it runs, no phase changes.                                    *)
LEMMA PhaseStays ==
    ASSUME TypeOK, NEW r \in Requests, at' = [at EXCEPT ![r] = at'[r]],
           at[r] \in InFlight, at'[r] \in InFlight
    PROVE  Phases' = Phases
  <1>1. Phase(r) = "running" /\ Phase(r)' = "running"
    BY DEF Phase, InFlight
  <1>2. ASSUME NEW q \in Requests, q # r PROVE Phase(q)' = Phase(q)
    <2>1. at'[q] = at[q]
      BY <1>2 DEF TypeOK
    <2> QED BY <2>1 DEF Phase
  <1> QED BY <1>1, <1>2 DEF Phases

(* What is put takes effect, entirely or, of an upload, in part.            *)
LEMMA PutsStores ==
    ASSUME ServiceInv, kind' = kind, NEW r \in Requests, Puts(r)
    PROVE  S!Stores(r)
  <1> USE RequestsAssumption DEF ServiceInv, AloneInv, LeakInv
  <1>1. /\ TypeOK /\ at[r] \in InFlight /\ conn = "up" /\ kind[r] # "getData"
        /\ stored' = stored \union
               (IF FilesUnread(r) THEN {<<r, "first">>} ELSE WritesOf(r))
    BY DEF Puts
  <1>2. WritesOf(r) \intersect stored = {} /\ Effect(r) = "none"
    BY <1>1 DEF Fresh, Effect
  <1>3. WritesOf(r) # {} /\ (kind[r] = "addData" =>
            WritesOf(r) = {<<r, "first">>, <<r, "second">>})
    BY <1>1, AllWrites DEF TwoWrites
  <1>4. FilesUnread(r) <=> code[r] = "fail"
    <2>1. code[r] = "fail" => at[r] = "commit" /\ kind[r] = "addData"
      BY <1>1 DEF AnsweredLate, Puts
    <2> QED BY <2>1 DEF FilesUnread
  <1>5. Effect(r)' = IF code[r] = "fail" THEN "part" ELSE "all"
    <2>1. WritesOf(r)' = WritesOf(r)
      BY DEF WritesOf
    <2>2. CASE FilesUnread(r)
      <3>1. /\ WritesOf(r) = {<<r, "first">>, <<r, "second">>}
            /\ stored' = stored \union {<<r, "first">>}
        BY <1>1, <1>3, <2>2 DEF FilesUnread
      <3>2. <<r, "second">> \notin stored' /\ <<r, "first">> \in stored'
        BY <1>2, <3>1
      <3> QED BY <1>4, <2>1, <2>2, <3>1, <3>2 DEF Effect
    <2>3. CASE ~FilesUnread(r)
      <3>1. WritesOf(r) \subseteq stored'
        BY <1>1, <2>3
      <3> QED BY <1>3, <1>4, <2>1, <2>3, <3>1 DEF Effect
    <2> QED BY <2>2, <2>3
  <1>6. \A q \in Requests : q # r => Effect(q)' = Effect(q)
    <2> SUFFICES ASSUME NEW q \in Requests, q # r PROVE Effect(q)' = Effect(q)
      OBVIOUS
    <2>1. WritesOf(q)' = WritesOf(q)
      BY DEF WritesOf
    <2>2. WritesOf(q) \intersect stored' = WritesOf(q) \intersect stored
      BY OwnWrites
    <2> QED BY <2>1, <2>2 DEF Effect
  <1>7. Effects' = [Effects EXCEPT ![r] = IF code[r] = "fail" THEN "part" ELSE "all"]
    BY <1>5, <1>6 DEF Effects
  <1>8. Phase(r) = "running"
    BY <1>1 DEF Phase, InFlight
  <1>9. code[r] = "fail" => kind[r] = "addData"
    BY <1>4 DEF FilesUnread
  <1> QED
    BY <1>1, <1>2, <1>7, <1>8, <1>9
       DEF S!Stores, S!Running, Effects, Sort

(* A request that runs has nothing stored unless the connection is lost.    *)
LEMMA RunsUnstored ==
    ASSUME ServiceInv, NEW r \in Requests, at[r] \in InFlight
    PROVE  S!Unstored(r) /\ S!Running(r)
  BY DEF ServiceInv, Fresh, S!Unstored, S!Running, Effect, Phase, InFlight

(* Every step of a handler is one of the Service's, or is not seen.         *)
LEMMA StepServes ==
    ASSUME ServiceInv, NEW r \in Requests, Step(r)
    PROVE  S!Next \/ UNCHANGED S!vars
  <1> USE RequestsAssumption
  <1>0. TypeOK
    BY DEF ServiceInv, AloneInv, LeakInv
  <1>1. CASE MovesOn(r)
    <2>1. Phases' = Phases
      BY <1>0, <1>1, PhaseStays DEF MovesOn, Runs
    <2> QED BY <1>1, <2>1, EffectsStay, SortsStay
            DEF MovesOn, Runs, S!vars, Phases, Effects
  <1>2. ASSUME NEW answer \in {"ok", "fail"}, Decides(r, answer)
        PROVE  S!Next
    <2>1. at[r] \in InFlight /\ at'[r] \in InFlight
      BY <1>2 DEF Decides, Runs, InFlight, Places
    <2>2. Phases' = Phases
      BY <1>0, <1>2, <2>1, PhaseStays DEF Decides, Runs
    <2>3. answer = "ok" => Sort(r) = "upload"
      BY <1>2 DEF Decides, Sort
    <2>4. S!Decide(r, answer)
      BY <1>2, <2>1, <2>2, <2>3, RunsUnstored, EffectsStay, SortsStay
         DEF Decides, Runs, S!Decide, S!Tells, Phases, Effects
    <2> QED BY <2>4 DEF S!Next
  <1>3. ASSUME NEW answer \in {"ok", "fail"}, Finishes(r, answer)
        PROVE  S!Ends(r) /\ S!Tells(r, answer)
    <2>1. Phases' = [Phases EXCEPT ![r] = "over"] /\ at[r] \in InFlight
      BY <1>0, <1>3, PhaseMoves DEF Finishes, Runs, Phases, Phase, InFlight
    <2> QED BY <1>3, <2>1, RunsUnstored DEF Finishes, S!Ends, S!Tells, Phases
  <1>4. CASE Succeeds(r)
    <2>1. S!Ends(r) /\ S!Tells(r, "ok")
      BY <1>3, <1>4 DEF Succeeds
    <2>2. kind' = kind /\ conn' = conn
      BY <1>4 DEF Succeeds, Finishes, Runs
    <2>3. S!Stores(r) \/ (Sort(r) = "read" /\ Effects' = Effects)
      BY <1>4, <2>2, PutsStores, EffectsStay DEF Succeeds, Sort
    <2>4. S!Succeed(r)
      BY <2>1, <2>2, <2>3, SortsStay DEF S!Succeed, Effects
    <2> QED BY <2>4 DEF S!Next
  <1>5. CASE GivesUp(r)
    <2>1. S!Ends(r) /\ S!Tells(r, "fail")
      BY <1>3, <1>5 DEF GivesUp
    <2>2. kind' = kind /\ stored' = stored /\ at[r] \in InFlight
      BY <1>5 DEF GivesUp, Finishes, Runs
    <2>3. S!Fail(r)
      BY <1>5, <2>1, <2>2, RunsUnstored, EffectsStay, SortsStay
         DEF GivesUp, S!Fail, Effects
    <2> QED BY <2>3 DEF S!Next
  <1> QED BY <1>1, <1>2, <1>4, <1>5, StepIsSeen

(* So are arrivals, and what happens to the connection and the process.     *)
LEMMA NextServes ==
    ASSUME ~Overlapping, ServiceInv, [Next]_vars
    PROVE  S!Next \/ UNCHANGED S!vars
  <1> USE RequestsAssumption
  <1>0. TypeOK
    BY DEF ServiceInv, AloneInv, LeakInv
  <1>1. ASSUME NEW r \in Requests, Arrive(r) PROVE S!Next
    <2>1. /\ at[r] = "idle" /\ \A q \in Requests : at[q] \notin InFlight
          /\ at' = [at EXCEPT ![r] = Handler[kind[r]]["idle"]]
          /\ kind' = kind /\ stored' = stored /\ conn' = conn
      BY <1>1 DEF Arrive, GoesOn, Goes, dvars
    <2>2. Handler[kind[r]]["idle"] \in {"begin", "lookup"}
      BY <1>0, Routes DEF TypeOK
    <2>3. code' = code
      BY <1>1, <2>1, <2>2 DEF Arrive, GoesOn
    <2>4. Phases' = [Phases EXCEPT ![r] = "running"]
      <3>1. at'[r] \in {"begin", "lookup"} /\ at' = [at EXCEPT ![r] = at'[r]]
        BY <1>0, <2>1, <2>2 DEF TypeOK
      <3> QED BY <1>0, <3>1, PhaseMoves DEF Phase, InFlight, Places
    <2>5. Phase(r) = "waiting" /\ \A q \in Requests : Phase(q) # "running"
      BY <2>1 DEF Phase
    <2>6. S!Start(r)
      BY <2>1, <2>3, <2>4, <2>5, EffectsStay, SortsStay
         DEF S!Start, S!Running, Phases, Effects
    <2> QED BY <2>6 DEF S!Next
  <1>2. ASSUME kind' = kind, stored' = stored \/ \E r \in Requests : Puts(r)
        PROVE  S!StoredOrNot
    BY <1>2, PutsStores, EffectsStay DEF S!StoredOrNot, Effects
  <1>3. CASE ConnectionLost
    <2>1. S!StoredOrNot
      BY <1>2, <1>3, WirePuts DEF ConnectionLost, Breaks, hvars, ServiceInv
    <2>2. Phases' = Phases
      BY <1>3 DEF ConnectionLost, hvars, Phases, Phase
    <2>3. S!LinkLost
      BY <1>3, <2>1, <2>2, SortsStay
         DEF ConnectionLost, Breaks, hvars, S!LinkLost, Phases
    <2> QED BY <2>3 DEF S!Next
  <1>4. CASE Restart
    <2>1. S!StoredOrNot
      BY <1>2, <1>4, WirePuts DEF Restart, ServiceInv
    <2>2. \A r \in Requests :
             Phase(r)' = IF Phase(r) = "running" THEN "over" ELSE Phase(r)
      BY <1>0, <1>4 DEF Restart, Phase, TypeOK, InFlight, Places
    <2>3. \A r \in Requests : Phase(r) = "running" <=> at[r] \in InFlight
      BY DEF Phase, InFlight
    <2>4. S!Restart
      BY <1>4, <2>1, <2>2, <2>3, SortsStay
         DEF Restart, S!Restart, S!Running
    <2> QED BY <2>4 DEF S!Next
  <1>5. CASE UNCHANGED vars
    <2>1. Phases' = Phases /\ Effects' = Effects
      BY <1>5, EffectsStay DEF vars, hvars, dvars, Phases, Phase
    <2> QED BY <1>5, <2>1, SortsStay DEF vars, hvars, dvars, S!vars, Phases, Effects
  <1> QED BY <1>1, <1>3, <1>4, <1>5, StepServes DEF Next

(* The first states are first states of the Service.                        *)
LEMMA StartServes == Init => S!Init
  <1> SUFFICES ASSUME Init PROVE S!Init
    OBVIOUS
  <1>1. /\ \A r \in Requests : Phase(r) = "waiting" /\ Effect(r) = "none"
        /\ conn = "up" /\ code = [r \in Requests |-> "none"]
    BY DEF Init, Phase, Effect
  <1>2. [r \in Requests |-> Sort(r)] \in [Requests -> {"read", "write", "upload"}]
    BY DEF Sort
  <1> QED BY <1>1, <1>2 DEF S!Init

(* What a handler writes that does not overlap others is not stored before  *)
(* it commits, and its answer is not decided before its last steps.         *)
THEOREM ServiceInvariant == ~Overlapping => (Spec => []ServiceInv)
  <1> SUFFICES ASSUME ~Overlapping PROVE Spec => []ServiceInv
    OBVIOUS
  <1>1. ServiceInv /\ [Next]_vars => ServiceInv'
    BY ServiceStep
  <1> QED BY <1>1, ServiceStart, PTL DEF Spec

(* Requests that do not overlap keep the promises of Service: whoever is    *)
(* told of failure, and the connection lasted, is not stored; whoever is    *)
(* told of success is.                                                      *)
THEOREM RequestsServe == ~Overlapping => (Spec => ImplementsService)
  <1> SUFFICES ASSUME ~Overlapping PROVE Spec => ImplementsService
    OBVIOUS
  <1>1. ServiceInv /\ [Next]_vars => ServiceInv'
    BY ServiceStep
  <1>2. ServiceInv /\ [Next]_vars => [S!Next]_(S!vars)
    BY NextServes
  <1> QED
    BY <1>1, <1>2, ServiceStart, StartServes, PTL
       DEF Spec, ImplementsService, S!Spec

-----------------------------------------------------------------------------
(* What clients are told by an error.                                       *)

Connected == conn = "up"

FailureIsUnstored ==
    \A r \in Requests :
        at[r] \notin InFlight /\ code[r] = "fail" /\ kind[r] # "addData" =>
            WritesOf(r) \intersect stored = {}

LEMMA FailureStep ==
    ASSUME ServiceInv, FailureIsUnstored, Connected, Connected', [Next]_vars
    PROVE  FailureIsUnstored'
  <1> USE RequestsAssumption
  <1>0. TypeOK
    BY DEF ServiceInv, AloneInv, LeakInv
  <1>1. ASSUME NEW r \in Requests, Step(r) PROVE FailureIsUnstored'
    <2>1. /\ \/ MovesOn(r) \/ Succeeds(r) \/ GivesUp(r)
             \/ \E answer \in {"ok", "fail"} : Decides(r, answer)
          /\ Runs(r)
          /\ stored' = stored \/ Puts(r)
      <3>1. \/ MovesOn(r) \/ Succeeds(r) \/ GivesUp(r)
            \/ \E answer \in {"ok", "fail"} : Decides(r, answer)
        BY <1>1, StepIsSeen
      <3> QED BY <3>1 DEF MovesOn, Decides, Succeeds, GivesUp, Finishes
    <2>2. \A q \in Requests : WritesOf(q)' = WritesOf(q)
      BY <2>1 DEF Runs, WritesOf
    <2>3. ASSUME NEW q \in Requests, q # r,
                 at'[q] \notin InFlight, code'[q] = "fail", kind'[q] # "addData"
          PROVE  WritesOf(q) \intersect stored' = {}
      <3>1. at'[q] = at[q] /\ code'[q] = code[q] /\ kind' = kind
        BY <1>0, <2>1, <2>3
           DEF MovesOn, Decides, Succeeds, GivesUp, Finishes, Runs, TypeOK
      <3>2. WritesOf(q) \intersect stored = {}
        BY <2>3, <3>1 DEF FailureIsUnstored
      <3>3. WritesOf(q) \intersect stored' = WritesOf(q) \intersect stored
        BY <2>1, <2>3, OwnWrites
      <3> QED BY <3>2, <3>3
    <2>4. ASSUME at'[r] \notin InFlight, code'[r] = "fail", kind'[r] # "addData"
          PROVE  WritesOf(r) \intersect stored' = {}
      <3>1. kind' = kind /\ at[r] \in InFlight
        BY <2>1 DEF Runs
      <3>2. CASE GivesUp(r)
        BY <3>1, <3>2 DEF GivesUp, ServiceInv, Fresh, Connected
      <3>3. CASE Succeeds(r)
        <4>1. code'[r] = IF code[r] = "none" THEN "ok" ELSE code[r]
          BY <1>0, <3>3 DEF Succeeds, Finishes, TypeOK
        <4>2. code[r] = "fail"
          BY <2>4, <4>1
        <4>3. at[r] = "rollback"
          BY <2>4, <3>1, <4>2 DEF ServiceInv, AnsweredLate
        <4>4. stored' = stored
          BY <3>3, <4>3 DEF Succeeds, Puts
        <4> QED BY <3>1, <4>4 DEF ServiceInv, Fresh, Connected
      <3>4. CASE MovesOn(r) \/ \E answer \in {"ok", "fail"} : Decides(r, answer)
        BY <2>4, <3>4 DEF MovesOn, Decides, InFlight, Places
      <3> QED BY <2>1, <3>2, <3>3, <3>4
    <2> QED BY <2>2, <2>3, <2>4 DEF FailureIsUnstored
  <1>2. ASSUME NEW r \in Requests, Arrive(r) PROVE FailureIsUnstored'
    <2>1. /\ at[r] = "idle" /\ kind' = kind /\ stored' = stored
          /\ at' = [at EXCEPT ![r] = Handler[kind[r]]["idle"]]
      BY <1>2 DEF Arrive, GoesOn, Goes, dvars
    <2>2. Handler[kind[r]]["idle"] \in {"begin", "lookup"}
      BY <1>0, Routes DEF TypeOK
    <2>3. code' = code
      BY <1>2, <2>1, <2>2 DEF Arrive, GoesOn
    <2> QED BY <1>0, <2>1, <2>2, <2>3
            DEF FailureIsUnstored, WritesOf, TypeOK, InFlight, Places
  <1>3. CASE Restart
    <2>1. stored' = stored \/ \E r \in Requests : Puts(r)
      BY <1>3, WirePuts DEF Restart, ServiceInv
    <2>2. ASSUME NEW q \in Requests,
                 at'[q] \notin InFlight, code'[q] = "fail", kind'[q] # "addData"
          PROVE  WritesOf(q) \intersect stored' = {}
      <3>1. at[q] \notin InFlight /\ code[q] = "fail" /\ kind' = kind
        BY <1>0, <1>3, <2>2 DEF Restart, TypeOK
      <3>2. WritesOf(q) \intersect stored = {}
        BY <2>2, <3>1 DEF FailureIsUnstored
      <3>3. ASSUME NEW r \in Requests, Puts(r)
            PROVE  WritesOf(q) \intersect stored' = WritesOf(q) \intersect stored
        <4>1. q # r
          BY <3>1, <3>3 DEF Puts
        <4> QED BY <3>3, <4>1, OwnWrites
      <3> QED BY <2>1, <3>2, <3>3
    <2> QED BY <1>3, <2>2 DEF FailureIsUnstored, Restart, WritesOf
  <1>4. CASE ConnectionLost
    BY <1>4 DEF ConnectionLost, Breaks, Connected
  <1>5. CASE UNCHANGED vars
    BY <1>5 DEF vars, hvars, dvars, FailureIsUnstored, WritesOf
  <1> QED BY <1>1, <1>2, <1>3, <1>4, <1>5 DEF Next

(* As long as the connection lasts, a request that does not overlap another *)
(* and is answered with an error has changed nothing, uploads excepted.     *)
THEOREM FailureMeansUnstored ==
    ~Overlapping => (Spec /\ []Connected => []FailureIsUnstored)
  <1> SUFFICES ASSUME ~Overlapping
               PROVE  Spec /\ []Connected => []FailureIsUnstored
    OBVIOUS
  <1>1. ServiceInv /\ [Next]_vars => ServiceInv'
    BY ServiceStep
  <1>2. Init => FailureIsUnstored
    BY DEF Init, FailureIsUnstored
  <1>3. ServiceInv /\ FailureIsUnstored /\ Connected /\ Connected' /\ [Next]_vars
            => FailureIsUnstored'
    BY FailureStep
  <1> QED BY <1>1, <1>2, <1>3, ServiceStart, PTL DEF Spec
=============================================================================
