--------------------------- MODULE AccountsProofs ---------------------------
(***************************************************************************)
(* The properties of Accounts, for any number of requests, users, machines  *)
(* and items.                                                               *)
(***************************************************************************)
EXTENDS AccountsInvariant, TLAPS

-----------------------------------------------------------------------------
(* Keys and tokens.                                                         *)

(* What VerifyJWT accepts is signed with the key pair of the file, by an    *)
(* algorithm that goes with the key, and expires later or, for an EC key,   *)
(* never: of all tokens, those with fractions of a second too.              *)
LEMMA VerifiedIsGenuine ==
    ASSUME NEW token \in TokenForms, NEW file \in KeyFiles, VerifyJWT(token, file)
    PROVE  Genuine(token, file)
<1>1. token.signer = file.pair
    BY DEF VerifyJWT, VerifyMLDSAJWT
<1>2. FitsKey(token.alg, file)
    BY DEF VerifyJWT, FitsKey, ParseMLDSAPublicKey, EC, MLDSA
<1>3. token.exp # Missing => token.exp \in Int
    BY DEF TokenForms
<1>4. Int64Exp(token) > Now => token.exp # Missing /\ token.exp > 2 * Now
    <2>1. CASE token.exp = Missing
        BY <2>1, TokensAssumption DEF Int64Exp
    <2>2. CASE token.exp # Missing /\ token.exp >= 0
        BY <1>3, <2>2, TokensAssumption DEF Int64Exp
    <2>3. CASE token.exp # Missing /\ ~(token.exp >= 0)
        BY <1>3, <2>3, TokensAssumption DEF Int64Exp
    <2> QED BY <2>1, <2>2, <2>3
<1>5. Int64Exp(token) = 0 => NeverExpires(token)
    <2>1. CASE token.exp # Missing /\ token.exp >= 0
        BY <1>3, <2>1 DEF Int64Exp, NeverExpires
    <2>2. CASE token.exp # Missing /\ ~(token.exp >= 0)
        BY <1>3, <2>2 DEF Int64Exp, NeverExpires
    <2> QED BY <2>1, <2>2 DEF NeverExpires
<1>6. CASE token.alg \in EC /\ ECUnexpired(token)
    BY <1>1, <1>2, <1>4, <1>5, <1>6 DEF Genuine, ECUnexpired
<1>7. CASE VerifyMLDSAJWT(token, file)
    BY <1>1, <1>2, <1>4, <1>7 DEF Genuine, VerifyMLDSAJWT
<1> QED BY <1>6, <1>7 DEF VerifyJWT

(* A key that validates is one its owner can sign accepted tokens with.     *)
LEMMA ValidCanSign ==
    ASSUME NEW file \in KeyFiles, ValidatePublicKey(file)
    PROVE  \E alg \in EC \union MLDSA : VerifyJWT(Fresh(alg, file), file)
<1>1. \A alg : ~(Fresh(alg, file).exp = Missing)
    <2>1. 2 * (Now + 1) \in Int
        BY TokensAssumption
    <2> QED BY <2>1, TokensAssumption DEF Fresh
<1>2. \A alg : Int64Exp(Fresh(alg, file)) > Now
    <2>1. 2 * (Now + 1) >= 0 /\ (2 * (Now + 1)) \div 2 = Now + 1 /\ Now + 1 > Now
        BY TokensAssumption
    <2> QED BY <1>1, <2>1 DEF Int64Exp, Fresh
<1>3. CASE DetectKeyType(file) = "ECDSA" /\ file.content = "EC"
    <2>1. file.block = "PUBLIC KEY"
        BY <1>3 DEF DetectKeyType, KeyFiles, Blocks
    <2>2. VerifyJWT(Fresh("ES256", file), file)
        BY <1>2, <1>3, <2>1 DEF VerifyJWT, Fresh, ECUnexpired, EC
    <2> QED BY <2>2 DEF EC
<1>4. ASSUME NEW alg \in MLDSA, ParseMLDSAPublicKey(file, alg)
      PROVE  VerifyJWT(Fresh(alg, file), file)
    BY <1>2, <1>4 DEF VerifyJWT, VerifyMLDSAJWT, Fresh
<1> QED BY <1>3, <1>4 DEF ValidatePublicKey

-----------------------------------------------------------------------------
(* The handlers' places.                                                    *)

LastPlaces == {"answer", "reply", "update", "clear", "commit", "rollback", "done"}

LEMMA Routes ==
    ASSUME NEW k \in Kinds, NEW p \in PlacesOf(k)
    PROVE  /\ p \in Places
           /\ p \notin LastPlaces => /\ p \in DOMAIN Handler[k]
                                     /\ Handler[k][p] # "idle"
                                     /\ Handler[k][p] = "user" => p = "idle"
           /\ p = "idle" /\ k = "initialSetup" => Handler[k][p] = "begin"
           /\ p = "idle" /\ k # "initialSetup" => Handler[k][p] = "user"
           /\ p = "user" => /\ k # "initialSetup"
                            /\ Handler[k][p] =
                                 IF k = "newMachineChallenge" THEN "freeName" ELSE "machine"
           /\ p = "machine" =>
                /\ k \notin {"initialSetup", "newMachineChallenge"}
                /\ Handler[k][p] \in {"answer", "noRotation", "findKey", "list",
                                      "pending", "findNamed", "update", "clear"}
                /\ Handler[k][p] = "update" => k = "updateMachineKey"
           /\ p \in {"newUser", "addUser"} => k = "initialSetup"
           /\ p = "newUser" => Handler[k][p] = "addUser"
           /\ p = "addUser" => Handler[k][p] = "newName"
           /\ p \in {"newName", "addMachine"} => k \in {"initialSetup", "newMachineChallenge"}
           /\ p = "newName" => Handler[k][p] = "addMachine"
           /\ p = "addMachine" =>
                Handler[k][p] = IF k = "initialSetup" THEN "commit" ELSE "done"
           /\ p \in {"freeName", "challenge"} => k = "newMachineChallenge"
           /\ p = "freeName" => Handler[k][p] = "challenge"
           /\ p = "answer" => k = "challengeResponse"
           /\ p \in {"noRotation", "store"} => k = "addData"
           /\ p = "noRotation" => Handler[k][p] = "begin"
           /\ p \in {"findKey", "deleteKey"} => k = "deleteData"
           /\ p = "findKey" => Handler[k][p] = "begin"
           /\ p = "list" /\ k = "postKeyRotation" => Handler[k][p] = "begin"
           /\ p = "list" /\ k # "postKeyRotation" =>
                k = "getMachines" /\ Handler[k][p] = "reply"
           /\ p = "pending" => k = "getKeyRotation" /\ Handler[k][p] = "reply"
           /\ p = "findNamed" => k = "deleteMachine" /\ Handler[k][p] = "begin"
           /\ p = "begin" => /\ k \in TxKinds
                             /\ k = "initialSetup"    => Handler[k][p] = "newUser"
                             /\ k = "addData"         => Handler[k][p] = "store"
                             /\ k = "deleteData"      => Handler[k][p] = "deleteKey"
                             /\ k = "postKeyRotation" => Handler[k][p] = "upsert"
                             /\ k = "deleteMachine"   => Handler[k][p] = "remove"
           /\ p = "upsert" => k = "postKeyRotation"
           /\ p = "remove" => k = "deleteMachine"
           /\ p \in {"store", "deleteKey", "upsert", "remove"} => Handler[k][p] = "commit"
           /\ p = "update" => k = "updateMachineKey"
           /\ p = "clear" => k = "deleteKeyRotation"
           /\ p = "reply" => k \in {"getKeyRotation", "getMachines"}
           /\ p \in {"commit", "rollback"} => k \in TxKinds
<1> USE DEF Places, LastPlaces, Finding, Writing, Waiting, TxKinds
<1>1. k \in {"initialSetup", "newMachineChallenge", "challengeResponse", "addData",
             "deleteData", "postKeyRotation", "getKeyRotation", "deleteKeyRotation",
             "getMachines", "deleteMachine", "updateMachineKey"}
    BY DEF Kinds, Handler
<1>2. CASE k = "initialSetup"
    <2>1. Handler[k] = InitialSetup
        BY <1>2 DEF Handler
    <2>2. p \in {"idle", "begin", "newUser", "addUser", "newName",
                      "addMachine", "commit", "rollback", "done"}
        BY <1>2, <2>1 DEF PlacesOf, TxKinds, InitialSetup
    <2> QED BY <1>2, <2>1, <2>2 DEF InitialSetup
<1>3. CASE k = "newMachineChallenge"
    <2>1. Handler[k] = NewMachineChallenge
        BY <1>3 DEF Handler
    <2>2. p \in {"idle", "user", "freeName", "challenge", "newName",
                      "addMachine", "done"}
        BY <1>3, <2>1 DEF PlacesOf, TxKinds, NewMachineChallenge
    <2> QED BY <1>3, <2>1, <2>2 DEF NewMachineChallenge
<1>4. CASE k = "challengeResponse"
    <2>1. Handler[k] = ChallengeResponse
        BY <1>4 DEF Handler
    <2>2. p \in {"idle", "user", "machine", "answer", "done"}
        BY <1>4, <2>1 DEF PlacesOf, TxKinds, ChallengeResponse
    <2> QED BY <1>4, <2>1, <2>2 DEF ChallengeResponse
<1>5. CASE k = "addData"
    <2>1. Handler[k] = AddData
        BY <1>5 DEF Handler
    <2>2. p \in {"idle", "user", "machine", "noRotation", "begin",
                      "store", "commit", "rollback", "done"}
        BY <1>5, <2>1 DEF PlacesOf, TxKinds, AddData
    <2> QED BY <1>5, <2>1, <2>2 DEF AddData
<1>6. CASE k = "deleteData"
    <2>1. Handler[k] = DeleteData
        BY <1>6 DEF Handler
    <2>2. p \in {"idle", "user", "machine", "findKey", "begin",
                      "deleteKey", "commit", "rollback", "done"}
        BY <1>6, <2>1 DEF PlacesOf, TxKinds, DeleteData
    <2> QED BY <1>6, <2>1, <2>2 DEF DeleteData
<1>7. CASE k = "postKeyRotation"
    <2>1. Handler[k] = PostKeyRotation
        BY <1>7 DEF Handler
    <2>2. p \in {"idle", "user", "machine", "list", "begin", "upsert",
                      "commit", "rollback", "done"}
        BY <1>7, <2>1 DEF PlacesOf, TxKinds, PostKeyRotation
    <2> QED BY <1>7, <2>1, <2>2 DEF PostKeyRotation
<1>8. CASE k = "getKeyRotation"
    <2>1. Handler[k] = GetKeyRotation
        BY <1>8 DEF Handler
    <2>2. p \in {"idle", "user", "machine", "pending", "reply", "done"}
        BY <1>8, <2>1 DEF PlacesOf, TxKinds, GetKeyRotation
    <2> QED BY <1>8, <2>1, <2>2 DEF GetKeyRotation
<1>9. CASE k = "deleteKeyRotation"
    <2>1. Handler[k] = DeleteKeyRotation
        BY <1>9 DEF Handler
    <2>2. p \in {"idle", "user", "machine", "clear", "done"}
        BY <1>9, <2>1 DEF PlacesOf, TxKinds, DeleteKeyRotation
    <2> QED BY <1>9, <2>1, <2>2 DEF DeleteKeyRotation
<1>10. CASE k = "getMachines"
    <2>1. Handler[k] = GetMachines
        BY <1>10 DEF Handler
    <2>2. p \in {"idle", "user", "machine", "list", "reply", "done"}
        BY <1>10, <2>1 DEF PlacesOf, TxKinds, GetMachines
    <2> QED BY <1>10, <2>1, <2>2 DEF GetMachines
<1>11. CASE k = "deleteMachine"
    <2>1. Handler[k] = DeleteMachine
        BY <1>11 DEF Handler
    <2>2. p \in {"idle", "user", "machine", "findNamed", "begin",
                      "remove", "commit", "rollback", "done"}
        BY <1>11, <2>1 DEF PlacesOf, TxKinds, DeleteMachine
    <2> QED BY <1>11, <2>1, <2>2 DEF DeleteMachine
<1>12. CASE k = "updateMachineKey"
    <2>1. Handler[k] = UpdateMachineKey
        BY <1>12 DEF Handler
    <2>2. p \in {"idle", "user", "machine", "update", "done"}
        BY <1>12, <2>1 DEF PlacesOf, TxKinds, UpdateMachineKey
    <2> QED BY <1>12, <2>1, <2>2 DEF UpdateMachineKey
<1> QED BY <1>1, <1>2, <1>3, <1>4, <1>5, <1>6, <1>7, <1>8, <1>9, <1>10, <1>11, <1>12

-----------------------------------------------------------------------------
(* What a step of a handler is: where it goes and what it then knows.       *)

To(r) == Handler[Kind(r)][at[r]]

MovesTo(r, p, l) ==
    /\ at' = [at EXCEPT ![r] = p]
    /\ local' = [local EXCEPT ![r] = l]

LeavesEarly(r) ==
    \E p \in {"done", "rollback"} \cap PlacesOf(Kind(r)) :
       (p = "rollback" => InTx(r)) /\ MovesTo(r, p, Blank)

Starts(r) == at[r] = "idle" /\ Admitted(ask[r]) /\ MovesTo(r, To(r), Blank)

GoesOn(r) ==
    /\ at[r] \in {"newUser", "freeName", "newName", "noRotation", "begin", "addMachine",
                  "store", "deleteKey", "upsert", "remove"}
    /\ MovesTo(r, To(r), local[r]) /\ To(r) # "done"
    /\ at[r] = "newUser" => \A u \in view.users : u.name # ask[r].user
    /\ at[r] = "newName" => Named(local[r].acct, ask[r].machine) = {}
    /\ at[r] = "noRotation" => \A x \in view.rotations : x.machine # local[r].who.id

FindsUser(r) ==
    /\ at[r] = "user"
    /\ \E a \in Ids : MovesTo(r, To(r), [local[r] EXCEPT !.acct = a])

FindsMachine(r) ==
    /\ at[r] = "machine"
    /\ \E m \in Named(local[r].acct, ask[r].machine) :
          /\ VerifyJWT(ask[r].token, m.key)
          /\ Kind(r) = "updateMachineKey" => ValidatePublicKey(ask[r].key)
          /\ MovesTo(r, To(r), [local[r] EXCEPT !.who = m])

LooksUp(r) ==
    /\ at[r] \in {"findKey", "list", "pending", "findNamed"}
    /\ \E s \in SUBSET Ids :
          /\ MovesTo(r, To(r), [local[r] EXCEPT !.seen = s])
          /\ at[r] = "list" => s \subseteq Mine(r)
          /\ at[r] = "findNamed" =>
                \E m \in Named(local[r].acct, ask[r].name) : s = {m.id}

Posts(r) ==
    /\ at[r] = "upsert"
    /\ \E s \in SUBSET local[r].seen : MovesTo(r, "upsert", [local[r] EXCEPT !.seen = s])

IsNewUser(r) ==
    at[r] = "addUser" /\ MovesTo(r, To(r), [local[r] EXCEPT !.acct = r])

Moves(r) ==
    \/ LeavesEarly(r) \/ Starts(r) \/ GoesOn(r) \/ FindsUser(r) \/ FindsMachine(r)
    \/ LooksUp(r) \/ Posts(r) \/ IsNewUser(r)

LEMMA AskTypes ==
    ASSUME TypeOK, NEW r \in Requests
    PROVE  /\ ask[r] \in AskForms
           /\ Kind(r) \in Kinds
           /\ ask[r].user \in Usernames /\ ask[r].machine \in Names
           /\ ask[r].token \in TokenForms /\ ask[r].key \in KeyFiles
           /\ ask[r].item \in Items /\ ask[r].entries \subseteq Ids
<1>1. ask[r] \in AskForms
    BY AccountsAssumption DEF TypeOK
<1> QED BY <1>1 DEF AskForms, Kind

(* Where a handler goes on to is a place of its kind.                      *)
LEMMA Destination ==
    ASSUME TypeOK, NEW r \in Requests, at[r] \notin LastPlaces
    PROVE  To(r) \in PlacesOf(Kind(r)) /\ To(r) \in Places
<1>1. Kind(r) \in Kinds /\ at[r] \in PlacesOf(Kind(r))
    BY AskTypes DEF TypeOK
<1>2. at[r] \in DOMAIN Handler[Kind(r)]
    BY <1>1, Routes
<1>3. To(r) \in PlacesOf(Kind(r))
    BY <1>2 DEF To, PlacesOf
<1> QED BY <1>1, <1>3, Routes

LEMMA Leaving ==
    ASSUME TypeOK, NEW r \in Requests, Ends(r) \/ GivesUp(r)
    PROVE  LeavesEarly(r)
<1>1. Kind(r) \in Kinds /\ at[r] \in PlacesOf(Kind(r))
    BY AskTypes DEF TypeOK
<1>2. InTx(r) => Kind(r) \in TxKinds
    BY <1>1, Routes DEF InTx, TxKinds
<1>3. "done" \in PlacesOf(Kind(r)) /\ (InTx(r) => "rollback" \in PlacesOf(Kind(r)))
    BY <1>2 DEF PlacesOf
<1> QED BY <1>3 DEF Ends, GivesUp, Leaves, LeavesEarly, MovesTo

(* A handler that continues either ends or knows what the step says.       *)
LEMMA Continuing ==
    ASSUME TypeOK, NEW r \in Requests, NEW l, Continues(r, l)
    PROVE  LeavesEarly(r) \/ (MovesTo(r, To(r), l) /\ To(r) # "done")
<1>1. CASE To(r) = "done"
    <2>1. Ends(r)
        BY <1>1 DEF Continues, To, Ends, Leaves
    <2> QED BY <2>1, Leaving
<1>2. CASE To(r) # "done"
    BY <1>2 DEF Continues, To, MovesTo
<1> QED BY <1>1, <1>2

LEMMA Looking ==
    ASSUME TypeOK, NEW r \in Requests, at[r] \in {"findKey", "pending"},
           NEW s \in SUBSET Ids, Continues(r, [local[r] EXCEPT !.seen = s])
    PROVE  Moves(r)
<1>1. CASE MovesTo(r, To(r), [local[r] EXCEPT !.seen = s])
    BY <1>1 DEF LooksUp, Moves
<1> QED BY <1>1, Continuing DEF Moves

LEMMA StepMoves ==
    ASSUME TypeOK, NEW r \in Requests, Step(r)
    PROVE  /\ Moves(r)
           /\ ask' = ask
           /\ met' = met \/ Arrive(r)
<1> USE DEF Moves
<1>1. CASE Arrive(r)
    BY <1>1, Continuing, Leaving DEF Arrive, Starts
<1>2. CASE Fails(r)
    BY <1>2, Leaving DEF Fails
<1>3. CASE Abandons(r)
    BY <1>3, Leaving DEF Abandons
<1>4. CASE FindUser(r)
    <2>1. \A u \in view.users : u.id \in Ids
        BY DEF TypeOK, Tables, Users
    <2> QED BY <1>4, <2>1, Continuing, Leaving DEF FindUser, Reads, FindsUser
<1>5. CASE FindMachine(r)
    BY <1>5, Continuing, Leaving DEF FindMachine, Reads, FindsMachine
<1>6. CASE NewUser(r)
    BY <1>6, Continuing, Leaving DEF NewUser, Reads, GoesOn
<1>7. ASSUME NEW place \in {"freeName", "newName"}, CheckName(r, place)
      PROVE  Moves(r) /\ ask' = ask /\ met' = met
    BY <1>7, Continuing, Leaving DEF CheckName, Reads, GoesOn
<1>8. CASE NoRotation(r)
    BY <1>8, Continuing, Leaving DEF NoRotation, Reads, GoesOn
<1>9. CASE FindKey(r)
    <2>1. \A d \in view.data : {d.id} \in SUBSET Ids
        BY DEF TypeOK, Tables, Data
    <2> QED BY <1>9, <2>1, Looking, Leaving DEF FindKey, Reads
<1>10. CASE List(r)
    <2>1. Mine(r) \in SUBSET Ids /\ (Wanted(r) \subseteq Mine(r) => Wanted(r) \in SUBSET Ids)
        BY DEF TypeOK, Tables, Machines, Mine
    <2>2. at[r] = "list" /\ ask' = ask /\ met' = met
        BY <1>10 DEF List, Reads
    <2>3. CASE Ends(r)
        BY <2>2, <2>3, Leaving
    <2>4. CASE /\ Continues(r, [local[r] EXCEPT !.seen = Wanted(r)])
               /\ Wanted(r) \subseteq Mine(r)
        <3>1. CASE MovesTo(r, To(r), [local[r] EXCEPT !.seen = Wanted(r)])
            BY <2>1, <2>2, <2>4, <3>1 DEF LooksUp
        <3> QED BY <2>2, <2>4, <3>1, Continuing
    <2> QED BY <1>10, <2>3, <2>4 DEF List
<1>11. CASE Pending(r)
    <2> DEFINE found == {x \in view.rotations : x.machine = local[r].who.id}
    <2>1. {x.by : x \in found} \in SUBSET Ids
        BY DEF TypeOK, Tables, Rotations, Ids
    <2>2. Ends(r) \/ Continues(r, [local[r] EXCEPT !.seen = {x.by : x \in found}])
        BY <1>11 DEF Pending
    <2>3. at[r] = "pending" /\ ask' = ask /\ met' = met
        BY <1>11 DEF Pending, Reads
    <2> HIDE DEF found
    <2>4. CASE Ends(r)
        BY <2>3, <2>4, Leaving
    <2>5. CASE Continues(r, [local[r] EXCEPT !.seen = {x.by : x \in found}])
        BY <2>1, <2>3, <2>5, Looking
    <2> QED BY <2>2, <2>4, <2>5
<1>12. CASE FindNamed(r)
    <2>1. \A m \in view.machines : m.id \in Ids
        BY DEF TypeOK, Tables, Machines
    <2> QED BY <1>12, <2>1, Continuing, Leaving DEF FindNamed, Reads, LooksUp, Named
<1>13. CASE AddUser(r)
    BY <1>13, Continuing DEF AddUser, Writes, IsNewUser
<1>14. CASE AddMachine(r) \/ Store(r) \/ DeleteKey(r) \/ Remove(r)
    BY <1>14, Continuing DEF AddMachine, Store, DeleteKey, Remove, Writes, GoesOn
<1>15. CASE Unreadable(r) \/ Upserted(r)
    BY <1>15, Continuing DEF Unreadable, Upserted, GoesOn
<1>16. CASE UpdateKey(r) \/ Clear(r)
    BY <1>16, Leaving DEF UpdateKey, Clear, Writes
<1>17. CASE Begin(r)
    BY <1>17, Continuing DEF Begin, GoesOn
<1>18. CASE Commit(r) \/ CommitFails(r) \/ Rollback(r)
    BY <1>18, Leaving DEF Commit, CommitFails, Rollback
<1>19. CASE Upsert(r)
    <2>1. PICK e \in local[r].seen : local' = [local EXCEPT ![r].seen = @ \ {e}]
        BY <1>19 DEF Upsert
    <2>2. at[r] = "upsert" /\ at' = at /\ ask' = ask /\ met' = met
        BY <1>19 DEF Upsert, Writes
    <2>3. MovesTo(r, "upsert", [local[r] EXCEPT !.seen = local[r].seen \ {e}])
        BY <2>1, <2>2 DEF MovesTo, TypeOK
    <2> QED BY <2>2, <2>3 DEF Posts
<1> QED BY <1>1, <1>2, <1>3, <1>4, <1>5, <1>6, <1>7, <1>8, <1>9, <1>10, <1>11, <1>12,
           <1>13, <1>14, <1>15, <1>16, <1>17, <1>18, <1>19 DEF Step

-----------------------------------------------------------------------------
(* Types.                                                                   *)

LEMMA BlankTypes ==
    /\ Blank \in Locals
    /\ Blank.acct = NoOne /\ Blank.who = NoMachine /\ Blank.seen = {}
BY DEF Blank, Locals

HandlersOK ==
    /\ ask \in [Requests -> Asks]
    /\ at \in [Requests -> Places]
    /\ local \in [Requests -> Locals]
    /\ \A r \in Requests :
          /\ at[r] \in PlacesOf(Kind(r))
          /\ InFlight(r) \/ local[r] = Blank
          /\ local[r].acct \in Ids \/ at[r] \in Early
                \/ (Kind(r) = "initialSetup" /\ at[r] = "begin")

TablesOK ==
    /\ view \in Tables /\ saved \in Tables
    /\ tx \in {"none", "open", "failed"}
    /\ tx = "none" => view = saved

LEMMA TypeParts ==
    TypeOK <=> HandlersOK /\ TablesOK /\ met \in [Requests -> SUBSET Requests]
BY DEF TypeOK, HandlersOK, TablesOK

(* The handler that moves is at a place of its kind, and knows as much as   *)
(* it should there; the others are where they were.                         *)
LEMMA MovedTypes ==
    ASSUME HandlersOK, NEW r \in Requests, NEW p \in PlacesOf(Kind(r)) \cap Places,
           NEW l \in Locals, MovesTo(r, p, l), ask' = ask,
           p \in {"idle", "done"} => l = Blank,
           l.acct \in Ids \/ p \in Early \/ (Kind(r) = "initialSetup" /\ p = "begin")
    PROVE  HandlersOK'
<1>1. at' \in [Requests -> Places] /\ local' \in [Requests -> Locals]
    BY DEF HandlersOK, MovesTo
<1>2. at'[r] = p /\ local'[r] = l
    BY DEF HandlersOK, MovesTo
<1>3. \A q \in Requests \ {r} : at'[q] = at[q] /\ local'[q] = local[q]
    BY DEF HandlersOK, MovesTo
<1>4. \A q \in Requests : Kind(q)' = Kind(q)
    BY DEF Kind
<1>5. ask' \in [Requests -> Asks]
    BY DEF HandlersOK
<1>6. ASSUME NEW q \in Requests
      PROVE  /\ at'[q] \in PlacesOf(Kind(q)')
             /\ InFlight(q)' \/ local'[q] = Blank
             /\ local'[q].acct \in Ids \/ at'[q] \in Early
                   \/ (Kind(q)' = "initialSetup" /\ at'[q] = "begin")
    <2>1. CASE q = r
        BY <1>2, <1>4, <2>1 DEF InFlight
    <2>2. CASE q # r
        BY <1>3, <1>4, <2>2 DEF HandlersOK, InFlight
    <2> QED BY <2>1, <2>2
<1> QED BY <1>1, <1>5, <1>6 DEF HandlersOK

LEMMA MovesTypes ==
    ASSUME TypeOK, NEW r \in Requests, Moves(r), ask' = ask
    PROVE  HandlersOK'
<1>1. HandlersOK /\ local[r] \in Locals /\ Kind(r) \in Kinds /\ at[r] \in PlacesOf(Kind(r))
    BY TypeParts, AskTypes DEF HandlersOK
<1>2. at[r] \notin LastPlaces => To(r) \in PlacesOf(Kind(r)) \cap Places
    BY Destination
<1>3. CASE LeavesEarly(r)
    <2>1. PICK p \in {"done", "rollback"} \cap PlacesOf(Kind(r)) : MovesTo(r, p, Blank)
        BY <1>3 DEF LeavesEarly
    <2>2. p \in Places /\ p \in Early
        BY DEF Places, Early
    <2> QED BY <1>1, <2>1, <2>2, MovedTypes, BlankTypes
<1>4. CASE Starts(r)
    <2>1. at[r] = "idle" /\ To(r) \in {"begin", "user"}
          /\ (To(r) = "begin" => Kind(r) = "initialSetup")
        BY <1>1, <1>4, Routes DEF Starts, To
    <2>2. To(r) \in PlacesOf(Kind(r)) \cap Places
        BY <1>2, <2>1 DEF LastPlaces
    <2> QED BY <1>1, <1>4, <2>1, <2>2, MovedTypes, BlankTypes DEF Starts, Early
<1>5. CASE GoesOn(r)
    <2>1. at[r] \notin LastPlaces /\ To(r) # "idle"
        BY <1>1, <1>5, Routes DEF GoesOn, LastPlaces, To
    <2>2. local[r].acct \in Ids \/ To(r) \in Early
        BY <1>1, <1>5, Routes DEF GoesOn, HandlersOK, Early, To
    <2> QED BY <1>1, <1>2, <1>5, <2>1, <2>2, MovedTypes DEF GoesOn
<1>6. CASE FindsUser(r)
    <2>1. PICK a \in Ids : MovesTo(r, To(r), [local[r] EXCEPT !.acct = a])
        BY <1>6 DEF FindsUser
    <2>2. /\ [local[r] EXCEPT !.acct = a] \in Locals
          /\ [local[r] EXCEPT !.acct = a].acct = a
        BY <1>1 DEF Locals
    <2>3. at[r] \notin LastPlaces /\ To(r) \notin {"idle", "done"}
        BY <1>1, <1>6, Routes DEF FindsUser, LastPlaces, To
    <2> QED BY <1>1, <1>2, <2>1, <2>2, <2>3, MovedTypes
<1>7. CASE FindsMachine(r)
    <2>1. PICK m \in view.machines : MovesTo(r, To(r), [local[r] EXCEPT !.who = m])
        BY <1>7 DEF FindsMachine, Named
    <2>2. m \in Machines
        BY DEF TypeOK, Tables
    <2>3. /\ [local[r] EXCEPT !.who = m] \in Locals
          /\ [local[r] EXCEPT !.who = m].acct = local[r].acct
        BY <1>1, <2>2 DEF Locals
    <2>4. at[r] \notin LastPlaces /\ To(r) \notin {"idle", "done"}
        BY <1>1, <1>7, Routes DEF FindsMachine, LastPlaces, To
    <2>5. local[r].acct \in Ids
        BY <1>1, <1>7 DEF HandlersOK, FindsMachine, Early
    <2> QED BY <1>1, <1>2, <2>1, <2>3, <2>4, <2>5, MovedTypes
<1>8. CASE LooksUp(r)
    <2>1. PICK s \in SUBSET Ids : MovesTo(r, To(r), [local[r] EXCEPT !.seen = s])
        BY <1>8 DEF LooksUp
    <2>2. /\ [local[r] EXCEPT !.seen = s] \in Locals
          /\ [local[r] EXCEPT !.seen = s].acct = local[r].acct
        BY <1>1 DEF Locals
    <2>3. at[r] \notin LastPlaces /\ To(r) \notin {"idle", "done"}
        BY <1>1, <1>8, Routes DEF LooksUp, LastPlaces, To
    <2>4. local[r].acct \in Ids
        BY <1>1, <1>8 DEF HandlersOK, LooksUp, Early
    <2> QED BY <1>1, <1>2, <2>1, <2>2, <2>3, <2>4, MovedTypes
<1>9. CASE IsNewUser(r)
    <2>1. /\ [local[r] EXCEPT !.acct = r] \in Locals
          /\ [local[r] EXCEPT !.acct = r].acct = r
          /\ r \in Ids
        BY <1>1 DEF Locals, Ids
    <2>2. at[r] \notin LastPlaces /\ To(r) \notin {"idle", "done"}
        BY <1>1, <1>9, Routes DEF IsNewUser, LastPlaces, To
    <2> QED BY <1>1, <1>2, <1>9, <2>1, <2>2, MovedTypes DEF IsNewUser
<1>10. CASE Posts(r)
    <2>1. PICK s \in SUBSET local[r].seen :
             MovesTo(r, "upsert", [local[r] EXCEPT !.seen = s])
        BY <1>10 DEF Posts
    <2>2. /\ [local[r] EXCEPT !.seen = s] \in Locals
          /\ [local[r] EXCEPT !.seen = s].acct = local[r].acct
        BY <1>1 DEF Locals
    <2>3. "upsert" \in PlacesOf(Kind(r)) \cap Places /\ local[r].acct \in Ids
        BY <1>1, <1>10 DEF HandlersOK, Posts, Early
    <2> QED BY <1>1, <2>1, <2>2, <2>3, MovedTypes
<1> QED BY <1>3, <1>4, <1>5, <1>6, <1>7, <1>8, <1>9, <1>10 DEF Moves

(* What a step does to the tables.                                         *)
WritesSomething(r) ==
    \/ AddUser(r) \/ AddMachine(r) \/ Store(r) \/ DeleteKey(r) \/ Upsert(r)
    \/ Remove(r) \/ UpdateKey(r) \/ Clear(r)

Reverts(r) == CommitFails(r) \/ Rollback(r)

LEMMA StepWrites ==
    ASSUME NEW r \in Requests, Step(r)
    PROVE  UNCHANGED <<view, saved>> \/ WritesSomething(r) \/ Commit(r) \/ Reverts(r)
BY DEF Step, Arrive, Fails, Abandons, FindUser, FindMachine, NewUser, CheckName, NoRotation,
       FindKey, List, Pending, FindNamed, Unreadable, Upserted, Begin, Reads, WritesSomething,
       Reverts

LEMMA WrittenTypes ==
    ASSUME TypeOK, NEW r \in Requests, NEW place, NEW tables \in Tables,
           Writes(r, place, tables)
    PROVE  TablesOK'
BY DEF TypeOK, TablesOK, Writes

LEMMA TablesTypes ==
    ASSUME TypeOK, NEW r \in Requests, Step(r)
    PROVE  TablesOK'
<1> USE DEF Users, Machines, Rotations, Data, Tables
<1>1. view \in Tables /\ saved \in Tables /\ r \in Ids
    BY DEF TypeOK, Ids
<1>2. /\ ask[r].user \in Usernames /\ ask[r].machine \in Names
      /\ ask[r].key \in KeyFiles /\ ask[r].item \in Items
      /\ ask[r].entries \subseteq Ids
    BY AskTypes
<1>3. local[r].acct \in Ids \/ at[r] \in Early
        \/ (Kind(r) = "initialSetup" /\ at[r] = "begin")
    BY DEF TypeOK
<1>4. CASE AddUser(r)
    <2>1. [view EXCEPT !.users = @ \union {[id |-> r, name |-> ask[r].user]}] \in Tables
        BY <1>1, <1>2
    <2> QED BY <1>4, <2>1, WrittenTypes DEF AddUser
<1>5. CASE AddMachine(r)
    <2>1. local[r].acct \in Ids
        BY <1>3, <1>5 DEF AddMachine, Writes, Early
    <2>2. [id |-> r, user |-> local[r].acct, name |-> ask[r].machine, key |-> ask[r].key]
             \in Machines
        BY <1>1, <1>2, <2>1
    <2>3. [view EXCEPT !.machines = @ \union
             {[id |-> r, user |-> local[r].acct, name |-> ask[r].machine,
               key |-> ask[r].key]}] \in Tables
        BY <1>1, <2>2
    <2> QED BY <1>5, <2>3, WrittenTypes DEF AddMachine
<1>6. CASE Store(r)
    <2>1. local[r].acct \in Ids
        BY <1>3, <1>6 DEF Store, Writes, Early
    <2> DEFINE same == {d \in view.data : d.user = local[r].acct /\ d.item = ask[r].item}
               new  == [id |-> r, user |-> local[r].acct, item |-> ask[r].item]
               t    == [view EXCEPT !.data = IF same = {} THEN @ \union {new} ELSE @]
    <2>2. new \in Data
        BY <1>1, <1>2, <2>1
    <2> HIDE DEF new, same
    <2>3. t \in Tables
        BY <1>1, <2>2
    <2>4. Writes(r, "store", t)
        BY <1>6 DEF Store, new, same
    <2> QED BY <2>3, <2>4, WrittenTypes
<1>7. CASE DeleteKey(r)
    <2>1. [view EXCEPT !.data =
             {d \in @ : ~(d.user = local[r].acct /\ d.id \in local[r].seen)}] \in Tables
        BY <1>1
    <2> QED BY <1>7, <2>1, WrittenTypes DEF DeleteKey
<1>8. CASE Upsert(r)
    <2>1. local[r].acct \in Ids
        BY <1>3, <1>8 DEF Upsert, Writes, Early
    <2> DEFINE t(e) == [view EXCEPT !.rotations =
                          {x \in @ : x.machine # e} \union
                          {[machine |-> e, acct |-> local[r].acct, by |-> r]}]
    <2>2. PICK e \in local[r].seen : Writes(r, "upsert", t(e))
        BY <1>8 DEF Upsert
    <2>3. e \in Ids
        BY <2>2 DEF TypeOK, Locals
    <2>4. t(e) \in Tables
        BY <1>1, <2>1, <2>3
    <2> QED BY <2>2, <2>4, WrittenTypes
<1>9. CASE Remove(r)
    <2> DEFINE t(rotations) == [view EXCEPT !.machines = {m \in @ : m.id \notin local[r].seen},
                                            !.rotations = rotations]
    <2>1. PICK rotations \in {view.rotations,
                              {x \in view.rotations : x.machine \notin local[r].seen}} :
             Writes(r, "remove", t(rotations))
        BY <1>9 DEF Remove
    <2>2. t(rotations) \in Tables
        BY <1>1
    <2> QED BY <2>1, <2>2, WrittenTypes
<1>10. CASE UpdateKey(r)
    <2>1. {IF m.id = local[r].who.id THEN [m EXCEPT !.key = ask[r].key] ELSE m :
             m \in view.machines} \subseteq Machines
        BY <1>1, <1>2
    <2>2. [view EXCEPT !.machines =
             {IF m.id = local[r].who.id THEN [m EXCEPT !.key = ask[r].key]
              ELSE m : m \in @}] \in Tables
        BY <1>1, <2>1
    <2> QED BY <1>10, <2>2, WrittenTypes DEF UpdateKey
<1>11. CASE Clear(r)
    <2>1. [view EXCEPT !.rotations =
             {x \in @ : x.machine # local[r].who.id}] \in Tables
        BY <1>1
    <2> QED BY <1>11, <2>1, WrittenTypes DEF Clear
<1>12. CASE Commit(r) \/ Reverts(r)
    BY <1>1, <1>12 DEF Commit, Reverts, CommitFails, Rollback, TablesOK
<1>13. CASE UNCHANGED <<view, saved>> /\ ~WritesSomething(r) /\ ~Commit(r) /\ ~Reverts(r)
    <2>1. tx' = tx \/ Fails(r) \/ Begin(r)
        BY <1>13 DEF Step, Arrive, Abandons, FindUser, FindMachine, NewUser, CheckName,
              NoRotation, FindKey, List, Pending, FindNamed, Unreadable, Upserted, Reads,
              WritesSomething, Reverts
    <2>2. tx' \in {"none", "open", "failed"} /\ (tx' = "none" => tx = "none")
        BY <2>1 DEF Fails, Begin, TypeOK
    <2> QED BY <1>13, <2>2 DEF TypeOK, TablesOK
<1> QED BY <1>4, <1>5, <1>6, <1>7, <1>8, <1>9, <1>10, <1>11, <1>12, <1>13, StepWrites
        DEF WritesSomething

LEMMA InitTypes == Init => TypeOK
<1> SUFFICES ASSUME Init PROVE TypeOK
    OBVIOUS
<1>1. \A k \in Kinds : "idle" \in PlacesOf(k)
    BY DEF Kinds, PlacesOf, Handler, InitialSetup, NewMachineChallenge, ChallengeResponse,
           AddData, DeleteData, PostKeyRotation, GetKeyRotation, DeleteKeyRotation,
           GetMachines, DeleteMachine, UpdateMachineKey
<1>2. \A r \in Requests : Kind(r) \in Kinds
    BY AccountsAssumption DEF Init, Kind, AskForms
<1>3. view \in Tables
    BY AccountsAssumption DEF Init, Tables
<1> QED BY <1>1, <1>2, <1>3, BlankTypes
        DEF Init, TypeOK, InFlight, Places, Early

LEMMA StepTypes ==
    ASSUME TypeOK, NEW r \in Requests, Step(r)
    PROVE  TypeOK'
<1>1. Moves(r) /\ ask' = ask /\ (met' = met \/ Arrive(r))
    BY StepMoves
<1>2. HandlersOK'
    BY <1>1, MovesTypes
<1>3. TablesOK'
    BY TablesTypes
<1>4. met' \in [Requests -> SUBSET Requests]
    BY <1>1 DEF TypeOK, Arrive
<1> QED BY <1>2, <1>3, <1>4 DEF TypeOK, HandlersOK, TablesOK

LEMMA KnownPlaces ==
    "newName" \in Places /\ "done" \in Places /\ "newName" \notin {"idle", "done"}
BY DEF Places, Finding

LEMMA ApproveTypes ==
    ASSUME TypeOK, NEW c \in Requests, NEW q \in Requests, Approve(c, q)
    PROVE  TypeOK'
<1>1. /\ Kind(c) \in Kinds /\ at[c] \in PlacesOf(Kind(c))
      /\ Kind(q) \in Kinds /\ at[q] \in PlacesOf(Kind(q))
      /\ local \in [Requests -> Locals] /\ at \in [Requests -> Places]
    BY AskTypes DEF TypeOK
<1>2. Kind(c) = "newMachineChallenge" /\ c # q
    BY <1>1, Routes DEF Approve
<1>3. NewMachineChallenge.challenge = "newName" /\ "newName" \in PlacesOf(Kind(c))
    BY <1>2 DEF NewMachineChallenge, PlacesOf, Handler
<1>4. "done" \in PlacesOf(Kind(q))
    BY DEF PlacesOf
<1>5. /\ at' = [at EXCEPT ![c] = "newName", ![q] = "done"]
      /\ local' = [local EXCEPT ![c] = [@ EXCEPT !.who = local[q].who], ![q] = Blank]
      /\ ask' = ask
    BY <1>3 DEF Approve
<1>6. /\ [local[c] EXCEPT !.who = local[q].who] \in Locals
      /\ [local[c] EXCEPT !.who = local[q].who].acct = local[c].acct
    BY <1>1 DEF Locals
<1>7. local[c].acct \in Ids
    BY DEF TypeOK, Approve, Early
<1>8. at' \in [Requests -> Places] /\ local' \in [Requests -> Locals]
    BY <1>1, <1>5, <1>6, BlankTypes, KnownPlaces
<1>9. ASSUME NEW r \in Requests
      PROVE  /\ at'[r] \in PlacesOf(Kind(r)')
             /\ InFlight(r)' \/ local'[r] = Blank
             /\ \/ local'[r].acct \in Ids \/ at'[r] \in Early
                \/ (Kind(r)' = "initialSetup" /\ at'[r] = "begin")
    <2>1. Kind(r)' = Kind(r)
        BY <1>5 DEF Kind
    <2>2. CASE r = c
        BY <1>1, <1>2, <1>3, <1>5, <1>6, <1>7, <2>1, <2>2 DEF InFlight
    <2>3. CASE r = q
        BY <1>1, <1>2, <1>4, <1>5, <2>1, <2>3 DEF InFlight, Early
    <2>4. CASE r # c /\ r # q
        BY <1>1, <1>5, <2>1, <2>4 DEF InFlight, TypeOK
    <2> QED BY <2>2, <2>3, <2>4
<1> QED BY <1>8, <1>9 DEF TypeOK, Approve

LEMMA EndTypes ==
    ASSUME TypeOK, ConnectionEnds
    PROVE  TypeOK'
<1>1. \A r \in Requests : "done" \in PlacesOf(Kind(r)) /\ Kind(r)' = Kind(r)
    BY DEF PlacesOf, Kind, ConnectionEnds
<1>2. \A r \in Requests : at'[r] \in {"done", "idle"} /\ local'[r] = Blank
    BY DEF ConnectionEnds, InFlight
<1>3. \A r \in Requests : at'[r] \in PlacesOf(Kind(r)')
    BY <1>1 DEF ConnectionEnds, TypeOK
<1>4. at' \in [Requests -> Places] /\ local' \in [Requests -> Locals]
    BY BlankTypes, KnownPlaces DEF ConnectionEnds, TypeOK
<1> QED BY <1>2, <1>3, <1>4 DEF TypeOK, ConnectionEnds, InFlight, Early

(* Every variable of Accounts keeps its type, for any requests and rows.    *)
THEOREM TypeCorrect == Spec => []TypeOK
<1>1. TypeOK /\ [Next]_vars => TypeOK'
    <2> SUFFICES ASSUME TypeOK, [Next]_vars PROVE TypeOK'
        OBVIOUS
    <2>1. CASE UNCHANGED vars
        BY <2>1 DEF vars, TypeOK, InFlight, Kind
    <2> QED BY <2>1, StepTypes, ApproveTypes, EndTypes DEF Next
<1> QED BY <1>1, InitTypes, PTL DEF Spec

-----------------------------------------------------------------------------
(* What every step keeps.                                                   *)

(* Only the handler that steps moves, and it never goes back to the start.  *)
LEMMA OthersStay ==
    ASSUME TypeOK, NEW r \in Requests, Moves(r), ask' = ask
    PROVE  /\ \A q \in Requests \ {r} : at'[q] = at[q] /\ local'[q] = local[q]
           /\ \A q \in Requests : Kind(q)' = Kind(q)
           /\ at'[r] # "idle"
<1>1. \A q \in Requests \ {r} : at'[q] = at[q] /\ local'[q] = local[q]
    BY DEF Moves, LeavesEarly, Starts, GoesOn, FindsUser, FindsMachine, LooksUp, Posts,
           IsNewUser, MovesTo, TypeOK
<1>2. \A q \in Requests : Kind(q)' = Kind(q)
    BY DEF Kind
<1>3. at'[r] # "idle"
    <2>1. at[r] \notin LastPlaces => To(r) # "idle"
        BY AskTypes, Routes DEF To, TypeOK
    <2>2. CASE LeavesEarly(r)
        BY <2>2 DEF LeavesEarly, MovesTo, TypeOK
    <2>3. CASE Posts(r)
        BY <2>3 DEF Posts, MovesTo, TypeOK
    <2>4. CASE ~LeavesEarly(r) /\ ~Posts(r)
        <3>1. at[r] \notin LastPlaces /\ at'[r] = To(r)
            BY <2>4 DEF Moves, Starts, GoesOn, FindsUser, FindsMachine, LooksUp, IsNewUser,
                MovesTo, TypeOK, LastPlaces
        <3> QED BY <2>1, <3>1
    <2> QED BY <2>2, <2>3, <2>4
<1> QED BY <1>1, <1>2, <1>3

LEMMA DoneIsDone ==
    ASSUME TypeOK, NEW r \in Requests, Step(r)
    PROVE  /\ at[r] # "done"
           /\ at[r] = "commit" => at'[r] = "done" /\ saved' = view'
<1>1. at[r] # "done"
    BY DEF Step, Arrive, Fails, Abandons, FindUser, FindMachine, NewUser, CheckName, NoRotation,
           FindKey, List, Pending, FindNamed, AddUser, AddMachine, Store, Unreadable, DeleteKey,
           Upsert, Upserted, Remove, UpdateKey, Clear, Begin, Commit, CommitFails, Rollback,
           Reads, Writes, Finding, Writing, Waiting
<1>2. at[r] = "commit" => Commit(r) \/ CommitFails(r)
    BY DEF Step, Arrive, Fails, Abandons, FindUser, FindMachine, NewUser, CheckName, NoRotation,
           FindKey, List, Pending, FindNamed, AddUser, AddMachine, Store, Unreadable, DeleteKey,
           Upsert, Upserted, Remove, UpdateKey, Clear, Begin, Rollback, Reads, Writes,
           Finding, Writing, Waiting
<1>3. ASSUME Commit(r) \/ CommitFails(r) PROVE at'[r] = "done" /\ saved' = view'
    BY <1>3 DEF Commit, CommitFails, Ends, Leaves, TypeOK
<1> QED BY <1>1, <1>2, <1>3

LEMMA StaysGiven ==
    ASSUME TypeOK, NEW r \in Requests, Step(r), NEW id, Given(id)
    PROVE  Given(id)'
<1>1. \A q \in Requests \ {r} : at'[q] = at[q]
    BY StepMoves, OthersStay
<1> QED BY <1>1, DoneIsDone DEF Given

LEMMA MetGrows ==
    ASSUME TypeOK, NEW r \in Requests, Step(r), NEW q \in Requests, at[q] # "idle"
    PROVE  met[q] \subseteq met'[q]
<1>1. CASE met' = met
    BY <1>1
<1>2. CASE Arrive(r)
    BY <1>2 DEF Arrive, TypeOK
<1> QED BY <1>1, <1>2, StepMoves

LEMMA StaysRaced ==
    ASSUME TypeOK, NEW r \in Requests, Step(r), NEW q \in Requests, at[q] # "idle",
           NEW kinds, Raced(q, kinds)
    PROVE  Raced(q, kinds)'
<1>1. \A p \in Requests : Kind(p)' = Kind(p)
    BY StepMoves, OthersStay
<1>2. met[q] \subseteq Requests
    BY DEF TypeOK
<1> QED BY <1>1, <1>2, MetGrows DEF Raced

(* Two handlers in flight at a time know of each other.                    *)
LEMMA Meeting ==
    ASSUME TypeOK, MetInv, NEW r \in Requests, NEW q \in Requests, q # r,
           InFlight(q), InFlight(r), NEW kinds, Kind(r) \in kinds
    PROVE  Raced(q, kinds)
BY DEF MetInv, Raced

LEMMA MetStep ==
    ASSUME TypeOK, MetInv, NEW r \in Requests, Step(r)
    PROVE  MetInv'
<1>1. \A q \in Requests \ {r} : at'[q] = at[q]
    BY StepMoves, OthersStay
<1>2. \A q \in Requests : at'[q] = "idle" => at[q] = "idle" /\ q # r
    BY <1>1, StepMoves, OthersStay
<1>3. CASE Arrive(r) /\ Admitted(ask[r])
    <2>1. met' = [q \in Requests |->
                    IF q = r THEN {p \in Requests : InFlight(p)}
                    ELSE IF InFlight(q) THEN met[q] \union {r} ELSE met[q]]
        BY <1>3 DEF Arrive
    <2>2. \A q \in Requests \ {r} : InFlight(q)' = InFlight(q)
        BY <1>1 DEF InFlight
    <2>3. \A q \in Requests : at'[q] = "idle" => met'[q] = {}
        BY <1>2, <2>1 DEF MetInv, InFlight
    <2>4. SUFFICES ASSUME NEW q \in Requests, NEW p \in Requests, q # p, InFlight(q)', InFlight(p)'
                   PROVE  q \in met'[p]
        BY <2>3 DEF MetInv
    <2>5. CASE p = r
        BY <2>1, <2>2, <2>4, <2>5
    <2>6. CASE p # r
        BY <2>1, <2>2, <2>4, <2>6 DEF MetInv
    <2> QED BY <2>5, <2>6
<1>4. CASE Arrive(r) /\ ~Admitted(ask[r])
    <2>1. ~InFlight(r)' /\ met' = met
        BY <1>4 DEF Arrive, Ends, Leaves, InFlight, TypeOK
    <2> QED BY <1>1, <1>2, <1>4, <2>1 DEF MetInv, InFlight
<1>5. CASE ~Arrive(r)
    <2>1. InFlight(r)
        BY <1>5, DoneIsDone DEF InFlight, Step, Fails, Abandons, FindUser, FindMachine, NewUser,
           CheckName, NoRotation, FindKey, List, Pending, FindNamed, AddUser, AddMachine, Store,
           Unreadable, DeleteKey, Upsert, Upserted, Remove, UpdateKey, Clear, Begin, Commit,
           CommitFails, Rollback, Reads, Writes, Finding, Writing, Waiting
    <2>2. met' = met
        BY <1>5, StepMoves
    <2> QED BY <1>1, <1>2, <2>1, <2>2 DEF MetInv, InFlight
<1> QED BY <1>3, <1>4, <1>5, StepMoves

-----------------------------------------------------------------------------
(* Where the rows after a step come from.                                   *)

NewMachine(r) ==
    [id |-> r, user |-> local[r].acct, name |-> ask[r].machine, key |-> ask[r].key]

(* A row that was there, with its key or with one its machine has sent.    *)
SameMachine(r, m, n) ==
    /\ m.id = n.id /\ m.user = n.user /\ m.name = n.name
    /\ m.key = n.key \/ (at[r] = "update" /\ m.key = ask[r].key)

LEMMA StepRows ==
    ASSUME TypeOK, NEW r \in Requests, Step(r), NEW m \in Rows'
    PROVE  \/ AddMachine(r) /\ m = NewMachine(r)
           \/ \E n \in Rows : SameMachine(r, m, n)
<1>1. m \in Rows => \E n \in Rows : SameMachine(r, m, n)
    BY DEF SameMachine
<1>2. view \in Tables /\ saved \in Tables
    BY DEF TypeOK
<1>3. CASE UNCHANGED <<view, saved>> \/ Commit(r) \/ Reverts(r)
    <2>1. m \in Rows
        BY <1>3 DEF Rows, Commit, Reverts, CommitFails, Rollback
    <2> QED BY <1>1, <2>1
<1>4. CASE AddUser(r) \/ Store(r) \/ DeleteKey(r) \/ Upsert(r) \/ Clear(r)
    <2>1. view'.machines = view.machines /\ saved' \in {view', saved}
        BY <1>2, <1>4 DEF AddUser, Store, DeleteKey, Upsert, Clear, Writes, Tables
    <2>2. m \in Rows
        BY <2>1 DEF Rows
    <2> QED BY <1>1, <2>2
<1>5. CASE AddMachine(r)
    <2>1. /\ view'.machines = view.machines \union {NewMachine(r)}
          /\ saved' \in {view', saved}
        BY <1>2, <1>5 DEF AddMachine, Writes, Tables, NewMachine
    <2>2. m \in Rows \/ m = NewMachine(r)
        BY <2>1 DEF Rows
    <2> QED BY <1>1, <1>5, <2>2
<1>6. CASE Remove(r)
    <2>1. view'.machines \subseteq view.machines /\ saved' \in {view', saved}
        BY <1>2, <1>6 DEF Remove, Writes, Tables
    <2>2. m \in Rows
        BY <2>1 DEF Rows
    <2> QED BY <1>1, <2>2
<1>7. CASE UpdateKey(r)
    <2>1. /\ at[r] = "update"
          /\ view'.machines =
                {IF n.id = local[r].who.id THEN [n EXCEPT !.key = ask[r].key] ELSE n :
                   n \in view.machines}
          /\ saved' \in {view', saved}
        BY <1>2, <1>7 DEF UpdateKey, Writes, Tables
    <2>2. m \in saved.machines \/ m \in view'.machines
        BY <2>1 DEF Rows
    <2>3. CASE m \in view'.machines
        <3>1. PICK n \in view.machines :
                 m = IF n.id = local[r].who.id THEN [n EXCEPT !.key = ask[r].key] ELSE n
            BY <2>1, <2>3
        <3>2. n \in Machines
            BY <1>2 DEF Tables
        <3>3. SameMachine(r, m, n)
            BY <2>1, <3>1, <3>2 DEF SameMachine, Machines
        <3> QED BY <3>3 DEF Rows
    <2> QED BY <1>1, <2>2, <2>3 DEF Rows
<1> QED BY <1>3, <1>4, <1>5, <1>6, <1>7, StepWrites DEF WritesSomething

(* A row that leaves is one that is removed, changed or rolled back.       *)
LEMMA StepLoses ==
    ASSUME TypeOK, NEW r \in Requests, Step(r), NEW m \in view.machines, m \notin view'.machines
    PROVE  /\ Remove(r) \/ UpdateKey(r) \/ Reverts(r)
           /\ Kind(r) \in KeyKinds
           /\ InFlight(r)
<1>1. view \in Tables /\ Kind(r) \in Kinds /\ at[r] \in PlacesOf(Kind(r))
    BY AskTypes DEF TypeOK
<1>2. Remove(r) \/ UpdateKey(r) \/ Reverts(r)
    BY <1>1, StepWrites DEF WritesSomething, Commit, AddUser, AddMachine, Store, DeleteKey,
       Upsert, Clear, Writes, Tables
<1>3. at[r] \in {"remove", "update", "commit", "rollback"}
    BY <1>2 DEF Remove, UpdateKey, Reverts, CommitFails, Rollback, Writes
<1> QED BY <1>1, <1>2, <1>3, Routes DEF KeyKinds, TxKinds, InFlight

LEMMA StepRotations ==
    ASSUME TypeOK, NEW r \in Requests, Step(r),
           NEW x \in view'.rotations \union saved'.rotations
    PROVE  \/ x \in view.rotations \union saved.rotations
           \/ Upsert(r) /\ x.machine \in local[r].seen /\ x.acct = local[r].acct
<1>1. view \in Tables /\ saved \in Tables
    BY DEF TypeOK
<1>2. CASE UNCHANGED <<view, saved>> \/ Commit(r) \/ Reverts(r)
    BY <1>2 DEF Commit, Reverts, CommitFails, Rollback
<1>3. CASE AddUser(r) \/ AddMachine(r) \/ Store(r) \/ DeleteKey(r) \/ UpdateKey(r)
    <2>1. view'.rotations = view.rotations /\ saved' \in {view', saved}
        BY <1>1, <1>3 DEF AddUser, AddMachine, Store, DeleteKey, UpdateKey, Writes, Tables
    <2> QED BY <2>1
<1>4. CASE Remove(r) \/ Clear(r)
    <2>1. view'.rotations \subseteq view.rotations /\ saved' \in {view', saved}
        BY <1>1, <1>4 DEF Remove, Clear, Writes, Tables
    <2> QED BY <2>1
<1>5. CASE Upsert(r)
    <2>1. PICK e \in local[r].seen :
             /\ view'.rotations =
                   {y \in view.rotations : y.machine # e} \union
                   {[machine |-> e, acct |-> local[r].acct, by |-> r]}
             /\ saved' \in {view', saved}
        BY <1>1, <1>5 DEF Upsert, Writes, Tables
    <2> QED BY <1>5, <2>1
<1> QED BY <1>2, <1>3, <1>4, <1>5, StepWrites DEF WritesSomething

(* A rotation the session sees anew was posted or is back after a rollback. *)
LEMMA StepPosts ==
    ASSUME TypeOK, NEW r \in Requests, Step(r), NEW x \in view'.rotations, x \notin view.rotations
    PROVE  /\ Upsert(r) \/ Reverts(r)
           /\ Kind(r) \in TxKinds
           /\ InFlight(r)
<1>1. view \in Tables /\ Kind(r) \in Kinds /\ at[r] \in PlacesOf(Kind(r))
    BY AskTypes DEF TypeOK
<1>2. Upsert(r) \/ Reverts(r)
    BY <1>1, StepWrites DEF WritesSomething, Commit, AddUser, AddMachine, Store, DeleteKey,
       Remove, UpdateKey, Clear, Writes, Tables
<1>3. at[r] \in {"upsert", "commit", "rollback"}
    BY <1>2 DEF Upsert, Reverts, CommitFails, Rollback, Writes
<1> QED BY <1>1, <1>2, <1>3, Routes DEF TxKinds, InFlight

LEMMA StepUsers ==
    ASSUME TypeOK, SessionInv, NEW r \in Requests, Step(r)
    PROVE  /\ saved'.users \subseteq view'.users
           /\ \A u \in view'.users :
                 \/ u \in view.users
                 \/ AddUser(r) /\ u = [id |-> r, name |-> ask[r].user]
<1>1. view \in Tables /\ saved \in Tables /\ saved.users \subseteq view.users
      /\ (tx = "none" => view = saved)
    BY DEF TypeOK, SessionInv
<1>2. CASE UNCHANGED <<view, saved>> \/ Commit(r) \/ Reverts(r)
    BY <1>1, <1>2 DEF Commit, Reverts, CommitFails, Rollback
<1>3. CASE AddMachine(r) \/ Store(r) \/ DeleteKey(r) \/ Upsert(r) \/ Remove(r)
           \/ UpdateKey(r) \/ Clear(r)
    <2>1. view'.users = view.users /\ saved' \in {view', saved}
        BY <1>1, <1>3 DEF AddMachine, Store, DeleteKey, Upsert, Remove, UpdateKey, Clear,
           Writes, Tables
    <2> QED BY <1>1, <2>1
<1>4. CASE AddUser(r)
    <2>1. /\ view'.users = view.users \union {[id |-> r, name |-> ask[r].user]}
          /\ saved' \in {view', saved}
        BY <1>1, <1>4 DEF AddUser, Writes, Tables
    <2> QED BY <1>1, <1>4, <2>1
<1> QED BY <1>2, <1>3, <1>4, StepWrites DEF WritesSomething

-----------------------------------------------------------------------------
(* A handler's step keeps every part of the invariant.                      *)

LEMMA AddingMachine ==
    ASSUME TypeOK, NEW r \in Requests, AddMachine(r)
    PROVE  /\ at[r] = "addMachine" /\ InFlight(r)
           /\ Kind(r) \in {"initialSetup", "newMachineChallenge"}
           /\ at'[r] \in {"commit", "done"}
<1>1. at[r] = "addMachine" /\ Kind(r) \in Kinds /\ at[r] \in PlacesOf(Kind(r))
    BY AskTypes DEF AddMachine, Writes, TypeOK
<1>2. at'[r] = To(r)
    BY DEF AddMachine, Continues, To, TypeOK
<1> QED BY <1>1, <1>2, Routes DEF InFlight, To

LEMMA RowsStep ==
    ASSUME TypeOK, RowsInv, NEW r \in Requests, Step(r)
    PROVE  RowsInv'
<1>1. ASSUME NEW m \in Rows' PROVE Given(m.id)'
    <2>1. CASE AddMachine(r) /\ m = NewMachine(r)
        BY <2>1, AddingMachine DEF Given, NewMachine
    <2>2. CASE \E n \in Rows : SameMachine(r, m, n)
        BY <2>2, StaysGiven DEF RowsInv, SameMachine
    <2> QED BY <2>1, <2>2, StepRows
<1>2. ASSUME AddMachine(r), NEW n \in Rows PROVE n.id # r
    BY <1>2, AddingMachine DEF RowsInv, Given
<1>3. ASSUME NEW m \in Rows', NEW n \in Rows', m.id = n.id
      PROVE  m.user = n.user /\ m.name = n.name
    <2>1. NewMachine(r).id = r
        BY DEF NewMachine
    <2>2. CASE \E o \in Rows : SameMachine(r, m, o)
        <3>1. \/ n = NewMachine(r) /\ AddMachine(r)
              \/ \E o \in Rows : SameMachine(r, n, o)
            BY StepRows
        <3> QED BY <1>2, <1>3, <2>1, <2>2, <3>1 DEF SameMachine, RowsInv
    <2>3. CASE AddMachine(r) /\ m = NewMachine(r)
        <3>1. n = NewMachine(r) \/ \E o \in Rows : SameMachine(r, n, o)
            BY StepRows
        <3> QED BY <1>2, <1>3, <2>1, <2>3, <3>1 DEF SameMachine
    <2> QED BY <2>2, <2>3, StepRows
<1> QED BY <1>1, <1>3 DEF RowsInv

LEMMA SessionStep ==
    ASSUME TypeOK, SessionInv, NEW r \in Requests, Step(r)
    PROVE  SessionInv'
<1>1. /\ \A q \in Requests \ {r} : at'[q] = at[q]
      /\ \A q \in Requests : Kind(q)' = Kind(q)
      /\ at'[r] # "idle"
    BY StepMoves, OthersStay
<1>2. saved'.users \subseteq view'.users
    BY StepUsers
<1>3. ASSUME NEW u \in view'.users, u.id \in Requests PROVE at'[u.id] # "idle"
    <2>1. CASE u \in view.users
        BY <1>1, <1>3, <2>1 DEF SessionInv
    <2>2. CASE u = [id |-> r, name |-> ask[r].user]
        BY <1>1, <2>2
    <2> QED BY <2>1, <2>2, StepUsers
<1> DEFINE Removing == \E q \in Requests : Kind(q) = "deleteMachine" /\ at[q] = "commit"
<1>4. CASE saved' = view'
    BY <1>2, <1>3, <1>4 DEF SessionInv, RowIds
<1>5. CASE saved' # view' /\ Removing
    <2>1. PICK q \in Requests : Kind(q) = "deleteMachine" /\ at[q] = "commit"
        BY <1>5
    <2>2. q # r
        BY <1>5, <2>1, DoneIsDone
    <2>3. Kind(q)' = "deleteMachine" /\ at'[q] = "commit"
        BY <1>1, <2>1, <2>2
    <2> QED BY <1>2, <1>3, <2>3 DEF SessionInv
<1>6. CASE saved' # view' /\ RowIds(saved) \subseteq RowIds(view)
    <2>1. view \in Tables /\ saved \in Tables
        BY DEF TypeOK
    <2>2. CASE Remove(r)
        <3>1. at[r] = "remove" /\ Kind(r) \in Kinds /\ at[r] \in PlacesOf(Kind(r))
            BY <2>2, AskTypes DEF Remove, Writes, TypeOK
        <3>2. at'[r] = To(r)
            BY <2>2 DEF Remove, Continues, To, TypeOK
        <3>3. Kind(r) = "deleteMachine" /\ at'[r] = "commit"
            BY <3>1, <3>2, Routes DEF To
        <3> QED BY <1>1, <1>2, <1>3, <3>3 DEF SessionInv
    <2>3. CASE ~Remove(r)
        <3>1. saved' = saved
            BY <1>6, StepWrites DEF WritesSomething, Commit, Reverts, CommitFails, Rollback,
               AddUser, AddMachine, Store, DeleteKey, Upsert, Remove, UpdateKey, Clear, Writes
        <3>2. RowIds(view) \subseteq RowIds(view)'
            <4>1. CASE view'.machines = view.machines
                BY <4>1 DEF RowIds
            <4>2. CASE AddMachine(r)
                BY <2>1, <4>2 DEF AddMachine, Writes, Tables, RowIds
            <4>3. CASE UpdateKey(r)
                <5>1. view'.machines =
                         {IF n.id = local[r].who.id THEN [n EXCEPT !.key = ask[r].key] ELSE n :
                            n \in view.machines}
                    BY <2>1, <4>3 DEF UpdateKey, Writes, Tables
                <5>2. ASSUME NEW n \in view.machines PROVE \E m \in view'.machines : m.id = n.id
                    <6>1. n \in Machines
                        BY <2>1 DEF Tables
                    <6>2. [n EXCEPT !.key = ask[r].key].id = n.id
                        BY <6>1 DEF Machines
                    <6> QED BY <5>1, <6>2
                <5> QED BY <5>2 DEF RowIds
            <4>4. view'.machines = view.machines \/ AddMachine(r) \/ UpdateKey(r)
                BY <1>6, <2>1, <2>3, StepWrites DEF WritesSomething, Commit, Reverts, CommitFails,
                   Rollback, AddUser, Store, DeleteKey, Upsert, Clear, Writes, Tables
            <4> QED BY <4>1, <4>2, <4>3, <4>4
        <3>3. RowIds(saved)' = RowIds(saved)
            BY <3>1 DEF RowIds
        <3> QED BY <1>2, <1>3, <1>6, <3>2, <3>3 DEF SessionInv
    <2> QED BY <2>2, <2>3
<1> QED BY <1>4, <1>5, <1>6 DEF SessionInv

LEMMA RotationsStep ==
    ASSUME TypeOK, RowsInv, SeenInv, RotationsInv, NEW r \in Requests, Step(r)
    PROVE  RotationsInv'
<1>1. ASSUME Upsert(r)
      PROVE  /\ \A id \in local[r].seen : Given(id)
             /\ \A m \in Rows : m.id \in local[r].seen => m.user = local[r].acct
             /\ ~AddMachine(r)
    <2>1. at[r] = "upsert" /\ Kind(r) \in Kinds /\ at[r] \in PlacesOf(Kind(r))
        BY <1>1, AskTypes DEF Upsert, Writes, TypeOK
    <2>2. Kind(r) = "postKeyRotation"
        BY <2>1, Routes
    <2> QED BY <2>1, <2>2 DEF SeenInv, AddMachine, Writes
<1>2. SUFFICES ASSUME NEW x \in view'.rotations \union saved'.rotations
               PROVE  /\ Given(x.machine)'
                      /\ \A m \in Rows' : m.id = x.machine => m.user = x.acct
    BY DEF RotationsInv
<1>3. CASE x \in view.rotations \union saved.rotations
    <2>1. Given(x.machine)
        BY <1>3 DEF RotationsInv
    <2>2. ASSUME NEW m \in Rows', m.id = x.machine PROVE m.user = x.acct
        <3>1. CASE AddMachine(r) /\ m = NewMachine(r)
            BY <2>1, <2>2, <3>1, AddingMachine DEF Given, NewMachine
        <3>2. CASE \E n \in Rows : SameMachine(r, m, n)
            BY <1>3, <2>2, <3>2 DEF SameMachine, RotationsInv
        <3> QED BY <3>1, <3>2, StepRows
    <2> QED BY <2>1, <2>2, StaysGiven
<1>4. CASE Upsert(r) /\ x.machine \in local[r].seen /\ x.acct = local[r].acct
    <2>1. Given(x.machine)
        BY <1>1, <1>4
    <2>2. ASSUME NEW m \in Rows', m.id = x.machine PROVE m.user = x.acct
        BY <1>1, <1>4, <2>2, StepRows DEF SameMachine
    <2> QED BY <2>1, <2>2, StaysGiven
<1> QED BY <1>3, <1>4, StepRotations

(* What a handler that moved knows of machines.                            *)
LEMMA SeenMoved ==
    ASSUME TypeOK, RowsInv, SeenInv, NEW r \in Requests, Moves(r), LooksAtMachines(r)
    PROVE  /\ \A id \in local'[r].seen : Given(id)
           /\ \A m \in Rows : m.id \in local'[r].seen =>
                 /\ m.user = local'[r].acct
                 /\ Kind(r) = "deleteMachine" => m.name = ask[r].name
<1>1. /\ Kind(r) \in Kinds /\ at[r] \in PlacesOf(Kind(r)) /\ local[r] \in Locals
      /\ local \in [Requests -> Locals] /\ at \in [Requests -> Places]
    BY AskTypes DEF TypeOK
<1>2. /\ \A id \in local[r].seen : Given(id)
      /\ \A m \in Rows : m.id \in local[r].seen =>
            /\ m.user = local[r].acct
            /\ Kind(r) = "deleteMachine" => m.name = ask[r].name
      /\ at[r] = "user" => local[r].seen = {}
    BY BlankTypes DEF SeenInv, LooksAtMachines
<1>3. CASE LeavesEarly(r)
    BY <1>1, <1>3, BlankTypes DEF LeavesEarly, MovesTo
<1>4. CASE Starts(r)
    <2>1. at'[r] = "user" /\ local'[r] = Blank
        BY <1>1, <1>4, Routes DEF Starts, MovesTo, LooksAtMachines, To
    <2> QED BY <2>1, BlankTypes
<1>5. CASE GoesOn(r)
    <2>1. local'[r] = local[r]
        BY <1>1, <1>5 DEF GoesOn, MovesTo
    <2> QED BY <1>2, <2>1
<1>6. CASE FindsUser(r)
    <2>1. local'[r].seen = {}
        BY <1>1, <1>2, <1>6 DEF FindsUser, MovesTo, Locals
    <2> QED BY <2>1
<1>7. CASE FindsMachine(r)
    <2>1. local'[r].seen = local[r].seen /\ local'[r].acct = local[r].acct
        BY <1>1, <1>7 DEF FindsMachine, MovesTo, Locals
    <2> QED BY <1>2, <2>1
<1>8. CASE LooksUp(r)
    <2>1. at[r] \in {"list", "findNamed"}
        BY <1>1, <1>8, Routes DEF LooksUp, LooksAtMachines
    <2>2. PICK s \in SUBSET Ids :
             /\ MovesTo(r, To(r), [local[r] EXCEPT !.seen = s])
             /\ at[r] = "list" => s \subseteq Mine(r)
             /\ at[r] = "findNamed" =>
                   \E m \in Named(local[r].acct, ask[r].name) : s = {m.id}
        BY <1>8 DEF LooksUp
    <2>3. local'[r].seen = s /\ local'[r].acct = local[r].acct
        BY <1>1, <2>2 DEF MovesTo, Locals
    <2>4. CASE at[r] = "list"
        <3>1. Kind(r) # "deleteMachine"
            BY <1>1, <2>4, Routes
        <3>2. \A id \in s : \E n \in Rows : n.id = id /\ n.user = local[r].acct
            BY <2>2, <2>4 DEF Mine, Rows
        <3> QED BY <2>3, <3>1, <3>2 DEF RowsInv
    <2>5. CASE at[r] = "findNamed"
        <3>1. Kind(r) = "deleteMachine"
            BY <1>1, <2>5, Routes
        <3>2. PICK n \in Rows : s = {n.id} /\ n.user = local[r].acct /\ n.name = ask[r].name
            BY <2>2, <2>5 DEF Named, Rows
        <3> QED BY <2>3, <3>1, <3>2 DEF RowsInv
    <2> QED BY <2>1, <2>4, <2>5
<1>9. CASE IsNewUser(r)
    BY <1>1, <1>9, Routes DEF IsNewUser, LooksAtMachines
<1>10. CASE Posts(r)
    <2>1. local'[r].seen \subseteq local[r].seen /\ local'[r].acct = local[r].acct
        BY <1>1, <1>10 DEF Posts, MovesTo, Locals
    <2> QED BY <1>2, <2>1
<1> QED BY <1>3, <1>4, <1>5, <1>6, <1>7, <1>8, <1>9, <1>10 DEF Moves

LEMMA SeenStep ==
    ASSUME TypeOK, RowsInv, SeenInv, NEW r \in Requests, Step(r)
    PROVE  SeenInv'
<1>1. Moves(r) /\ ask' = ask
    BY StepMoves
<1>2. /\ \A q \in Requests \ {r} : at'[q] = at[q] /\ local'[q] = local[q]
      /\ \A q \in Requests : Kind(q)' = Kind(q)
    BY <1>1, OthersStay
<1>3. ASSUME NEW q \in Requests
      PROVE  /\ LooksAtMachines(q) =>
                   /\ \A id \in local'[q].seen : Given(id)
                   /\ \A m \in Rows : m.id \in local'[q].seen =>
                         /\ m.user = local'[q].acct
                         /\ Kind(q) = "deleteMachine" => m.name = ask[q].name
    <2>1. CASE q = r
        BY <1>1, <2>1, SeenMoved DEF LooksAtMachines
    <2>2. CASE q # r
        BY <1>2, <2>2 DEF SeenInv, LooksAtMachines
    <2> QED BY <2>1, <2>2
<1>4. ASSUME NEW q \in Requests, LooksAtMachines(q), NEW m \in Rows', m.id \in local'[q].seen
      PROVE  /\ m.user = local'[q].acct
             /\ Kind(q) = "deleteMachine" => m.name = ask[q].name
    <2>1. CASE AddMachine(r) /\ m = NewMachine(r)
        BY <1>3, <1>4, <2>1, AddingMachine DEF Given, NewMachine
    <2>2. CASE \E n \in Rows : SameMachine(r, m, n)
        BY <1>3, <1>4, <2>2 DEF SameMachine
    <2> QED BY <2>1, <2>2, StepRows
<1>5. ASSUME NEW q \in Requests, at'[q] = "user" PROVE local'[q] = Blank
    <2>1. CASE q # r
        BY <1>2, <1>5, <2>1 DEF SeenInv
    <2>2. CASE q = r
        <3>1. /\ Kind(r) \in Kinds /\ at[r] \in PlacesOf(Kind(r))
              /\ local \in [Requests -> Locals] /\ at \in [Requests -> Places]
            BY AskTypes DEF TypeOK
        <3>2. LeavesEarly(r) => at'[r] \in {"done", "rollback"}
            BY <3>1 DEF LeavesEarly, MovesTo
        <3>3. Posts(r) => at'[r] = "upsert"
            BY <3>1 DEF Posts, MovesTo
        <3>4. ~LeavesEarly(r) /\ ~Starts(r) /\ ~Posts(r) =>
                 at[r] \notin LastPlaces /\ at[r] # "idle" /\ at'[r] = To(r)
            BY <1>1, <3>1 DEF Moves, GoesOn, FindsUser, FindsMachine, LooksUp, IsNewUser,
               MovesTo, LastPlaces
        <3>5. Starts(r)
            BY <1>5, <2>2, <3>1, <3>2, <3>3, <3>4, Routes DEF To
        <3> QED BY <2>2, <3>1, <3>5 DEF Starts, MovesTo
    <2> QED BY <2>1, <2>2
<1> QED BY <1>1, <1>2, <1>3, <1>4, <1>5, StaysGiven DEF SeenInv, LooksAtMachines

(* How a handler comes to insert a row, or to replace a key.               *)
LEMMA Inserting ==
    ASSUME TypeOK, NEW r \in Requests, Moves(r)
    PROVE  /\ at'[r] = "addUser" =>
                 /\ at[r] = "newUser"
                 /\ \A u \in view.users : u.name # ask[r].user
           /\ at'[r] = "addMachine" =>
                 /\ at[r] = "newName" /\ local'[r] = local[r]
                 /\ Named(local[r].acct, ask[r].machine) = {}
           /\ at'[r] = "newName" => at[r] = "addUser" /\ Kind(r) = "initialSetup"
           /\ at'[r] = "update" => ValidatePublicKey(ask[r].key)
<1>1. /\ Kind(r) \in Kinds /\ at[r] \in PlacesOf(Kind(r))
      /\ local \in [Requests -> Locals] /\ at \in [Requests -> Places]
    BY AskTypes DEF TypeOK
<1>2. CASE LeavesEarly(r)
    BY <1>1, <1>2 DEF LeavesEarly, MovesTo
<1>3. CASE Starts(r)
    BY <1>1, <1>3, Routes DEF Starts, MovesTo, To
<1>4. CASE GoesOn(r)
    <2>1. at'[r] = To(r) /\ local'[r] = local[r]
        BY <1>1, <1>4 DEF GoesOn, MovesTo
    <2>2. /\ To(r) = "addUser"    => at[r] = "newUser"
          /\ To(r) = "addMachine" => at[r] = "newName"
          /\ To(r) \notin {"newName", "update"}
        <3>1. CASE at[r] \in {"newUser", "freeName", "newName", "noRotation"}
            BY <1>1, <3>1, Routes DEF To
        <3>2. CASE at[r] \in {"addMachine", "store", "deleteKey", "upsert", "remove"}
            BY <1>1, <3>2, Routes DEF To
        <3>3. CASE at[r] = "begin"
            BY <1>1, <3>3, Routes DEF To, TxKinds
        <3> QED BY <1>4, <3>1, <3>2, <3>3 DEF GoesOn
    <2> QED BY <1>4, <2>1, <2>2 DEF GoesOn
<1>5. CASE FindsUser(r)
    BY <1>1, <1>5, Routes DEF FindsUser, MovesTo, To
<1>6. CASE FindsMachine(r)
    BY <1>1, <1>6, Routes DEF FindsMachine, MovesTo, To
<1>7. CASE LooksUp(r)
    BY <1>1, <1>7, Routes DEF LooksUp, MovesTo, To
<1>8. CASE IsNewUser(r)
    BY <1>1, <1>8, Routes DEF IsNewUser, MovesTo, To
<1>9. CASE Posts(r)
    BY <1>1, <1>9 DEF Posts, MovesTo
<1> QED BY <1>2, <1>3, <1>4, <1>5, <1>6, <1>7, <1>8, <1>9 DEF Moves

LEMMA UserNamesStep ==
    ASSUME TypeOK, MetInv, SessionInv, UserNamesInv, NEW r \in Requests, Step(r)
    PROVE  UserNamesInv'
<1>1. Moves(r) /\ ask' = ask
    BY StepMoves
<1>2. \A q \in Requests \ {r} : at'[q] = at[q]
    BY <1>1, OthersStay
<1>3. AddUser(r) => at[r] = "addUser" /\ InFlight(r) /\ Kind(r) = "initialSetup"
    <2>1. Kind(r) \in Kinds /\ at[r] \in PlacesOf(Kind(r))
        BY AskTypes DEF TypeOK
    <2> QED BY <2>1, Routes DEF AddUser, Writes, InFlight
<1>4. ASSUME NEW q \in Requests, at'[q] = "addUser", NEW u \in view'.users, u.name = ask[q].user
      PROVE  Raced(q, {"initialSetup"})'
    <2>1. CASE q = r
        BY <1>1, <1>3, <1>4, <2>1, Inserting, StepUsers
    <2>2. CASE q # r
        <3>1. at[q] = "addUser" /\ InFlight(q) /\ at[q] # "idle"
            BY <1>2, <1>4, <2>2 DEF InFlight
        <3>2. Raced(q, {"initialSetup"})
            <4>1. CASE u \in view.users
                BY <1>4, <3>1, <4>1 DEF UserNamesInv
            <4>2. CASE AddUser(r)
                BY <1>3, <2>2, <3>1, <4>2, Meeting
            <4> QED BY <4>1, <4>2, StepUsers
        <3> QED BY <3>1, <3>2, StaysRaced
    <2> QED BY <2>1, <2>2
<1>5. ASSUME NEW u \in view'.users, NEW v \in view'.users, u.name = v.name, u.id # v.id
      PROVE  \E q \in {u.id, v.id} \cap Requests : Raced(q, {"initialSetup"})'
    <2>1. CASE u \in view.users /\ v \in view.users
        <3>1. PICK q \in {u.id, v.id} \cap Requests : Raced(q, {"initialSetup"})
            BY <1>5, <2>1 DEF UserNamesInv
        <3>2. at[q] # "idle"
            BY <2>1 DEF SessionInv
        <3> QED BY <3>1, <3>2, StaysRaced
    <2>2. ASSUME NEW w \in view.users, AddUser(r), w.name = ask[r].user
          PROVE  Raced(r, {"initialSetup"})'
        <3>1. Raced(r, {"initialSetup"}) /\ at[r] # "idle"
            BY <1>3, <2>2 DEF UserNamesInv
        <3> QED BY <3>1, StaysRaced
    <2>3. [id |-> r, name |-> ask[r].user].id = r
          /\ [id |-> r, name |-> ask[r].user].name = ask[r].user
        OBVIOUS
    <2> QED BY <1>5, <2>1, <2>2, <2>3, StepUsers
<1> QED BY <1>1, <1>4, <1>5 DEF UserNamesInv

LEMMA NamesStep ==
    ASSUME TypeOK, MetInv, RowsInv, SessionInv, NamesInv, NEW r \in Requests, Step(r)
    PROVE  NamesInv'
<1>1. Moves(r) /\ ask' = ask
    BY StepMoves
<1>2. \A q \in Requests \ {r} : at'[q] = at[q] /\ local'[q] = local[q]
    BY <1>1, OthersStay
<1>3. AddMachine(r) => /\ at[r] = "addMachine" /\ InFlight(r) /\ at[r] # "idle"
                       /\ Kind(r) \in Naming
    BY AddingMachine DEF Naming
<1>4. ASSUME NEW q \in Requests, at'[q] = "addMachine", NEW m \in Rows',
             m.user = local'[q].acct, m.name = ask[q].machine
      PROVE  Raced(q, Naming)'
    <2>1. CASE q = r
        <3>1. /\ at[r] = "newName" /\ local'[r] = local[r]
              /\ Named(local[r].acct, ask[r].machine) = {}
            BY <1>1, <1>4, <2>1, Inserting
        <3>2. PICK n \in Rows : SameMachine(r, m, n)
            BY <1>3, <3>1, StepRows
        <3>3. n.user = local[r].acct /\ n.name = ask[r].machine
            BY <1>4, <2>1, <3>1, <3>2 DEF SameMachine
        <3>4. n.id \notin RowIds(view)
            <4>1. SUFFICES ASSUME NEW o \in view.machines, o.id = n.id PROVE FALSE
                BY DEF RowIds
            <4>2. o.user = local[r].acct /\ o.name = ask[r].machine
                BY <3>3, <4>1 DEF RowsInv, Rows
            <4> QED BY <3>1, <4>2 DEF Named
        <3>5. n.id \in RowIds(saved)
            BY <3>4 DEF Rows, RowIds
        <3>6. PICK d \in Requests : Kind(d) = "deleteMachine" /\ at[d] = "commit"
            BY <3>4, <3>5 DEF SessionInv
        <3>7. InFlight(d) /\ InFlight(r) /\ d # r /\ at[r] # "idle" /\ Kind(d) \in Naming
            BY <3>1, <3>6 DEF InFlight, Naming
        <3>8. Raced(r, Naming)
            BY <3>7, Meeting
        <3> QED BY <2>1, <3>7, <3>8, StaysRaced
    <2>2. CASE q # r
        <3>1. at[q] = "addMachine" /\ InFlight(q) /\ at[q] # "idle" /\ local'[q] = local[q]
            BY <1>2, <1>4, <2>2 DEF InFlight
        <3>2. Raced(q, Naming)
            <4>1. CASE AddMachine(r)
                BY <1>3, <2>2, <3>1, <4>1, Meeting
            <4>2. CASE \E n \in Rows : SameMachine(r, m, n)
                BY <1>4, <3>1, <4>2 DEF SameMachine, NamesInv
            <4> QED BY <4>1, <4>2, StepRows
        <3> QED BY <3>1, <3>2, StaysRaced
    <2> QED BY <2>1, <2>2
<1>5. ASSUME NEW m \in Rows', NEW n \in Rows', m.user = n.user, m.name = n.name, m.id # n.id
      PROVE  \E q \in {m.id, n.id} \cap Requests : Raced(q, Naming)'
    <2>1. ASSUME NEW a \in Rows, NEW b \in Rows, SameMachine(r, m, a), SameMachine(r, n, b)
          PROVE  \E q \in {m.id, n.id} \cap Requests : Raced(q, Naming)'
        <3>1. PICK q \in {m.id, n.id} \cap Requests : Raced(q, Naming)
            BY <1>5, <2>1 DEF SameMachine, NamesInv
        <3>2. at[q] # "idle"
            BY <2>1 DEF SameMachine, RowsInv, Given
        <3> QED BY <3>1, <3>2, StaysRaced
    <2>2. ASSUME AddMachine(r), NEW o \in Rows, o.user = local[r].acct, o.name = ask[r].machine
          PROVE  Raced(r, Naming)'
        <3>1. Raced(r, Naming) /\ at[r] # "idle"
            BY <1>3, <2>2 DEF NamesInv
        <3> QED BY <3>1, StaysRaced
    <2>3. /\ NewMachine(r).id = r /\ NewMachine(r).user = local[r].acct
          /\ NewMachine(r).name = ask[r].machine
        BY DEF NewMachine
    <2>4. CASE AddMachine(r) /\ m = NewMachine(r)
        <3>1. \E b \in Rows : SameMachine(r, n, b)
            BY <1>5, <2>4, StepRows
        <3> QED BY <1>5, <2>2, <2>3, <2>4, <3>1 DEF SameMachine
    <2>5. CASE AddMachine(r) /\ n = NewMachine(r)
        <3>1. \E a \in Rows : SameMachine(r, m, a)
            BY <1>5, <2>5, StepRows
        <3> QED BY <1>5, <2>2, <2>3, <2>5, <3>1 DEF SameMachine
    <2> QED BY <2>1, <2>4, <2>5, StepRows
<1> QED BY <1>1, <1>4, <1>5 DEF NamesInv

LEMMA KeysStep ==
    ASSUME TypeOK, KeysInv, NEW r \in Requests, Step(r)
    PROVE  KeysInv'
<1>1. Moves(r) /\ ask' = ask
    BY StepMoves
<1>2. \A q \in Requests \ {r} : at'[q] = at[q]
    BY <1>1, OthersStay
<1>3. \A q \in Requests : Kind(q)' = Kind(q)
    BY <1>1 DEF Kind
<1>4. ASSUME NEW m \in Rows' PROVE ValidatePublicKey(m.key)
    <2>1. CASE AddMachine(r) /\ m = NewMachine(r)
        <3>1. m.key = ask[r].key /\ at[r] = "addMachine"
            BY <2>1, AddingMachine DEF NewMachine
        <3> QED BY <3>1 DEF KeysInv
    <2>2. CASE \E n \in Rows : SameMachine(r, m, n)
        BY <2>2 DEF SameMachine, KeysInv
    <2> QED BY <2>1, <2>2, StepRows
<1>5. ASSUME NEW q \in Requests,
             \/ Kind(q) = "initialSetup" /\ InFlight(q)'
             \/ at'[q] \in {"newName", "addMachine", "update"}
      PROVE  ValidatePublicKey(ask[q].key)
    <2>1. CASE q # r
        BY <1>2, <1>5, <2>1 DEF KeysInv, InFlight
    <2>2. CASE q = r /\ at'[r] \in {"newName", "addMachine", "update"}
        <3>1. \/ Kind(r) = "initialSetup" /\ at[r] = "addUser"
              \/ at[r] = "newName"
              \/ ValidatePublicKey(ask[r].key)
            BY <1>1, <2>2, Inserting
        <3> QED BY <2>2, <3>1 DEF KeysInv, InFlight
    <2>3. CASE q = r /\ Kind(r) = "initialSetup"
        <3>1. CASE InFlight(r)
            BY <2>3, <3>1 DEF KeysInv
        <3>2. CASE ~InFlight(r)
            <4>1. Arrive(r) /\ Admitted(ask[r])
                <5>1. Arrive(r)
                    BY <3>2 DEF InFlight, Step, Fails, Abandons, FindUser, FindMachine,
                       NewUser, CheckName, NoRotation, FindKey, List, Pending, FindNamed,
                       AddUser, AddMachine, Store, Unreadable, DeleteKey, Upsert, Upserted,
                       Remove, UpdateKey, Clear, Begin, Commit, CommitFails, Rollback, Reads, Writes,
                       Finding, Writing, Waiting
                <5>2. ~Admitted(ask[r]) => at'[r] = "done"
                    BY <5>1 DEF Arrive, Ends, Leaves, TypeOK
                <5> QED BY <1>5, <2>3, <5>1, <5>2 DEF InFlight
            <4> QED BY <2>3, <4>1 DEF Admitted, Kind
        <3> QED BY <3>1, <3>2
    <2> QED BY <1>5, <2>1, <2>2, <2>3
<1> QED BY <1>1, <1>3, <1>4, <1>5 DEF KeysInv

(* What a handler knows changes only when it looks something up.           *)
LEMMA Knowing ==
    ASSUME TypeOK, SeenInv, NEW r \in Requests, Moves(r)
    PROVE  \/ local'[r] = Blank
           \/ /\ local'[r].who = local[r].who
              /\ local'[r].acct = local[r].acct \/ local'[r].who = NoMachine
                   \/ Kind(r) = "initialSetup"
           \/ /\ at[r] = "machine"
              /\ local'[r].acct = local[r].acct
              /\ local'[r].who \in view.machines
              /\ local'[r].who.user = local[r].acct
              /\ VerifyJWT(ask[r].token, local'[r].who.key)
<1>1. /\ Kind(r) \in Kinds /\ at[r] \in PlacesOf(Kind(r))
      /\ local \in [Requests -> Locals] /\ at \in [Requests -> Places]
    BY AskTypes DEF TypeOK
<1>2. CASE LeavesEarly(r)
    BY <1>1, <1>2 DEF LeavesEarly, MovesTo
<1>3. CASE Starts(r)
    BY <1>1, <1>3 DEF Starts, MovesTo
<1>4. CASE GoesOn(r)
    BY <1>1, <1>4 DEF GoesOn, MovesTo
<1>5. CASE FindsUser(r)
    <2>1. local[r].who = NoMachine
        BY <1>5 DEF FindsUser, SeenInv, Blank
    <2>2. local'[r].who = local[r].who
        BY <1>1, <1>5 DEF FindsUser, MovesTo, Locals
    <2> QED BY <2>1, <2>2
<1>6. CASE FindsMachine(r)
    <2>1. PICK m \in Named(local[r].acct, ask[r].machine) :
             /\ VerifyJWT(ask[r].token, m.key)
             /\ MovesTo(r, To(r), [local[r] EXCEPT !.who = m])
        BY <1>6 DEF FindsMachine
    <2>2. local'[r].who = m /\ local'[r].acct = local[r].acct
        BY <1>1, <2>1 DEF MovesTo, Locals
    <2> QED BY <1>6, <2>1, <2>2 DEF FindsMachine, Named
<1>7. CASE LooksUp(r)
    BY <1>1, <1>7 DEF LooksUp, MovesTo, Locals
<1>8. CASE IsNewUser(r)
    <2>1. Kind(r) = "initialSetup"
        BY <1>1, <1>8, Routes DEF IsNewUser
    <2> QED BY <1>1, <1>8, <2>1 DEF IsNewUser, MovesTo, Locals
<1>9. CASE Posts(r)
    BY <1>1, <1>9 DEF Posts, MovesTo, Locals
<1> QED BY <1>2, <1>3, <1>4, <1>5, <1>6, <1>7, <1>8, <1>9 DEF Moves

LEMMA AuthStep ==
    ASSUME TypeOK, SeenInv, AuthInv, NEW r \in Requests, Step(r)
    PROVE  AuthInv'
<1>1. Moves(r) /\ ask' = ask
    BY StepMoves
<1>2. \A q \in Requests \ {r} : local'[q] = local[q]
    BY <1>1, OthersStay
<1>3. ASSUME NEW q \in Requests, Authenticated(q)'
      PROVE  /\ Kind(q) # "initialSetup"
             /\ local'[q].who.user = local'[q].acct
             /\ Genuine(ask[q].token, local'[q].who.key)
    <2>1. CASE q # r
        BY <1>1, <1>2, <1>3, <2>1 DEF AuthInv, Authenticated, Kind
    <2>2. CASE q = r
        <3>1. local'[r].who # NoMachine /\ Kind(r) # "newMachineChallenge"
            BY <1>1, <1>3, <2>2 DEF Authenticated, Kind
        <3>2. local'[r] # Blank
            BY <3>1 DEF Blank
        <3>3. CASE local'[r].who = local[r].who
            <4>1. Authenticated(r)
                BY <3>1, <3>3 DEF Authenticated
            <4>2. CASE at[r] = "machine" /\ local'[r].acct = local[r].acct
                BY <2>2, <3>3, <4>1, <4>2 DEF AuthInv
            <4>3. CASE local'[r].acct = local[r].acct \/ Kind(r) = "initialSetup"
                BY <2>2, <3>3, <4>1, <4>3 DEF AuthInv
            <4> QED BY <1>1, <3>1, <3>2, <4>2, <4>3, Knowing
        <3>4. CASE at[r] = "machine" /\ local'[r].who \in view.machines
            <4>1. Kind(r) # "initialSetup"
                BY <3>4, AskTypes, Routes DEF TypeOK
            <4>2. CASE local'[r].who = local[r].who
                BY <3>3, <4>2, <2>2
            <4>3. CASE local'[r].who # local[r].who
                <5>1. /\ local'[r].acct = local[r].acct
                      /\ local'[r].who.user = local[r].acct
                      /\ VerifyJWT(ask[r].token, local'[r].who.key)
                    BY <1>1, <3>2, <4>3, Knowing
                <5>2. ask[r].token \in TokenForms /\ local'[r].who.key \in KeyFiles
                    BY <3>4, AskTypes DEF TypeOK, Tables, Machines
                <5> QED BY <2>2, <4>1, <5>1, <5>2, VerifiedIsGenuine
            <4> QED BY <4>2, <4>3
        <3> QED BY <1>1, <3>2, <3>3, <3>4, Knowing
    <2> QED BY <2>1, <2>2
<1>4. \A q \in Requests : Kind(q)' = Kind(q)
    BY <1>1 DEF Kind
<1> QED BY <1>1, <1>3, <1>4 DEF AuthInv

(* An upload past its look-up of rotations came there from that look-up.   *)
LEMMA Uploading ==
    ASSUME TypeOK, NEW r \in Requests, Moves(r), Kind(r) = "addData",
           at'[r] \in {"begin", "store", "commit"}
    PROVE  GoesOn(r) /\ at[r] \in {"noRotation", "begin", "store"}
<1>1. /\ Kind(r) \in Kinds /\ at[r] \in PlacesOf(Kind(r))
      /\ at \in [Requests -> Places]
    BY AskTypes DEF TypeOK
<1>2. ~LeavesEarly(r)
    BY <1>1 DEF LeavesEarly, MovesTo
<1>3. ~Starts(r)
    BY <1>1, Routes DEF Starts, MovesTo, To
<1>4. ~FindsUser(r) /\ ~FindsMachine(r)
    BY <1>1, Routes DEF FindsUser, FindsMachine, MovesTo, To
<1>5. ~LooksUp(r) /\ ~Posts(r) /\ ~IsNewUser(r)
    BY <1>1, Routes DEF LooksUp, Posts, IsNewUser
<1>6. GoesOn(r)
    BY <1>2, <1>3, <1>4, <1>5 DEF Moves
<1> QED BY <1>1, <1>6, Routes DEF GoesOn

LEMMA UploadStep ==
    ASSUME TypeOK, MetInv, UploadMeetsRotation, NEW r \in Requests, Step(r)
    PROVE  UploadMeetsRotation'
<1>1. Moves(r) /\ ask' = ask
    BY StepMoves
<1>2. \A q \in Requests \ {r} : at'[q] = at[q] /\ local'[q] = local[q]
    BY <1>1, OthersStay
<1>3. ASSUME NEW q \in Requests, Kind(q) = "addData", at'[q] \in {"begin", "store", "commit"},
             NEW x \in view'.rotations, x.machine = local'[q].who.id
      PROVE  Raced(q, TxKinds)'
    <2>1. CASE q # r
        <3>1. at[q] \in {"begin", "store", "commit"} /\ x.machine = local[q].who.id
            BY <1>2, <1>3, <2>1
        <3>2. InFlight(q) /\ at[q] # "idle"
            BY <3>1 DEF InFlight
        <3>3. CASE x \in view.rotations
            BY <1>3, <3>1, <3>2, <3>3, StaysRaced DEF UploadMeetsRotation
        <3>4. CASE x \notin view.rotations
            <4>1. Raced(q, TxKinds)
                BY <1>3, <2>1, <3>2, <3>4, StepPosts, Meeting
            <4> QED BY <3>2, <4>1, StaysRaced
        <3> QED BY <3>3, <3>4
    <2>2. CASE q = r
        <3>1. GoesOn(r) /\ at[r] \in {"noRotation", "begin", "store"}
            BY <1>1, <1>3, <2>2, Uploading
        <3>2. local'[r] = local[r] /\ at[r] # "idle"
            BY <3>1 DEF GoesOn, MovesTo, TypeOK
        <3>3. x \in view.rotations
            BY <1>3, <3>1, StepPosts DEF Upsert, Writes, Reverts, CommitFails, Rollback
        <3>4. at[r] # "noRotation"
            BY <1>3, <2>2, <3>1, <3>2, <3>3 DEF GoesOn
        <3> QED BY <1>3, <2>2, <3>1, <3>2, <3>3, <3>4, StaysRaced DEF UploadMeetsRotation
    <2> QED BY <2>1, <2>2
<1>4. \A q \in Requests : Kind(q)' = Kind(q)
    BY <1>1 DEF Kind
<1> QED BY <1>3, <1>4 DEF UploadMeetsRotation

LEMMA AuthorityStep ==
    ASSUME TypeOK, MetInv, SeenInv, AuthorityIsCurrent, NEW r \in Requests, Step(r)
    PROVE  AuthorityIsCurrent'
<1>1. Moves(r) /\ ask' = ask
    BY StepMoves
<1>2. \A q \in Requests \ {r} : at'[q] = at[q] /\ local'[q] = local[q]
    BY <1>1, OthersStay
<1>3. \A q \in Requests : Kind(q)' = Kind(q)
    BY <1>1 DEF Kind
<1> DEFINE Excused(q) ==
              /\ Kind(q) = "newMachineChallenge"
              /\ \E p \in met[q] : Kind(p) = "challengeResponse" /\ Raced(p, KeyKinds)
<1>4. ASSUME NEW q \in Requests, local[q].who # NoMachine, Raced(q, KeyKinds) \/ Excused(q)
      PROVE  Raced(q, KeyKinds)' \/ Excused(q)'
    <2>1. at[q] # "idle"
        BY <1>4 DEF TypeOK, InFlight, Blank
    <2>2. CASE Raced(q, KeyKinds)
        BY <2>1, <2>2, StaysRaced
    <2>3. CASE Excused(q)
        <3>1. PICK p \in met[q] : Kind(p) = "challengeResponse" /\ Raced(p, KeyKinds)
            BY <2>3
        <3>2. p \in Requests /\ at[p] # "idle"
            BY <3>1 DEF TypeOK, MetInv, Raced
        <3>3. Raced(p, KeyKinds)'
            BY <3>1, <3>2, StaysRaced
        <3>4. p \in met'[q]
            BY <2>1, <3>1, MetGrows
        <3> QED BY <1>3, <2>3, <3>1, <3>2, <3>3, <3>4
    <2> QED BY <1>4, <2>2, <2>3
<1>5. ASSUME NEW q \in Requests, local'[q].who # NoMachine, local'[q].who \notin view'.machines
      PROVE  \/ Raced(q, KeyKinds)'
             \/ Kind(q) = "deleteMachine" /\ at'[q] = "commit"
             \/ Excused(q)'
    <2>1. CASE q # r
        <3>1. local'[q] = local[q] /\ at'[q] = at[q]
            BY <1>2, <2>1
        <3>2. InFlight(q) /\ at[q] # "idle"
            BY <1>5, <3>1 DEF TypeOK, InFlight, Blank
        <3>3. CASE local[q].who \in view.machines
            <4>1. Raced(q, KeyKinds)
                BY <1>5, <2>1, <3>1, <3>2, <3>3, StepLoses, Meeting
            <4> QED BY <3>2, <4>1, StaysRaced
        <3>4. CASE local[q].who \notin view.machines
            BY <1>4, <1>5, <3>1, <3>4 DEF AuthorityIsCurrent
        <3> QED BY <3>3, <3>4
    <2>2. CASE q = r
        <3>1. at'[r] # "done" /\ local'[r] # Blank
            BY <1>5, <2>2, StepTypes DEF TypeOK, InFlight, Blank
        <3>2. CASE local'[r].who \in view.machines
            <4>1. Remove(r)
                <5>1. Remove(r) \/ UpdateKey(r) \/ Reverts(r)
                    BY <1>5, <2>2, <3>2, StepLoses
                <5> QED BY <3>1, <5>1 DEF UpdateKey, Reverts, CommitFails, Rollback, Ends, Leaves,
                       TypeOK
            <4>2. at[r] = "remove" /\ at'[r] = To(r)
                BY <4>1 DEF Remove, Writes, Continues, To, TypeOK
            <4>3. Kind(r) = "deleteMachine" /\ To(r) = "commit"
                BY <4>2, AskTypes, Routes DEF TypeOK, To
            <4> QED BY <2>2, <4>2, <4>3
        <3>3. CASE local'[r].who \notin view.machines
            <4>1. local'[r].who = local[r].who
                BY <1>1, <3>1, <3>3, Knowing
            <4>2. at[r] # "commit"
                BY <3>1, DoneIsDone
            <4> QED BY <1>4, <1>5, <2>2, <3>3, <4>1, <4>2 DEF AuthorityIsCurrent
        <3> QED BY <3>2, <3>3
    <2> QED BY <2>1, <2>2
<1> QED BY <1>3, <1>5 DEF AuthorityIsCurrent

-----------------------------------------------------------------------------
(* The invariant holds at first, and the other steps keep it.               *)

LEMMA InitHolds == Init => AccountsInv
<1> SUFFICES ASSUME Init PROVE AccountsInv
    OBVIOUS
<1>1. /\ \A r \in Requests : at[r] = "idle" /\ local[r] = Blank /\ met[r] = {}
      /\ view.users = FirstUsers /\ view.machines = FirstMachines
      /\ view.rotations = {} /\ saved = view
    BY DEF Init
<1>2. \A r \in Requests : ~InFlight(r)
    BY <1>1 DEF InFlight
<1>3. Rows = FirstMachines
    BY <1>1 DEF Rows
<1>4. \A m \in Rows : m.id \notin Requests
    BY <1>3, AccountsAssumption
<1>5. MetInv
    BY <1>1, <1>2 DEF MetInv
<1>6. RowsInv
    BY <1>3, <1>4, AccountsAssumption DEF RowsInv, Given
<1>7. SessionInv
    BY <1>1, AccountsAssumption DEF SessionInv
<1>8. SeenInv
    BY <1>1 DEF SeenInv, Blank
<1>9. RotationsInv
    BY <1>1 DEF RotationsInv
<1>10. UserNamesInv
    BY <1>1, AccountsAssumption DEF UserNamesInv
<1>11. NamesInv
    BY <1>1, <1>3, AccountsAssumption DEF NamesInv
<1>12. KeysInv
    BY <1>1, <1>2, <1>3, AccountsAssumption DEF KeysInv
<1>13. AuthInv /\ AuthorityIsCurrent
    BY <1>1 DEF AuthInv, Authenticated, AuthorityIsCurrent, Blank
<1>14. UploadMeetsRotation
    BY <1>1 DEF UploadMeetsRotation
<1> QED BY <1>5, <1>6, <1>7, <1>8, <1>9, <1>10, <1>11, <1>12, <1>13, <1>14, InitTypes
        DEF AccountsInv

LEMMA StepHolds ==
    ASSUME AccountsInv, NEW r \in Requests, Step(r)
    PROVE  AccountsInv'
BY StepTypes, MetStep, RowsStep, SessionStep, SeenStep, RotationsStep, UserNamesStep, NamesStep,
   KeysStep, AuthStep, UploadStep, AuthorityStep
   DEF AccountsInv

LEMMA ApproveHolds ==
    ASSUME AccountsInv, NEW c \in Requests, NEW q \in Requests, Approve(c, q)
    PROVE  AccountsInv'
<1> USE DEF AccountsInv
<1>1. /\ Kind(c) \in Kinds /\ at[c] \in PlacesOf(Kind(c)) /\ at[c] = "challenge"
      /\ Kind(q) \in Kinds /\ at[q] \in PlacesOf(Kind(q)) /\ at[q] = "answer"
      /\ local \in [Requests -> Locals] /\ at \in [Requests -> Places]
    BY AskTypes DEF TypeOK, Approve
<1>2. Kind(c) = "newMachineChallenge" /\ Kind(q) = "challengeResponse" /\ c # q
    BY <1>1, Routes
<1>3. /\ at'[c] = "newName" /\ at'[q] = "done"
      /\ local'[c] = [local[c] EXCEPT !.who = local[q].who] /\ local'[q] = Blank
      /\ \A r \in Requests \ {c, q} : at'[r] = at[r] /\ local'[r] = local[r]
      /\ ask' = ask /\ met' = met /\ view' = view /\ saved' = saved
    <2>1. NewMachineChallenge.challenge = "newName"
        BY DEF NewMachineChallenge
    <2> QED BY <1>1, <1>2, <2>1 DEF Approve
<1>4. /\ \A r \in Requests : Kind(r)' = Kind(r)
      /\ \A r \in Requests : \A kinds : Raced(r, kinds)' = Raced(r, kinds)
      /\ Rows' = Rows /\ RowIds(view)' = RowIds(view) /\ RowIds(saved)' = RowIds(saved)
    BY <1>3 DEF Kind, Raced, Rows, RowIds
<1>5. \A id : Given(id) => Given(id)'
    BY <1>1, <1>3 DEF Given
<1>6. InFlight(c) /\ InFlight(q) /\ \A r \in Requests : InFlight(r)' => InFlight(r)
    BY <1>1, <1>3 DEF InFlight
<1>7. TypeOK'
    BY ApproveTypes
<1>8. MetInv'
    BY <1>1, <1>3, <1>6 DEF MetInv
<1>9. RowsInv'
    BY <1>4, <1>5 DEF RowsInv
<1>10. SessionInv'
    BY <1>1, <1>2, <1>3, <1>4 DEF SessionInv
<1>11. SeenInv'
    <2>1. ASSUME NEW r \in Requests
          PROVE  /\ Kind(r) \in {"getMachines", "postKeyRotation", "deleteMachine"} =>
                       r \notin {c, q}
                 /\ at'[r] = "user" => r \notin {c, q}
        BY <1>2, <1>3
    <2> QED BY <1>3, <1>4, <1>5, <2>1 DEF SeenInv
<1>12. RotationsInv'
    BY <1>3, <1>4, <1>5 DEF RotationsInv
<1>13. UserNamesInv'
    BY <1>3, <1>4 DEF UserNamesInv
<1>14. NamesInv'
    BY <1>3, <1>4 DEF NamesInv
<1>15. KeysInv'
    <2>1. ValidatePublicKey(ask[c].key)
        BY DEF Approve
    <2> QED BY <1>2, <1>3, <1>4, <1>6, <2>1 DEF KeysInv
<1>16. AuthInv'
    <2>1. ~Authenticated(c)' /\ ~Authenticated(q)'
        BY <1>2, <1>3, <1>4 DEF Authenticated, Blank
    <2>2. \A r \in Requests \ {c, q} : Authenticated(r)' = Authenticated(r)
        BY <1>3, <1>4 DEF Authenticated
    <2> QED BY <1>3, <1>4, <2>1, <2>2 DEF AuthInv
<1>17. UploadMeetsRotation'
    BY <1>2, <1>3, <1>4 DEF UploadMeetsRotation
<1>18. AuthorityIsCurrent'
    <2>1. SUFFICES ASSUME NEW r \in Requests, local'[r].who # NoMachine,
                          local'[r].who \notin view.machines
                   PROVE  \/ Raced(r, KeyKinds)
                          \/ Kind(r) = "deleteMachine" /\ at'[r] = "commit"
                          \/ /\ Kind(r) = "newMachineChallenge"
                             /\ \E p \in met[r] : Kind(p) = "challengeResponse"
                                                  /\ Raced(p, KeyKinds)
        <3>1. \A p \in Requests : met[p] \subseteq Requests
            BY DEF TypeOK
        <3> QED BY <1>3, <1>4, <3>1 DEF AuthorityIsCurrent
    <2>2. r # q
        BY <1>3, <2>1 DEF Blank
    <2>3. CASE r = c
        <3>1. local[q].who # NoMachine /\ local[q].who \notin view.machines
            BY <1>1, <1>3, <2>1, <2>3 DEF Locals
        <3>2. Raced(q, KeyKinds)
            BY <1>2, <3>1 DEF AuthorityIsCurrent
        <3>3. q \in met[c]
            BY <1>2, <1>6 DEF MetInv
        <3> QED BY <1>2, <2>3, <3>2, <3>3
    <2>4. CASE r # c
        BY <1>3, <2>1, <2>2, <2>4 DEF AuthorityIsCurrent
    <2> QED BY <2>3, <2>4
<1> QED BY <1>7, <1>8, <1>9, <1>10, <1>11, <1>12, <1>13, <1>14, <1>15, <1>16, <1>17, <1>18

LEMMA EndHolds ==
    ASSUME AccountsInv, ConnectionEnds
    PROVE  AccountsInv'
<1> USE DEF AccountsInv
<1>1. /\ \A r \in Requests : /\ at'[r] \in {"idle", "done"} /\ local'[r] = Blank
                             /\ at[r] # "idle" => at'[r] = "done"
                             /\ at'[r] = "idle" => at[r] = "idle"
      /\ ask' = ask /\ met' = met /\ view' = saved /\ saved' = saved
    BY DEF ConnectionEnds, InFlight, TypeOK
<1>2. /\ \A r \in Requests : Kind(r)' = Kind(r) /\ ~InFlight(r)'
      /\ \A r \in Requests : \A kinds : Raced(r, kinds)' = Raced(r, kinds)
      /\ Rows' = saved.machines /\ Rows' \subseteq Rows
    BY <1>1 DEF Kind, Raced, Rows, InFlight
<1>3. \A id : Given(id) => Given(id)'
    BY <1>1 DEF Given
<1>4. MetInv'
    BY <1>1, <1>2 DEF MetInv
<1>5. RowsInv'
    BY <1>2, <1>3 DEF RowsInv
<1>6. SessionInv'
    BY <1>1 DEF SessionInv
<1>7. SeenInv'
    BY <1>1, <1>2 DEF SeenInv, Blank
<1>8. RotationsInv'
    BY <1>1, <1>2, <1>3 DEF RotationsInv
<1>9. UserNamesInv'
    BY <1>1, <1>2 DEF UserNamesInv, SessionInv
<1>10. NamesInv'
    BY <1>1, <1>2 DEF NamesInv
<1>11. KeysInv'
    BY <1>1, <1>2 DEF KeysInv
<1>12. AuthInv' /\ AuthorityIsCurrent'
    BY <1>1 DEF AuthInv, Authenticated, AuthorityIsCurrent, Blank
<1>13. UploadMeetsRotation'
    BY <1>1 DEF UploadMeetsRotation
<1> QED BY <1>4, <1>5, <1>6, <1>7, <1>8, <1>9, <1>10, <1>11, <1>12, <1>13, EndTypes

LEMMA StutterHolds ==
    ASSUME AccountsInv, UNCHANGED vars
    PROVE  AccountsInv'
<1> USE DEF vars, AccountsInv
<1>1. TypeOK'
    BY DEF TypeOK, InFlight, Kind
<1>2. MetInv' /\ RowsInv' /\ SessionInv'
    BY DEF MetInv, RowsInv, SessionInv, InFlight, Given, Rows, RowIds, Kind
<1>3. SeenInv' /\ RotationsInv'
    BY DEF SeenInv, RotationsInv, Given, Rows, Kind
<1>4. UserNamesInv' /\ NamesInv' /\ KeysInv'
    BY DEF UserNamesInv, NamesInv, KeysInv, Rows, Raced, InFlight, Kind
<1>5. AuthInv' /\ UploadMeetsRotation' /\ AuthorityIsCurrent'
    BY DEF AuthInv, UploadMeetsRotation, AuthorityIsCurrent, Authenticated, Raced, Kind
<1> QED BY <1>1, <1>2, <1>3, <1>4, <1>5

-----------------------------------------------------------------------------
(* The theorems.                                                            *)

(* The invariant is inductive: what the handlers have looked up, the rows   *)
(* and the history of requests relate as AccountsInvariant says, always.    *)
THEOREM InvariantHolds == Spec => []AccountsInv
<1>1. AccountsInv /\ [Next]_vars => AccountsInv'
    BY StepHolds, ApproveHolds, EndHolds, StutterHolds DEF Next
<1> QED BY <1>1, InitHolds, PTL DEF Spec

(* ConfigureAuth hands a handler a machine and the user it belongs to, the  *)
(* handler acts on rows of that user alone, and a rotation waits only at a  *)
(* machine of the account that posted it (auth.go:88-104,                   *)
(* keyrotation.go:46-51).                                                   *)
THEOREM AccountsAreApart == Spec => []Isolation
<1>1. AccountsInv => Isolation
    BY DEF AccountsInv, AuthInv, SeenInv, RotationsInv, Isolation, Rows
<1> QED BY <1>1, InvariantHolds, PTL

(* Whoever interleaves with it, DeleteMachine removes the machine that was  *)
(* named and UpdateMachineKey replaces the key of the machine that asks     *)
(* (machine.go:105-116, 124-175).                                           *)
THEOREM OwnersAloneChange == Spec => OnlyOwnersChange
<1>1. ASSUME AccountsInv, [Next]_vars PROVE OwnersChange
    <2>1. SUFFICES ASSUME NEW m \in view.machines, m \notin view'.machines, view' # saved
                   PROVE  \/ \E r \in Requests :
                                /\ at[r] = "remove" /\ ask[r].name = m.name
                                /\ local[r].acct = m.user
                                /\ m.id \notin {n.id : n \in view'.machines}
                          \/ \E r \in Requests :
                                /\ at[r] = "update" /\ local[r].who.id = m.id
                                /\ [m EXCEPT !.key = ask[r].key] \in view'.machines
        BY DEF OwnersChange
    <2>2. PICK r \in Requests : Step(r)
        BY <1>1, <2>1 DEF Next, vars, Approve, ConnectionEnds
    <2>3. TypeOK /\ SeenInv /\ view \in Tables
        BY <1>1 DEF AccountsInv, TypeOK
    <2>4. Remove(r) \/ UpdateKey(r)
        BY <2>1, <2>2, <2>3, StepLoses DEF Reverts, CommitFails, Rollback
    <2>5. CASE Remove(r)
        <3>1. /\ at[r] = "remove"
              /\ view'.machines = {n \in view.machines : n.id \notin local[r].seen}
            BY <2>3, <2>5 DEF Remove, Writes, Tables
        <3>2. Kind(r) = "deleteMachine"
            BY <2>3, <3>1, AskTypes, Routes DEF TypeOK
        <3>3. m.id \in local[r].seen
            BY <2>1, <3>1
        <3>4. m.user = local[r].acct /\ m.name = ask[r].name
            BY <2>3, <3>2, <3>3 DEF SeenInv, Rows
        <3> QED BY <3>1, <3>3, <3>4
    <2>6. CASE UpdateKey(r)
        <3>1. /\ at[r] = "update"
              /\ view'.machines =
                    {IF n.id = local[r].who.id THEN [n EXCEPT !.key = ask[r].key] ELSE n :
                       n \in view.machines}
            BY <2>3, <2>6 DEF UpdateKey, Writes, Tables
        <3>2. local[r].who.id = m.id
            BY <2>1, <3>1
        <3> QED BY <3>1, <3>2
    <2> QED BY <2>4, <2>5, <2>6
<1> QED BY <1>1, InvariantHolds, PTL DEF Spec, OnlyOwnersChange

(* Two users or two machines of a user share a name only if one of them was *)
(* created in a race with a request that creates or removes one, although   *)
(* each name is looked up apart from the insertion (user.go:90,             *)
(* machine.go:77).                                                          *)
THEOREM NamesAreUnique == Spec => []NamesUnique
<1>1. AccountsInv => NamesUnique
    BY DEF AccountsInv, UserNamesInv, NamesInv, SessionInv, NamesUnique, Rows
<1> QED BY <1>1, InvariantHolds, PTL

(* An upload goes on while a rotation waits for its machine only if the two *)
(* requests, or it and one that rolls back, were in flight together         *)
(* (data.go:103).                                                           *)
THEOREM UploadsMeetRotations == Spec => []UploadMeetsRotation
<1>1. AccountsInv => UploadMeetsRotation
    BY DEF AccountsInv
<1> QED BY <1>1, InvariantHolds, PTL

(* A handler acts for a machine that is gone or has another key only if it  *)
(* was in flight with the request that made it so (auth.go:98,              *)
(* live/main.go:83).                                                        *)
THEOREM AuthorityStaysCurrent == Spec => []AuthorityIsCurrent
<1>1. AccountsInv => AuthorityIsCurrent
    BY DEF AccountsInv
<1> QED BY <1>1, InvariantHolds, PTL

(* Every token that ConfigureAuth lets through, of whatever form, was       *)
(* signed for the machine's key and had an expiry to come, or, for an EC    *)
(* key alone, none at all (jwt.go:37-63, mldsa.go:75).                      *)
THEOREM TokensAreGenuine == Spec => []AcceptedIsGenuine
<1>1. AccountsInv => AcceptedIsGenuine
    BY DEF AccountsInv, AuthInv, AcceptedIsGenuine
<1> QED BY <1>1, InvariantHolds, PTL

(* Every key in the table is one that ConfigureAuth accepts tokens for      *)
(* (keys.go:33, jwt.go:36).                                                 *)
THEOREM RegisteredKeysCanSign == Spec => []RegisteredCanSign
<1>1. ASSUME AccountsInv PROVE RegisteredCanSign
    <2>1. \A m \in view.machines \union saved.machines :
             m.key \in KeyFiles /\ ValidatePublicKey(m.key)
        BY <1>1 DEF AccountsInv, TypeOK, Tables, Machines, KeysInv, Rows
    <2> QED BY <2>1, ValidCanSign DEF RegisteredCanSign
<1> QED BY <1>1, InvariantHolds, PTL
=============================================================================
