------------------------------ MODULE Accounts ------------------------------
(***************************************************************************)
(* What requests do to the rows of accounts: users, machines, pending      *)
(* rotations of the master key, and the data of a user.                    *)
(*                                                                         *)
(* A handler is a sequence of statements, and others run between any two.  *)
(* What it has read (its user, its machine, the rows it looked up) it keeps *)
(* and uses later.  All handlers are in one session of the database, so a  *)
(* statement reads what the session has written ("view"), committed or not,*)
(* and a commit or rollback is of the writes of all of them.  Requests     *)
(* models that session and its connection closely; here a statement that   *)
(* is refused or fails is one that fails, and once the connection is       *)
(* closed nothing of a handler in flight has an effect any more.           *)
(*                                                                         *)
(* The pairing of machines, modelled in Live, is here a request for a      *)
(* challenge and a machine's answer that approves it.                      *)
(*                                                                         *)
(* The tables' constraints are not in the repository.  ON CONFLICT needs   *)
(* those of rotations and data; of unique names, and of what becomes of    *)
(* the rotations of a removed machine, nothing is assumed.                 *)
(***************************************************************************)
EXTENDS Tokens, FiniteSets

CONSTANTS
    Requests,       (* the requests, each handled once                       *)
    Asks,           (* what a request may ask for                            *)
    Usernames, Names, Items,  (* of users, of machines, of their data        *)
    FirstUsers,     (* the rows there are at first                           *)
    FirstMachines,
    NoOne           (* no identifier                                         *)

(* A handler's places, in the order of its statements.                     *)
InitialSetup ==
    [idle |-> "begin", begin |-> "newUser", newUser |-> "addUser",
     addUser |-> "newName", newName |-> "addMachine", addMachine |-> "commit"]

NewMachineChallenge ==
    [idle |-> "user", user |-> "freeName", freeName |-> "challenge",
     challenge |-> "newName", newName |-> "addMachine", addMachine |-> "done"]

ChallengeResponse == [idle |-> "user", user |-> "machine", machine |-> "answer"]

(* The upserts of configurations, known hosts and keys are one: an upload   *)
(* has one row to store, of any of these.                                   *)
AddData ==
    [idle |-> "user", user |-> "machine", machine |-> "noRotation",
     noRotation |-> "begin", begin |-> "store", store |-> "commit"]

DeleteData ==
    [idle |-> "user", user |-> "machine", machine |-> "findKey",
     findKey |-> "begin", begin |-> "deleteKey", deleteKey |-> "commit"]

PostKeyRotation ==
    [idle |-> "user", user |-> "machine", machine |-> "list",
     list |-> "begin", begin |-> "upsert", upsert |-> "commit"]

GetKeyRotation ==
    [idle |-> "user", user |-> "machine", machine |-> "pending",
     pending |-> "reply"]

DeleteKeyRotation == [idle |-> "user", user |-> "machine", machine |-> "clear"]

(* Also one machine by its identifier, and the machines with their keys.   *)
GetMachines ==
    [idle |-> "user", user |-> "machine", machine |-> "list", list |-> "reply"]

DeleteMachine ==
    [idle |-> "user", user |-> "machine", machine |-> "findNamed",
     findNamed |-> "begin", begin |-> "remove", remove |-> "commit"]

UpdateMachineKey == [idle |-> "user", user |-> "machine", machine |-> "update"]

Handler ==
    [initialSetup |-> InitialSetup, newMachineChallenge |-> NewMachineChallenge,
     challengeResponse |-> ChallengeResponse, addData |-> AddData,
     deleteData |-> DeleteData, postKeyRotation |-> PostKeyRotation,
     getKeyRotation |-> GetKeyRotation, deleteKeyRotation |-> DeleteKeyRotation,
     getMachines |-> GetMachines, deleteMachine |-> DeleteMachine,
     updateMachineKey |-> UpdateMachineKey]

Kinds == DOMAIN Handler

(* A row's identifier is the request that created it.                      *)
Ids == Requests \union {u.id : u \in FirstUsers} \union {m.id : m \in FirstMachines}

Users     == [id : Ids, name : Usernames]
Machines  == [id : Ids, user : Ids, name : Names, key : KeyFiles]
Rotations == [machine : Ids, acct : Ids, by : Requests]
Data      == [id : Ids, user : Ids, item : Items]

Tables ==
    [users : SUBSET Users, machines : SUBSET Machines,
     rotations : SUBSET Rotations, data : SUBSET Data]

(* user and machine are the claims of the token, or the fields of the form; *)
(* the other fields are those of one kind or another.                       *)
AskForms ==
    [kind : Kinds, user : Usernames, machine : Names, token : TokenForms,
     name : Names, key : KeyFiles, item : Items, entries : SUBSET Ids]

ASSUME AccountsAssumption ==
    /\ Asks \subseteq AskForms
    /\ FirstUsers \subseteq Users /\ FirstMachines \subseteq Machines
    /\ \A u, v \in FirstUsers : u.name = v.name => u = v
    /\ \A m, n \in FirstMachines :
          m.id = n.id \/ (m.user = n.user /\ m.name = n.name) => m = n
    /\ \A m \in FirstMachines : ValidatePublicKey(m.key)
    /\ \A m \in FirstMachines : \E u \in FirstUsers : u.id = m.user
    /\ \A r \in Requests :
          /\ \A u \in FirstUsers : u.id # r
          /\ \A m \in FirstMachines : m.id # r
    /\ NoOne \notin Ids

VARIABLES
    ask,    (* what each request asks for                                    *)
    at,     (* where its handler is                                          *)
    local,  (* what the handler has read: its account, machine, other rows   *)
    met,    (* history: the requests in flight at a time with it             *)
    view,   (* the tables as the session sees them                           *)
    saved,  (* the tables as they are committed                              *)
    tx      (* the session's transaction: none, open or failed               *)

vars == <<ask, at, local, met, view, saved, tx>>

NoMachine == [id |-> NoOne]
Blank == [acct |-> NoOne, who |-> NoMachine, seen |-> {}]
Locals ==
    [acct : Ids \union {NoOne}, who : Machines \union {NoMachine}, seen : SUBSET Ids]

Finding  == {"user", "machine", "newUser", "freeName", "newName", "noRotation",
             "findKey", "list", "pending", "findNamed"}
Writing  == {"addUser", "addMachine", "store", "deleteKey", "upsert", "remove",
             "update", "clear"}
Waiting  == {"challenge", "answer", "reply"}
Places   == Finding \union Writing \union Waiting \union
            {"idle", "begin", "commit", "rollback", "done"}

InFlight(r) == at[r] \notin {"idle", "done"}
Kind(r)     == ask[r].kind

Init ==
    /\ ask \in [Requests -> Asks]
    /\ at = [r \in Requests |-> "idle"]
    /\ local = [r \in Requests |-> Blank]
    /\ met = [r \in Requests |-> {}]
    /\ view = [users |-> FirstUsers, machines |-> FirstMachines,
               rotations |-> {}, data |-> {}]
    /\ saved = view
    /\ tx = "none"

-----------------------------------------------------------------------------
(* Steps of a handler.                                                      *)

Leaves(r, to) ==
    /\ at' = [at EXCEPT ![r] = to]
    /\ local' = [local EXCEPT ![r] = Blank]

Ends(r) == Leaves(r, "done")

(* Goes to its next place, knowing l.                                      *)
Continues(r, l) ==
    LET next == Handler[Kind(r)][at[r]] IN
    /\ at' = [at EXCEPT ![r] = next]
    /\ local' = [local EXCEPT ![r] = IF next = "done" THEN Blank ELSE l]

(* A handler that gives up rolls back if it is in its transaction; the      *)
(* deferred function of DeleteMachine does not.                             *)
InTx(r) ==
    \/ at[r] \in {"newUser", "addUser", "store", "deleteKey", "upsert"}
    \/ Kind(r) = "initialSetup" /\ at[r] \in {"newName", "addMachine"}

GivesUp(r) == Leaves(r, IF InTx(r) THEN "rollback" ELSE "done")

(* A statement that only reads; in a failed transaction there is none.     *)
Reads(r, place) ==
    /\ at[r] = place
    /\ tx # "failed"
    /\ UNCHANGED <<ask, met, view, saved, tx>>

(* A statement that writes is committed at once outside a transaction.     *)
Writes(r, place, tables) ==
    /\ at[r] = place
    /\ tx # "failed"
    /\ view' = tables
    /\ saved' = IF tx = "none" THEN tables ELSE saved
    /\ UNCHANGED <<ask, met, tx>>

(* Keys of set-ups are validated before anything else; claims are read      *)
(* before the database is asked.                                            *)
Admitted(a) ==
    CASE a.kind = "initialSetup"        -> ValidatePublicKey(a.key)
      [] a.kind = "newMachineChallenge" -> TRUE
      [] OTHER                          -> ExtractAuthClaims(a.token)

Arrive(r) ==
    /\ at[r] = "idle"
    /\ IF Admitted(ask[r])
       THEN /\ Continues(r, Blank)
            /\ met' = [q \in Requests |->
                         IF q = r THEN {p \in Requests : InFlight(p)}
                         ELSE IF InFlight(q) THEN met[q] \union {r}
                         ELSE met[q]]
       ELSE Ends(r) /\ UNCHANGED met
    /\ UNCHANGED <<ask, view, saved, tx>>

(* A statement fails, or is refused; or a client that is waited for leaves, *)
(* or a timer fires.  BEGIN, COMMIT and ROLLBACK have actions of their own. *)
Fails(r) ==
    /\ at[r] \in Finding \union Writing
    /\ tx' \in IF tx = "open" THEN {"open", "failed"} ELSE {tx}
    /\ GivesUp(r)
    /\ UNCHANGED <<ask, met, view, saved>>

Abandons(r) ==
    /\ at[r] \in Waiting
    /\ Ends(r)
    /\ UNCHANGED <<ask, met, view, saved, tx>>

-----------------------------------------------------------------------------
(* Look-ups.                                                                *)

Named(acct, name) == {m \in view.machines : m.user = acct /\ m.name = name}

(* GetUserByUsername.                                                      *)
FindUser(r) ==
    /\ Reads(r, "user")
    /\ LET found == {u \in view.users : u.name = ask[r].user} IN
       \/ \E u \in found : Continues(r, [local[r] EXCEPT !.acct = u.id])
       \/ found = {} /\ Ends(r)

(* The rest of ConfigureAuth: of several machines of a name, any.  A new    *)
(* key is validated before the next statement.                              *)
FindMachine(r) ==
    /\ Reads(r, "machine")
    /\ LET found == Named(local[r].acct, ask[r].machine)
           accepts(m) ==
               /\ VerifyJWT(ask[r].token, m.key)
               /\ Kind(r) = "updateMachineKey" => ValidatePublicKey(ask[r].key)
       IN
       \/ \E m \in found : accepts(m) /\ Continues(r, [local[r] EXCEPT !.who = m])
       \/ (\E m \in found : ~accepts(m)) /\ Ends(r)
       \/ found = {} /\ Ends(r)

(* CreateUserTx: a name that is taken is a conflict.                       *)
NewUser(r) ==
    /\ Reads(r, "newUser")
    /\ IF \E u \in view.users : u.name = ask[r].user
       THEN GivesUp(r)
       ELSE Continues(r, local[r])

(* Variant: CreateMachine does not look the name up again.                 *)
UncheckedName(r, place) ==
    /\ Reads(r, place)
    /\ Continues(r, local[r])

(* The name is looked up before the challenge, and again by CreateMachine. *)
CheckName(r, place) ==
    /\ Reads(r, place)
    /\ IF Named(local[r].acct, ask[r].machine) = {}
       THEN Continues(r, local[r])
       ELSE GivesUp(r)

(* Variant: an upload is not held up by a rotation.                        *)
NoRotationUnchecked(r) ==
    /\ Reads(r, "noRotation")
    /\ Continues(r, local[r])

(* An upload is refused while the machine has a rotation to pick up.       *)
NoRotation(r) ==
    /\ Reads(r, "noRotation")
    /\ IF \E x \in view.rotations : x.machine = local[r].who.id
       THEN Ends(r)
       ELSE Continues(r, local[r])

(* GetUserKey: the identifier is one a client was given before, the row may *)
(* be gone or another account's.                                            *)
FindKey(r) ==
    /\ Reads(r, "findKey")
    /\ \/ \E d \in view.data :
             d.user = local[r].acct /\ Continues(r, [local[r] EXCEPT !.seen = {d.id}])
       \/ Ends(r)

(* What a handler goes on with: to tell of them, all the account's machines; *)
(* to post a rotation, those it names.                                      *)
Mine(r)   == {m.id : m \in {n \in view.machines : n.user = local[r].acct}}
Wanted(r) == IF Kind(r) = "postKeyRotation" THEN ask[r].entries ELSE Mine(r)

(* Variant: the machines a rotation names are not looked for in the list.  *)
ListUnchecked(r) ==
    /\ Reads(r, "list")
    /\ Continues(r, [local[r] EXCEPT !.seen = Wanted(r)])

(* GetUserMachines.  A rotation that names a machine of another account is *)
(* refused.                                                                 *)
List(r) ==
    /\ Reads(r, "list")
    /\ IF Wanted(r) \subseteq Mine(r)
       THEN Continues(r, [local[r] EXCEPT !.seen = Wanted(r)])
       ELSE Ends(r)

(* GetRotationForMachine, for the machine that asks.                       *)
Pending(r) ==
    /\ Reads(r, "pending")
    /\ LET found == {x \in view.rotations : x.machine = local[r].who.id} IN
       IF found = {} THEN Ends(r)
       ELSE Continues(r, [local[r] EXCEPT !.seen = {x.by : x \in found}])

(* The machine to remove.                                                  *)
FindNamed(r) ==
    /\ Reads(r, "findNamed")
    /\ LET found == Named(local[r].acct, ask[r].name) IN
       \/ \E m \in found : Continues(r, [local[r] EXCEPT !.seen = {m.id}])
       \/ found = {} /\ Ends(r)

-----------------------------------------------------------------------------
(* Statements that write.                                                   *)

(* Variant: that CreateUserTx failed goes unnoticed.                       *)
AddUserUnnoticed(r) ==
    /\ Reads(r, "addUser")
    /\ Continues(r, [local[r] EXCEPT !.acct = r])

AddUser(r) ==
    /\ Writes(r, "addUser",
              [view EXCEPT !.users = @ \union {[id |-> r, name |-> ask[r].user]}])
    /\ Continues(r, [local[r] EXCEPT !.acct = r])

AddMachine(r) ==
    /\ Writes(r, "addMachine",
              [view EXCEPT !.machines = @ \union
                 {[id |-> r, user |-> local[r].acct, name |-> ask[r].machine,
                   key |-> ask[r].key]}])
    /\ Continues(r, local[r])

(* Upserts of configurations, known hosts and keys: a row that is there     *)
(* keeps its identifier.                                                    *)
Store(r) ==
    LET same == {d \in view.data : d.user = local[r].acct /\ d.item = ask[r].item}
        new  == [id |-> r, user |-> local[r].acct, item |-> ask[r].item]
    IN
    /\ Writes(r, "store",
              [view EXCEPT !.data = IF same = {} THEN @ \union {new} ELSE @])
    /\ Continues(r, local[r])

(* The known hosts cannot be parsed or written: Fails.  A file cannot be    *)
(* read: its row is not stored, but the deferred function commits.          *)
Unreadable(r) ==
    /\ at[r] = "store"
    /\ Continues(r, local[r])
    /\ UNCHANGED <<ask, met, view, saved, tx>>

DeleteKey(r) ==
    /\ Writes(r, "deleteKey",
              [view EXCEPT !.data =
                 {d \in @ : ~(d.user = local[r].acct /\ d.id \in local[r].seen)}])
    /\ Continues(r, local[r])

(* UpsertRotationTx for one of the machines the rotation names, of those    *)
(* the loop has not come to.                                                *)
Upsert(r) ==
    \E e \in local[r].seen :
       /\ Writes(r, "upsert",
                 [view EXCEPT !.rotations =
                    {x \in @ : x.machine # e} \union
                    {[machine |-> e, acct |-> local[r].acct, by |-> r]}])
       /\ local' = [local EXCEPT ![r].seen = @ \ {e}]
       /\ UNCHANGED at

(* The loop is at its end.                                                 *)
Upserted(r) ==
    /\ at[r] = "upsert" /\ local[r].seen = {}
    /\ Continues(r, local[r])
    /\ UNCHANGED <<ask, met, view, saved, tx>>

(* Variant: the machine is removed by its name.                            *)
RemoveByName(r) ==
    /\ Writes(r, "remove",
              [view EXCEPT !.machines = {m \in @ : m.name # ask[r].name}])
    /\ Continues(r, local[r])

(* What becomes of the machine's rotation is up to the schema.             *)
Remove(r) ==
    LET left == {x \in view.rotations : x.machine \notin local[r].seen} IN
    /\ \E rotations \in {view.rotations, left} :
          Writes(r, "remove",
                 [view EXCEPT !.machines = {m \in @ : m.id \notin local[r].seen},
                              !.rotations = rotations])
    /\ Continues(r, local[r])

(* Variant: the row is written as a whole, whether it is there or not.     *)
UpdateKeyOrAdd(r) ==
    /\ Writes(r, "update",
              [view EXCEPT !.machines =
                 {m \in @ : m.id # local[r].who.id} \union
                 {[local[r].who EXCEPT !.key = ask[r].key]}])
    /\ Ends(r)

UpdateKey(r) ==
    /\ Writes(r, "update",
              [view EXCEPT !.machines =
                 {IF m.id = local[r].who.id THEN [m EXCEPT !.key = ask[r].key]
                  ELSE m : m \in @}])
    /\ Ends(r)

(* Variant: the row of the machine is deleted, not that of its rotation.   *)
ClearMachine(r) ==
    /\ Writes(r, "clear",
              [view EXCEPT !.machines = {m \in @ : m.id # local[r].who.id}])
    /\ Ends(r)

Clear(r) ==
    /\ Writes(r, "clear",
              [view EXCEPT !.rotations =
                 {x \in @ : x.machine # local[r].who.id}])
    /\ Ends(r)

-----------------------------------------------------------------------------
(* The session's transaction.                                               *)

(* BEGIN in an open transaction is a warning.                              *)
Begin(r) ==
    /\ at[r] = "begin"
    /\ tx # "failed"
    /\ tx' = "open"
    /\ Continues(r, local[r])
    /\ UNCHANGED <<ask, met, view, saved>>

Commit(r) ==
    /\ at[r] = "commit"
    /\ tx # "failed"
    /\ saved' = view
    /\ tx' = "none"
    /\ Ends(r)
    /\ UNCHANGED <<ask, met, view>>

(* Variant: what was not committed is still seen.                          *)
CommitFailsKeeping(r) ==
    /\ at[r] = "commit"
    /\ tx # "none"
    /\ tx' = "none"
    /\ Ends(r)
    /\ UNCHANGED <<ask, met, view, saved>>

(* The database refuses, or the transaction has failed.                    *)
CommitFails(r) ==
    /\ at[r] = "commit"
    /\ tx # "none"
    /\ view' = saved
    /\ tx' = "none"
    /\ Ends(r)
    /\ UNCHANGED <<ask, met, saved>>

Rollback(r) ==
    /\ at[r] = "rollback"
    /\ view' = saved
    /\ tx' = "none"
    /\ Ends(r)
    /\ UNCHANGED <<ask, met, saved>>

-----------------------------------------------------------------------------
(* A machine of the account whose name the challenger gave answers; the     *)
(* challenger then sends its key, which is validated.                       *)
Approve(c, q) ==
    /\ at[c] = "challenge" /\ at[q] = "answer"
    /\ ask[c].user = ask[q].user
    /\ ValidatePublicKey(ask[c].key)
    /\ at' = [at EXCEPT ![c] = NewMachineChallenge.challenge, ![q] = "done"]
    /\ local' = [local EXCEPT ![c].who = local[q].who, ![q] = Blank]
    /\ UNCHANGED <<ask, met, view, saved, tx>>

(* The connection is lost or closed, or the process ends: what is in flight *)
(* has no effect any more.                                                  *)
ConnectionEnds ==
    /\ at' = [r \in Requests |-> IF InFlight(r) THEN "done" ELSE at[r]]
    /\ local' = [r \in Requests |-> Blank]
    /\ view' = saved
    /\ tx' = "none"
    /\ UNCHANGED <<ask, met, saved>>

Step(r) ==
    \/ Arrive(r) \/ Fails(r) \/ Abandons(r)
    \/ FindUser(r) \/ FindMachine(r) \/ NewUser(r)
    \/ CheckName(r, "freeName") \/ CheckName(r, "newName")
    \/ NoRotation(r) \/ FindKey(r) \/ List(r) \/ Pending(r) \/ FindNamed(r)
    \/ AddUser(r) \/ AddMachine(r) \/ Store(r) \/ Unreadable(r) \/ DeleteKey(r)
    \/ Upsert(r) \/ Upserted(r) \/ Remove(r) \/ UpdateKey(r) \/ Clear(r)
    \/ Begin(r) \/ Commit(r) \/ CommitFails(r) \/ Rollback(r)

Next ==
    \/ \E r \in Requests : Step(r)
    \/ \E c, q \in Requests : Approve(c, q)
    \/ ConnectionEnds

Spec == Init /\ [][Next]_vars

-----------------------------------------------------------------------------
(* Properties.                                                              *)

(* Handlers that have a transaction.                                       *)
TxKinds == {"initialSetup", "addData", "deleteData", "postKeyRotation", "deleteMachine"}

PlacesOf(kind) ==
    DOMAIN Handler[kind] \union {Handler[kind][p] : p \in DOMAIN Handler[kind]}
       \union (IF kind \in TxKinds THEN {"rollback", "done"} ELSE {"done"})

Early == {"idle", "user", "newUser", "addUser", "rollback", "done"}

(* Every variable has its type, handlers are at places of their kind, one   *)
(* that is not in flight knows nothing, one that has passed the look-up or  *)
(* insertion of its user has an account, and only in a transaction does the *)
(* session see what is not committed.                                       *)
TypeOK ==
    /\ ask \in [Requests -> Asks]
    /\ at \in [Requests -> Places]
    /\ \A r \in Requests : at[r] \in PlacesOf(Kind(r))
    /\ local \in [Requests -> Locals]
    /\ \A r \in Requests :
          /\ InFlight(r) \/ local[r] = Blank
          /\ local[r].acct \in Ids \/ at[r] \in Early
                \/ (Kind(r) = "initialSetup" /\ at[r] = "begin")
    /\ met \in [Requests -> SUBSET Requests]
    /\ view \in Tables /\ saved \in Tables
    /\ tx \in {"none", "open", "failed"}
    /\ tx = "none" => view = saved

(* Some request of these kinds was in flight together with r.              *)
Raced(r, kinds) == \E q \in met[r] : Kind(q) \in kinds

Naming   == {"deleteMachine", "initialSetup", "newMachineChallenge"}
KeyKinds == TxKinds \union {"updateMachineKey"}

(* A handler past ConfigureAuth, other than of the pairing's challenger.   *)
Authenticated(r) == local[r].who # NoMachine /\ Kind(r) # "newMachineChallenge"

(* Accounts are apart.  The middleware hands a handler a machine of the     *)
(* user it hands it; what a handler looked up and is about to list, remove  *)
(* or delete is its account's, although the rows may have changed since;    *)
(* and no account has a rotation waiting at a machine of another            *)
(* (auth.go:88-104, keyrotation.go:46-51), whatever is rolled back.         *)
Isolation ==
    /\ \A r \in Requests : Authenticated(r) => local[r].who.user = local[r].acct
    /\ \A r \in Requests : Kind(r) \in {"getMachines", "postKeyRotation", "deleteMachine"} =>
          \A m \in view.machines \union saved.machines :
             m.id \in local[r].seen => m.user = local[r].acct
    /\ \A t \in {view, saved} : \A x \in t.rotations : \A m \in t.machines :
          m.id = x.machine => m.user = x.acct

(* A machine leaves the account only if one of its machines asked for that  *)
(* by name, and gets another key only if it asked for that itself: or       *)
(* because what was not committed is rolled back.  The handlers act on an   *)
(* identifier looked up some statements before (machine.go:105-116).        *)
OwnersChange ==
    \A m \in view.machines :
       \/ m \in view'.machines
       \/ view' = saved
       \/ \E r \in Requests :
             /\ at[r] = "remove" /\ ask[r].name = m.name /\ local[r].acct = m.user
             /\ m.id \notin {n.id : n \in view'.machines}
       \/ \E r \in Requests :
             /\ at[r] = "update" /\ local[r].who.id = m.id
             /\ [m EXCEPT !.key = ask[r].key] \in view'.machines
OnlyOwnersChange == [][OwnersChange]_vars

(* A rotation that waits for a machine goes only when that machine takes it *)
(* away, when its account posts a newer one or removes the machine, or by a *)
(* rollback: a request of another account never does it, nor one that looks *)
(* a machine up which meanwhile is gone (keyrotation.go:46-60, 107).  Who   *)
(* owned the machine then is known from the rotation alone.                 *)
OwnersSettle ==
    \A x \in view.rotations :
       \/ x \in view'.rotations
       \/ view' = saved
       \/ \E r \in Requests :
             /\ local[r].acct = x.acct
             /\ \/ at[r] = "clear" /\ local[r].who.id = x.machine
                \/ at[r] = "upsert" /\ \E y \in view'.rotations : y.machine = x.machine /\ y.by = r
                \/ at[r] = "remove" /\ x.machine \notin {m.id : m \in view'.machines}
OnlyOwnersSettle == [][OwnersSettle]_vars

(* A machine's user is in the table, committed or not, unless the request   *)
(* that made the machine was in flight with one that has a transaction: the *)
(* row of a user which has been inserted, or found, but not committed, can  *)
(* be rolled back by another handler before the machine is inserted         *)
(* (setup.go:80-103, database/main.go:46).                                  *)
NoOrphans ==
    \A t \in {view, saved} : \A m \in t.machines :
       \/ m.user \in {u.id : u \in t.users}
       \/ m.id \in Requests /\ Raced(m.id, TxKinds)

(* Two users have one name, or two machines of a user, only if one of them  *)
(* was being created while another was, or while a machine was being        *)
(* removed, by requests in flight at the same time: the look-up and the     *)
(* insertion of CreateUserTx (user.go:90) and CreateMachine (machine.go:77) *)
(* are apart, but nothing else gets between the names.                      *)
NamesUnique ==
    \A t \in {view, saved} :
       /\ \A u, v \in t.users : u.name = v.name /\ u.id # v.id
             => \E r \in {u.id, v.id} \cap Requests : Raced(r, {"initialSetup"})
       /\ \A m, n \in t.machines : m.user = n.user /\ m.name = n.name /\ m.id # n.id
             => \E r \in {m.id, n.id} \cap Requests : Raced(r, Naming)

(* An upload that is past the look-up of data.go:103 meets a rotation its   *)
(* machine has yet to pick up, and so may store data made with the old      *)
(* master key, only if it was in flight together with a request that has a  *)
(* transaction: the rotation's, or one whose rollback brought it back.      *)
UploadMeetsRotation ==
    \A r \in Requests :
       /\ Kind(r) = "addData" /\ at[r] \in {"begin", "store", "commit"}
       /\ \E x \in view.rotations : x.machine = local[r].who.id
       => Raced(r, TxKinds)

(* A handler acts for a machine that is no longer in the table, or has      *)
(* another key there than the one its token was verified with, only if it   *)
(* was in flight together with a request that removes machines, replaces    *)
(* keys or rolls back, or if it removed that machine itself.  A challenger  *)
(* acts for the machine that approved it (live/main.go:83), whose           *)
(* connection has races of its own.                                         *)
AuthorityIsCurrent ==
    \A r \in Requests :
       local[r].who # NoMachine /\ local[r].who \notin view.machines
       => \/ Raced(r, KeyKinds)
          \/ Kind(r) = "deleteMachine" /\ at[r] = "commit"
          \/ /\ Kind(r) = "newMachineChallenge"
             /\ \E q \in met[r] : Kind(q) = "challengeResponse" /\ Raced(q, KeyKinds)

(* The token a handler was let through with was signed with the key pair of *)
(* the machine it acts for, by an algorithm that goes with that key, and    *)
(* had not expired, to the fraction of a second; one that never expires, as *)
(* it has no exp or one of second 0, was of an EC key (mldsa.go:75,         *)
(* jwt.go:44).                                                              *)
AcceptedIsGenuine ==
    \A r \in Requests : Authenticated(r) => Genuine(ask[r].token, local[r].who.key)

(* Whatever set-up, pairing and key update store, its owner can sign a      *)
(* token that ConfigureAuth accepts: no machine is shut out for ever by a   *)
(* key that validates (keys.go:33) but does not verify (jwt.go:36).         *)
RegisteredCanSign ==
    \A m \in view.machines \union saved.machines :
       \E alg \in EC \union MLDSA : VerifyJWT(Fresh(alg, m.key), m.key)
=============================================================================
