-------------------------- MODULE AccountsInvariant --------------------------
(***************************************************************************)
(* The inductive invariant of Accounts.  Its properties relate what a       *)
(* handler looked up to rows that others may have changed since, so it      *)
(* says, for every place where that counts, what is still true of the rows. *)
(***************************************************************************)
EXTENDS Accounts

Rows == view.machines \union saved.machines

RowIds(table) == {m.id : m \in table.machines}

(* An identifier of a row there is or has been: of a request, one that has  *)
(* made its insertion.                                                      *)
Given(id) == id \in Requests => at[id] \in {"commit", "done"}

(* The history is complete, and begins when a request arrives.             *)
MetInv ==
    /\ \A q, r \in Requests : q # r /\ InFlight(q) /\ InFlight(r) => q \in met[r]
    /\ \A r \in Requests : at[r] = "idle" => met[r] = {}

(* A row keeps its user and name, committed or not.                        *)
RowsInv ==
    /\ \A m \in Rows : Given(m.id)
    /\ \A m, n \in Rows : m.id = n.id => m.user = n.user /\ m.name = n.name

(* Users are only added; a committed machine that the session does not see  *)
(* is being removed by a handler that has yet to commit.                    *)
SessionInv ==
    /\ saved.users \subseteq view.users
    /\ \A u \in view.users : u.id \in Requests => at[u.id] # "idle"
    /\ RowIds(saved) \subseteq RowIds(view)
         \/ \E r \in Requests : Kind(r) = "deleteMachine" /\ at[r] = "commit"

(* What a handler has looked up of machines, and what its rotations name.  *)
SeenInv ==
    \A r \in Requests :
       /\ Kind(r) \in {"getMachines", "postKeyRotation", "deleteMachine"} =>
             /\ \A id \in local[r].seen : Given(id)
             /\ \A m \in Rows : m.id \in local[r].seen =>
                   /\ m.user = local[r].acct
                   /\ Kind(r) = "deleteMachine" => m.name = ask[r].name
       /\ at[r] = "user" => local[r] = Blank

RotationsInv ==
    LET rotations == view.rotations \union saved.rotations IN
    /\ \A x \in rotations : Given(x.machine)
    /\ \A x \in rotations, m \in Rows : m.id = x.machine => m.user = x.acct

(* A name that was found free, and the names there are.                    *)
UserNamesInv ==
    /\ \A r \in Requests : at[r] = "addUser" =>
          \A u \in view.users : u.name = ask[r].user => Raced(r, {"initialSetup"})
    /\ \A u, v \in view.users : u.name = v.name /\ u.id # v.id =>
          \E r \in {u.id, v.id} \cap Requests : Raced(r, {"initialSetup"})

NamesInv ==
    /\ \A r \in Requests : at[r] = "addMachine" =>
          \A m \in Rows : m.user = local[r].acct /\ m.name = ask[r].machine =>
             Raced(r, Naming)
    /\ \A m, n \in Rows : m.user = n.user /\ m.name = n.name /\ m.id # n.id =>
          \E r \in {m.id, n.id} \cap Requests : Raced(r, Naming)

(* Keys that are stored, and those about to be.                            *)
KeysInv ==
    /\ \A m \in Rows : ValidatePublicKey(m.key)
    /\ \A r \in Requests :
          \/ Kind(r) = "initialSetup" /\ InFlight(r)
          \/ at[r] \in {"newName", "addMachine", "update"}
          => ValidatePublicKey(ask[r].key)

(* What ConfigureAuth established of a handler.                            *)
AuthInv ==
    \A r \in Requests : Authenticated(r) =>
       /\ Kind(r) # "initialSetup"
       /\ local[r].who.user = local[r].acct
       /\ Genuine(ask[r].token, local[r].who.key)

(* Everything above, in every state.                                       *)
AccountsInv ==
    /\ TypeOK
    /\ MetInv
    /\ RowsInv
    /\ SessionInv
    /\ SeenInv
    /\ RotationsInv
    /\ UserNamesInv
    /\ NamesInv
    /\ KeysInv
    /\ AuthInv
    /\ UploadMeetsRotation
    /\ AuthorityIsCurrent

-----------------------------------------------------------------------------
(* The facts below are about the rows' identity and build on those above.   *)
LooksAtMachines(r) == Kind(r) \in {"getMachines", "postKeyRotation", "deleteMachine"}

(* Whose machine an identifier is said to be: by its row, by a rotation     *)
(* that names it, by a handler that was let through as it or that looked    *)
(* it up.  All agree, also after the row is gone.                           *)
Claims ==
    {<<m.id, m.user>> : m \in Rows}
      \union {<<x.machine, x.acct>> : x \in view.rotations \union saved.rotations}
      \union {<<local[r].who.id, local[r].who.user>> :
                 r \in {q \in Requests : local[q].who # NoMachine}}
      \union UNION {local[r].seen \X {local[r].acct} :
                 r \in {q \in Requests : LooksAtMachines(q)}}

OwnersInv ==
    /\ \A c \in Claims : Given(c[1])
    /\ \A c, d \in Claims : c[1] = d[1] => c[2] = d[2]

OneRow ==
    \A t \in {view, saved} : \A m, n \in t.machines : m.id = n.id => m = n

(* The account a handler acts for is that of a user, who is there.          *)
ActorsInv ==
    \A r \in Requests :
       local[r].acct # NoOne =>
          local[r].acct \in {u.id : u \in view.users} \/ Raced(r, TxKinds)

RegistryInv == OwnersInv /\ OneRow /\ ActorsInv

(* The committed rows as a Registry.  An identifier that has been given and *)
(* is of no row, committed or not, is gone.                                 *)
Gone == {id \in Ids : Given(id)} \ (RowIds(view) \union RowIds(saved))

R == INSTANCE Registry WITH
        CanSign <- ValidatePublicKey,
        users <- saved.users, members <- saved.machines, gone <- Gone

(* Whatever the handlers interleave and roll back, what is committed of     *)
(* users and machines changes as Registry says: no key update, removal or   *)
(* rollback brings a machine back whose removal was committed               *)
(* (machine.go:105-116, 167), or gives it to another user.                  *)
ImplementsRegistry == R!Spec
=============================================================================
