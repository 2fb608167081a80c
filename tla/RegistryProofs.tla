---------------------------- MODULE RegistryProofs ----------------------------
(***************************************************************************)
(* What becomes of the rows of Accounts in the long run: whose they are     *)
(* said to be, that rotations go only with their account, that machines     *)
(* have a user, and that what is committed is a Registry.                   *)
(***************************************************************************)
EXTENDS AccountsProofs

-----------------------------------------------------------------------------
(* Whose machine an identifier is.                                          *)

OwnersOf(id) == {c[2] : c \in {d \in Claims : d[1] = id}}

LEMMA OwnersAre ==
    \A id, a : a \in OwnersOf(id) <=>
       \/ \E m \in Rows : m.id = id /\ m.user = a
       \/ \E x \in view.rotations \union saved.rotations : x.machine = id /\ x.acct = a
       \/ \E q \in Requests : local[q].who # NoMachine /\ local[q].who.id = id
                              /\ local[q].who.user = a
       \/ \E q \in Requests : LooksAtMachines(q) /\ id \in local[q].seen /\ local[q].acct = a
<1> SUFFICES ASSUME NEW id, NEW a
             PROVE  a \in OwnersOf(id) <=>
                      \/ \E m \in Rows : m.id = id /\ m.user = a
                      \/ \E x \in view.rotations \union saved.rotations : x.machine = id /\ x.acct = a
                      \/ \E q \in Requests : local[q].who # NoMachine /\ local[q].who.id = id
                                             /\ local[q].who.user = a
                      \/ \E q \in Requests : LooksAtMachines(q) /\ id \in local[q].seen /\ local[q].acct = a
    OBVIOUS
<1> DEFINE A == {<<m.id, m.user>> : m \in Rows}
           B == {<<x.machine, x.acct>> : x \in view.rotations \union saved.rotations}
           C == {<<local[r].who.id, local[r].who.user>> :
                   r \in {q \in Requests : local[q].who # NoMachine}}
           D == UNION {local[r].seen \X {local[r].acct} :
                   r \in {q \in Requests : LooksAtMachines(q)}}
<1>1. Claims = A \union B \union C \union D
    BY DEF Claims
<1>2. \A c \in Claims : c = <<c[1], c[2]>>
    <2>1. \A c \in A : c = <<c[1], c[2]>>
        OBVIOUS
    <2>2. \A c \in B : c = <<c[1], c[2]>>
        OBVIOUS
    <2>3. \A c \in C : c = <<c[1], c[2]>>
        OBVIOUS
    <2>4. \A c \in D : c = <<c[1], c[2]>>
        OBVIOUS
    <2> QED BY <1>1, <2>1, <2>2, <2>3, <2>4
<1>3. a \in OwnersOf(id) <=> <<id, a>> \in Claims
    BY <1>2 DEF OwnersOf
<1>4. <<id, a>> \in A <=> \E m \in Rows : m.id = id /\ m.user = a
    OBVIOUS
<1>5. <<id, a>> \in B <=> \E x \in view.rotations \union saved.rotations : x.machine = id /\ x.acct = a
    OBVIOUS
<1>6. <<id, a>> \in C <=> \E q \in Requests : local[q].who # NoMachine /\ local[q].who.id = id
                                            /\ local[q].who.user = a
    OBVIOUS
<1>7. <<id, a>> \in D <=> \E q \in Requests : LooksAtMachines(q) /\ id \in local[q].seen
                                            /\ local[q].acct = a
    OBVIOUS
<1> HIDE DEF A, B, C, D
<1> QED BY <1>1, <1>3, <1>4, <1>5, <1>6, <1>7

LEMMA OwnersAreNext ==
    \A id, a : a \in OwnersOf(id)' <=>
       \/ \E m \in Rows' : m.id = id /\ m.user = a
       \/ \E x \in view'.rotations \union saved'.rotations : x.machine = id /\ x.acct = a
       \/ \E q \in Requests : local'[q].who # NoMachine /\ local'[q].who.id = id
                              /\ local'[q].who.user = a
       \/ \E q \in Requests : LooksAtMachines(q)' /\ id \in local'[q].seen /\ local'[q].acct = a
<1> SUFFICES ASSUME NEW id, NEW a
             PROVE  a \in OwnersOf(id)' <=>
                      \/ \E m \in Rows' : m.id = id /\ m.user = a
                      \/ \E x \in view'.rotations \union saved'.rotations : x.machine = id /\ x.acct = a
                      \/ \E q \in Requests : local'[q].who # NoMachine /\ local'[q].who.id = id
                                             /\ local'[q].who.user = a
                      \/ \E q \in Requests : LooksAtMachines(q)' /\ id \in local'[q].seen /\ local'[q].acct = a
    OBVIOUS
<1> DEFINE A == {<<m.id, m.user>> : m \in Rows'}
           B == {<<x.machine, x.acct>> : x \in view'.rotations \union saved'.rotations}
           C == {<<local'[r].who.id, local'[r].who.user>> :
                   r \in {q \in Requests : local'[q].who # NoMachine}}
           D == UNION {local'[r].seen \X {local'[r].acct} :
                   r \in {q \in Requests : LooksAtMachines(q)'}}
<1>1. Claims' = A \union B \union C \union D
    BY DEF Claims
<1>2. \A c \in Claims' : c = <<c[1], c[2]>>
    <2>1. \A c \in A : c = <<c[1], c[2]>>
        OBVIOUS
    <2>2. \A c \in B : c = <<c[1], c[2]>>
        OBVIOUS
    <2>3. \A c \in C : c = <<c[1], c[2]>>
        OBVIOUS
    <2>4. \A c \in D : c = <<c[1], c[2]>>
        OBVIOUS
    <2> QED BY <1>1, <2>1, <2>2, <2>3, <2>4
<1>3. a \in OwnersOf(id)' <=> <<id, a>> \in Claims'
    BY <1>2 DEF OwnersOf
<1>4. <<id, a>> \in A <=> \E m \in Rows' : m.id = id /\ m.user = a
    OBVIOUS
<1>5. <<id, a>> \in B <=> \E x \in view'.rotations \union saved'.rotations : x.machine = id /\ x.acct = a
    OBVIOUS
<1>6. <<id, a>> \in C <=> \E q \in Requests : local'[q].who # NoMachine /\ local'[q].who.id = id
                                            /\ local'[q].who.user = a
    OBVIOUS
<1>7. <<id, a>> \in D <=> \E q \in Requests : LooksAtMachines(q)' /\ id \in local'[q].seen
                                            /\ local'[q].acct = a
    OBVIOUS
<1> HIDE DEF A, B, C, D
<1> QED BY <1>1, <1>3, <1>4, <1>5, <1>6, <1>7

LEMMA OwnersAgree ==
    OwnersInv <=> \A id : \A a, b \in OwnersOf(id) : Given(id) /\ a = b
BY DEF OwnersInv, OwnersOf

LEMMA OwnersAgreeNext ==
    OwnersInv' <=> \A id : \A a, b \in OwnersOf(id)' : Given(id)' /\ a = b
BY DEF OwnersInv, OwnersOf

(* What a handler has looked up it had before, or it is a row it now sees.  *)
LEMMA SeenFrom ==
    ASSUME AccountsInv, NEW r \in Requests, Moves(r), LooksAtMachines(r),
           NEW id \in local'[r].seen
    PROVE  \/ id \in local[r].seen /\ local'[r].acct = local[r].acct
           \/ \E m \in view.machines : m.id = id /\ m.user = local'[r].acct
<1>1. /\ Kind(r) \in Kinds /\ at[r] \in PlacesOf(Kind(r)) /\ local[r] \in Locals
      /\ local \in [Requests -> Locals] /\ at \in [Requests -> Places]
      /\ TypeOK /\ SeenInv
    BY AskTypes DEF TypeOK, AccountsInv
<1>2. CASE LeavesEarly(r) \/ Starts(r)
    BY <1>1, <1>2, BlankTypes DEF LeavesEarly, Starts, MovesTo, Blank
<1>3. CASE GoesOn(r)
    BY <1>1, <1>3 DEF GoesOn, MovesTo
<1>4. CASE FindsUser(r)
    <2>1. local[r].seen = {} /\ local'[r].seen = local[r].seen
        BY <1>1, <1>4 DEF FindsUser, MovesTo, Locals, SeenInv, Blank
    <2> QED BY <2>1
<1>5. CASE FindsMachine(r)
    BY <1>1, <1>5 DEF FindsMachine, MovesTo, Locals
<1>6. CASE LooksUp(r)
    <2>1. at[r] \in {"list", "findNamed"}
        BY <1>1, <1>6, Routes DEF LooksUp, LooksAtMachines
    <2>2. PICK s \in SUBSET Ids :
             /\ MovesTo(r, To(r), [local[r] EXCEPT !.seen = s])
             /\ at[r] = "list" => s \subseteq Mine(r)
             /\ at[r] = "findNamed" =>
                   \E m \in Named(local[r].acct, ask[r].name) : s = {m.id}
        BY <1>6 DEF LooksUp
    <2>3. local'[r].seen = s /\ local'[r].acct = local[r].acct
        BY <1>1, <2>2 DEF MovesTo, Locals
    <2>4. CASE at[r] = "list"
        BY <2>2, <2>3, <2>4 DEF Mine
    <2>5. CASE at[r] = "findNamed"
        BY <2>2, <2>3, <2>5 DEF Named
    <2> QED BY <2>1, <2>4, <2>5
<1>7. CASE IsNewUser(r)
    BY <1>1, <1>7, Routes DEF IsNewUser, LooksAtMachines
<1>8. CASE Posts(r)
    BY <1>1, <1>8 DEF Posts, MovesTo, Locals
<1> QED BY <1>2, <1>3, <1>4, <1>5, <1>6, <1>7, <1>8 DEF Moves

(* No step makes an identifier anyone else's: what is said of it was said   *)
(* before, or its machine has just been inserted.                           *)
LEMMA OwnersFrom ==
    ASSUME AccountsInv, NEW r \in Requests, Step(r), NEW id, NEW a \in OwnersOf(id)'
    PROVE  \/ a \in OwnersOf(id)
           \/ AddMachine(r) /\ id = r /\ a = local[r].acct
<1>1. TypeOK /\ SeenInv /\ Moves(r)
    BY StepMoves DEF AccountsInv
<1>2. /\ \A q \in Requests \ {r} : at'[q] = at[q] /\ local'[q] = local[q]
      /\ \A q \in Requests : Kind(q)' = Kind(q)
    BY <1>1, StepMoves, OthersStay
<1>3. ASSUME NEW m \in Rows', m.id = id, m.user = a
      PROVE  a \in OwnersOf(id) \/ (AddMachine(r) /\ id = r /\ a = local[r].acct)
    <2>1. CASE AddMachine(r) /\ m = NewMachine(r)
        BY <1>3, <2>1 DEF NewMachine
    <2>2. CASE \E n \in Rows : SameMachine(r, m, n)
        BY <1>3, <2>2, OwnersAre DEF SameMachine
    <2> QED BY <1>1, <2>1, <2>2, StepRows
<1>4. ASSUME NEW x \in view'.rotations \union saved'.rotations, x.machine = id, x.acct = a
      PROVE  a \in OwnersOf(id)
    <2>1. CASE x \in view.rotations \union saved.rotations
        BY <1>4, <2>1, OwnersAre
    <2>2. CASE Upsert(r) /\ x.machine \in local[r].seen /\ x.acct = local[r].acct
        <3>1. at[r] = "upsert" /\ Kind(r) \in Kinds /\ at[r] \in PlacesOf(Kind(r))
            BY <1>1, <2>2, AskTypes DEF Upsert, Writes, TypeOK
        <3>2. Kind(r) = "postKeyRotation"
            BY <3>1, Routes
        <3> QED BY <1>4, <2>2, <3>2, OwnersAre DEF LooksAtMachines
    <2> QED BY <1>1, <2>1, <2>2, StepRotations
<1>5. ASSUME NEW q \in Requests, local'[q].who # NoMachine, local'[q].who.id = id,
             local'[q].who.user = a
      PROVE  a \in OwnersOf(id)
    <2>1. CASE local'[q].who = local[q].who
        BY <1>5, <2>1, OwnersAre
    <2>2. CASE local'[q].who \in view.machines
        BY <1>5, <2>2, OwnersAre DEF Rows
    <2>3. local'[q].who = local[q].who \/ local'[q].who \in view.machines
        BY <1>1, <1>2, <1>5, Knowing DEF Blank
    <2> QED BY <2>1, <2>2, <2>3
<1>6. ASSUME NEW q \in Requests, LooksAtMachines(q)', id \in local'[q].seen,
             local'[q].acct = a
      PROVE  a \in OwnersOf(id)
    <2>1. LooksAtMachines(q)
        BY <1>2, <1>6 DEF LooksAtMachines
    <2>2. CASE id \in local[q].seen /\ local'[q].acct = local[q].acct
        BY <1>6, <2>1, <2>2, OwnersAre
    <2>3. CASE \E m \in view.machines : m.id = id /\ m.user = local'[q].acct
        BY <1>6, <2>3, OwnersAre DEF Rows
    <2>4. CASE q = r
        BY <1>1, <1>6, <2>1, <2>2, <2>3, <2>4, SeenFrom
    <2>5. CASE q # r
        BY <1>2, <1>6, <2>2, <2>5
    <2> QED BY <2>4, <2>5
<1> QED BY <1>3, <1>4, <1>5, <1>6, OwnersAreNext

LEMMA OwnersStep ==
    ASSUME AccountsInv, OwnersInv, NEW r \in Requests, Step(r)
    PROVE  OwnersInv'
<1>1. SUFFICES ASSUME NEW id, NEW a \in OwnersOf(id)', NEW b \in OwnersOf(id)'
               PROVE  Given(id)' /\ a = b
    BY OwnersAgreeNext
<1>2. TypeOK
    BY DEF AccountsInv
<1>3. CASE AddMachine(r) /\ id = r
    <2>1. ~Given(id) /\ Given(id)'
        BY <1>2, <1>3, AddingMachine DEF Given
    <2>2. OwnersOf(id) = {}
        BY <2>1, OwnersAgree
    <2>3. a = local[r].acct /\ b = local[r].acct
        BY <2>2, OwnersFrom
    <2> QED BY <2>1, <2>3
<1>4. CASE ~(AddMachine(r) /\ id = r)
    <2>1. a \in OwnersOf(id) /\ b \in OwnersOf(id)
        BY <1>4, OwnersFrom
    <2>2. Given(id) /\ a = b
        BY <2>1, OwnersAgree
    <2> QED BY <1>2, <2>2, StaysGiven
<1> QED BY <1>3, <1>4

-----------------------------------------------------------------------------
(* One row for an identifier.                                               *)

(* What a statement makes of the session's tables.                         *)
LEMMA WrittenRows ==
    ASSUME TypeOK, NEW r \in Requests, WritesSomething(r)
    PROVE  /\ saved' \in {view', saved}
           /\ view.users \subseteq view'.users
           /\ \A m \in view'.machines :
                 \/ AddMachine(r) /\ m = NewMachine(r)
                 \/ \E n \in view.machines : SameMachine(r, m, n)
<1>1. view \in Tables /\ \A m \in view.machines : SameMachine(r, m, m) /\ m \in Machines
    BY DEF TypeOK, SameMachine, Tables
<1>2. CASE AddUser(r) \/ Store(r) \/ DeleteKey(r) \/ Upsert(r) \/ Clear(r)
    <2>1. /\ view'.machines = view.machines /\ view.users \subseteq view'.users
          /\ saved' \in {view', saved}
        BY <1>1, <1>2 DEF AddUser, Store, DeleteKey, Upsert, Clear, Writes, Tables
    <2> QED BY <1>1, <2>1
<1>3. CASE AddMachine(r)
    <2>1. /\ view'.machines = view.machines \union {NewMachine(r)}
          /\ view'.users = view.users /\ saved' \in {view', saved}
        BY <1>1, <1>3 DEF AddMachine, Writes, Tables, NewMachine
    <2> QED BY <1>1, <1>3, <2>1
<1>4. CASE Remove(r)
    <2>1. /\ view'.machines \subseteq view.machines
          /\ view'.users = view.users /\ saved' \in {view', saved}
        BY <1>1, <1>4 DEF Remove, Writes, Tables
    <2> QED BY <1>1, <2>1
<1>5. CASE UpdateKey(r)
    <2>1. /\ at[r] = "update" /\ view'.users = view.users /\ saved' \in {view', saved}
          /\ view'.machines =
                {IF n.id = local[r].who.id THEN [n EXCEPT !.key = ask[r].key] ELSE n :
                   n \in view.machines}
        BY <1>1, <1>5 DEF UpdateKey, Writes, Tables
    <2>2. ASSUME NEW m \in view'.machines PROVE \E n \in view.machines : SameMachine(r, m, n)
        <3>1. PICK n \in view.machines :
                 m = IF n.id = local[r].who.id THEN [n EXCEPT !.key = ask[r].key] ELSE n
            BY <2>1
        <3>2. SameMachine(r, m, n)
            BY <1>1, <2>1, <3>1 DEF SameMachine, Machines
        <3> QED BY <3>2
    <2> QED BY <2>1, <2>2
<1> QED BY <1>2, <1>3, <1>4, <1>5 DEF WritesSomething

LEMMA OneRowWritten ==
    ASSUME AccountsInv, OneRow, NEW r \in Requests, WritesSomething(r),
           NEW m \in view'.machines, NEW n \in view'.machines, m.id = n.id
    PROVE  m = n
<1>1. TypeOK /\ RowsInv /\ view \in Tables /\ \A o \in view.machines : o \in Machines
    BY DEF AccountsInv, TypeOK, Tables
<1>2. CASE AddUser(r) \/ Store(r) \/ DeleteKey(r) \/ Upsert(r) \/ Clear(r) \/ Remove(r)
    <2>1. view'.machines \subseteq view.machines
        BY <1>1, <1>2 DEF AddUser, Store, DeleteKey, Upsert, Clear, Remove, Writes, Tables
    <2> QED BY <2>1 DEF OneRow
<1>3. CASE AddMachine(r)
    <2>1. view'.machines = view.machines \union {NewMachine(r)}
        BY <1>1, <1>3 DEF AddMachine, Writes, Tables, NewMachine
    <2>2. \A o \in view.machines : o.id # r
        BY <1>1, <1>3, AddingMachine DEF RowsInv, Given, Rows
    <2>3. NewMachine(r).id = r
        BY DEF NewMachine
    <2> QED BY <2>1, <2>2, <2>3 DEF OneRow
<1>4. CASE UpdateKey(r)
    <2> DEFINE upd(o) == IF o.id = local[r].who.id THEN [o EXCEPT !.key = ask[r].key] ELSE o
    <2>1. view'.machines = {upd(o) : o \in view.machines}
        BY <1>1, <1>4 DEF UpdateKey, Writes, Tables
    <2>2. PICK o \in view.machines : m = upd(o)
        BY <2>1
    <2>3. PICK p \in view.machines : n = upd(p)
        BY <2>1
    <2>4. upd(o).id = o.id /\ upd(p).id = p.id
        BY <1>1 DEF Machines
    <2>5. o = p
        BY <2>2, <2>3, <2>4 DEF OneRow
    <2> QED BY <2>2, <2>3, <2>5
<1> QED BY <1>2, <1>3, <1>4 DEF WritesSomething

LEMMA OneRowStep ==
    ASSUME AccountsInv, OneRow, NEW r \in Requests, Step(r)
    PROVE  OneRow'
<1>1. CASE UNCHANGED <<view, saved>> \/ Commit(r) \/ Reverts(r)
    <2>1. view' \in {view, saved} /\ saved' \in {view, saved}
        BY <1>1 DEF Commit, Reverts, CommitFails, Rollback
    <2> QED BY <2>1 DEF OneRow
<1>2. CASE WritesSomething(r)
    <2>1. saved' \in {view', saved}
        BY <1>2, WrittenRows DEF AccountsInv
    <2>2. \A m, n \in view'.machines : m.id = n.id => m = n
        BY <1>2, OneRowWritten
    <2> QED BY <2>1, <2>2 DEF OneRow
<1> QED BY <1>1, <1>2, StepWrites

-----------------------------------------------------------------------------
(* Machines and handlers have users.                                        *)

(* Only a rollback takes a user away, and it is by a handler in flight that *)
(* has a transaction.                                                       *)
LEMMA UsersStay ==
    ASSUME TypeOK, NEW r \in Requests, Step(r)
    PROVE  \/ view.users \subseteq view'.users
           \/ Reverts(r) /\ Kind(r) \in TxKinds /\ InFlight(r)
<1>1. CASE WritesSomething(r)
    BY <1>1, WrittenRows
<1>2. CASE UNCHANGED <<view, saved>> \/ Commit(r)
    BY <1>2 DEF Commit
<1>3. CASE Reverts(r)
    <2>1. at[r] \in {"commit", "rollback"} /\ Kind(r) \in Kinds /\ at[r] \in PlacesOf(Kind(r))
        BY <1>3, AskTypes DEF Reverts, CommitFails, Rollback, TypeOK
    <2> QED BY <1>3, <2>1, Routes DEF InFlight
<1> QED BY <1>1, <1>2, <1>3, StepWrites

(* The account of a handler is none, the one it had, or a user's there is.  *)
LEMMA ActingFor ==
    ASSUME TypeOK, NEW r \in Requests, Step(r)
    PROVE  \/ local'[r].acct \in {NoOne, local[r].acct}
           \/ local'[r].acct \in {u.id : u \in view'.users}
<1>1. /\ local \in [Requests -> Locals] /\ at \in [Requests -> Places]
      /\ Moves(r) /\ view \in Tables
    BY StepMoves DEF TypeOK
<1>2. CASE LeavesEarly(r) \/ Starts(r)
    BY <1>1, <1>2, BlankTypes DEF LeavesEarly, Starts, MovesTo, Blank
<1>3. CASE GoesOn(r) \/ FindsMachine(r) \/ LooksUp(r) \/ Posts(r)
    BY <1>1, <1>3 DEF GoesOn, FindsMachine, LooksUp, Posts, MovesTo, Locals
<1>4. CASE FindsUser(r)
    <2>1. FindUser(r) \/ Fails(r)
        BY <1>4 DEF FindsUser, Step, Arrive, Abandons, FindMachine, NewUser, CheckName, NoRotation,
           FindKey, List, Pending, FindNamed, AddUser, AddMachine, Store, Unreadable, DeleteKey,
           Upsert, Upserted, Remove, UpdateKey, Clear, Begin, Commit, CommitFails, Rollback,
           Reads, Writes, Waiting
    <2>2. CASE Fails(r)
        BY <1>1, <2>2 DEF Fails, GivesUp, Leaves, Blank
    <2>3. CASE FindUser(r)
        <3>1. view' = view
            BY <2>3 DEF FindUser, Reads
        <3>2. CASE Ends(r)
            BY <1>1, <3>2 DEF Ends, Leaves, Blank
        <3>3. ASSUME NEW u \in view.users, Continues(r, [local[r] EXCEPT !.acct = u.id])
              PROVE  local'[r].acct \in {NoOne, u.id}
            BY <1>1, <3>3 DEF Continues, Locals, Blank
        <3> QED BY <2>3, <3>1, <3>2, <3>3 DEF FindUser
    <2> QED BY <2>1, <2>2, <2>3
<1>5. CASE IsNewUser(r)
    <2>1. AddUser(r) \/ Fails(r)
        BY <1>5 DEF IsNewUser, Step, Arrive, Abandons, FindUser, FindMachine, NewUser, CheckName,
           NoRotation, FindKey, List, Pending, FindNamed, AddMachine, Store, Unreadable, DeleteKey,
           Upsert, Upserted, Remove, UpdateKey, Clear, Begin, Commit, CommitFails, Rollback,
           Reads, Writes, Waiting
    <2>2. CASE Fails(r)
        BY <1>1, <2>2 DEF Fails, GivesUp, Leaves, Blank
    <2>3. CASE AddUser(r)
        <3>1. [id |-> r, name |-> ask[r].user] \in view'.users
            BY <1>1, <2>3 DEF AddUser, Writes, Tables
        <3>2. local'[r].acct = r
            BY <1>1, <1>5 DEF IsNewUser, MovesTo, Locals
        <3> QED BY <3>1, <3>2
    <2> QED BY <2>1, <2>2, <2>3
<1> QED BY <1>1, <1>2, <1>3, <1>4, <1>5 DEF Moves

LEMMA ActorsStep ==
    ASSUME AccountsInv, ActorsInv, NEW r \in Requests, Step(r)
    PROVE  ActorsInv'
<1>1. TypeOK /\ MetInv /\ Moves(r)
    BY StepMoves DEF AccountsInv
<1>2. \A q \in Requests \ {r} : at'[q] = at[q] /\ local'[q] = local[q]
    BY <1>1, StepMoves, OthersStay
<1>3. SUFFICES ASSUME NEW q \in Requests, local'[q].acct # NoOne,
                      local'[q].acct \notin {u.id : u \in view'.users}
               PROVE  Raced(q, TxKinds)'
    BY DEF ActorsInv
<1>4. local'[q].acct = local[q].acct
    BY <1>1, <1>2, <1>3, ActingFor
<1>5. InFlight(q)
    BY <1>1, <1>3, <1>4 DEF TypeOK, Blank
<1>6. CASE Raced(q, TxKinds)
    BY <1>1, <1>5, <1>6, StaysRaced DEF InFlight
<1>7. CASE ~Raced(q, TxKinds)
    <2>1. local[q].acct \in {u.id : u \in view.users}
        BY <1>3, <1>4, <1>7 DEF ActorsInv
    <2>2. Reverts(r) /\ Kind(r) \in TxKinds /\ InFlight(r)
        BY <1>1, <1>3, <1>4, <2>1, UsersStay
    <2>3. q # r
        <3>1. Reverts(r) => local'[r] = Blank
            BY <1>1 DEF Reverts, CommitFails, Rollback, Ends, Leaves, TypeOK
        <3> QED BY <1>3, <2>2, <3>1 DEF Blank
    <2>4. Raced(q, TxKinds)
        BY <1>1, <1>5, <2>2, <2>3, Meeting
    <2> QED BY <1>7, <2>4
<1> QED BY <1>6, <1>7

LEMMA OrphansStep ==
    ASSUME AccountsInv, ActorsInv, NoOrphans, NEW r \in Requests, Step(r)
    PROVE  NoOrphans'
<1>1. TypeOK /\ RowsInv
    BY DEF AccountsInv
<1> DEFINE Homed(t, m) == \/ m.user \in {u.id : u \in t.users}
                          \/ m.id \in Requests /\ Raced(m.id, TxKinds)'
<1>2. ASSUME NEW m \in Rows, m.id \in Requests, Raced(m.id, TxKinds)
      PROVE  Raced(m.id, TxKinds)'
    <2>1. at[m.id] # "idle"
        BY <1>1, <1>2 DEF RowsInv, Given
    <2> QED BY <1>1, <1>2, <2>1, StaysRaced
<1>3. \A t \in {view, saved} : \A m \in t.machines : Homed(t, m)
    BY <1>2 DEF NoOrphans, Rows
<1>4. CASE UNCHANGED <<view, saved>> \/ Commit(r) \/ Reverts(r)
    <2>1. view' \in {view, saved} /\ saved' \in {view, saved}
        BY <1>4 DEF Commit, Reverts, CommitFails, Rollback
    <2> QED BY <1>3, <2>1 DEF NoOrphans
<1>5. CASE WritesSomething(r)
    <2>1. /\ saved' \in {view', saved}
          /\ view.users \subseteq view'.users
        BY <1>1, <1>5, WrittenRows
    <2>2. ASSUME NEW m \in view'.machines PROVE Homed(view', m)
        <3>1. CASE AddMachine(r) /\ m = NewMachine(r)
            <4>1. at[r] = "addMachine"
                BY <1>1, <3>1, AddingMachine
            <4>2. local[r].acct # NoOne
                BY <1>1, <4>1, AccountsAssumption DEF TypeOK, Early
            <4>3. local[r].acct \in {u.id : u \in view.users} \/ Raced(r, TxKinds)
                BY <4>2 DEF ActorsInv
            <4>4. Raced(r, TxKinds) => Raced(r, TxKinds)'
                BY <1>1, <4>1, StaysRaced
            <4>5. m.id = r /\ m.user = local[r].acct
                BY <3>1 DEF NewMachine
            <4> QED BY <2>1, <4>3, <4>4, <4>5
        <3>2. CASE \E n \in view.machines : SameMachine(r, m, n)
            BY <1>3, <2>1, <3>2 DEF SameMachine
        <3> QED BY <1>1, <1>5, <3>1, <3>2, WrittenRows
    <2> QED BY <1>3, <2>1, <2>2 DEF NoOrphans
<1> QED BY <1>4, <1>5, StepWrites

-----------------------------------------------------------------------------
(* The invariant.                                                           *)

Registers == RegistryInv /\ NoOrphans

LEMMA InitRegisters == Init => Registers
<1> SUFFICES ASSUME Init PROVE Registers
    OBVIOUS
<1>1. /\ \A r \in Requests : at[r] = "idle" /\ local[r] = Blank
      /\ view.users = FirstUsers /\ view.machines = FirstMachines
      /\ view.rotations = {} /\ saved = view
    BY DEF Init
<1>2. OwnersInv
    <2>1. SUFFICES ASSUME NEW id, NEW a \in OwnersOf(id), NEW b \in OwnersOf(id)
                   PROVE  Given(id) /\ a = b
        BY OwnersAgree
    <2>2. ASSUME NEW c \in OwnersOf(id)
          PROVE  \E m \in FirstMachines : m.id = id /\ m.user = c
        BY <1>1, <2>2, OwnersAre DEF Rows, Blank
    <2>3. PICK m \in FirstMachines : m.id = id /\ m.user = a
        BY <2>2
    <2>4. PICK n \in FirstMachines : n.id = id /\ n.user = b
        BY <2>2
    <2>5. id \notin Requests /\ m = n
        BY <2>3, <2>4, AccountsAssumption
    <2> QED BY <2>3, <2>4, <2>5 DEF Given
<1>3. OneRow
    BY <1>1, AccountsAssumption DEF OneRow
<1>4. ActorsInv
    BY <1>1 DEF ActorsInv, Blank
<1>5. NoOrphans
    BY <1>1, AccountsAssumption DEF NoOrphans
<1> QED BY <1>2, <1>3, <1>4, <1>5 DEF Registers, RegistryInv

LEMMA ApproveRegisters ==
    ASSUME AccountsInv, Registers, NEW c \in Requests, NEW q \in Requests, Approve(c, q)
    PROVE  Registers'
<1> USE DEF AccountsInv, Registers, RegistryInv
<1>1. /\ Kind(c) \in Kinds /\ at[c] \in PlacesOf(Kind(c)) /\ at[c] = "challenge"
      /\ Kind(q) \in Kinds /\ at[q] \in PlacesOf(Kind(q)) /\ at[q] = "answer"
      /\ local \in [Requests -> Locals] /\ at \in [Requests -> Places]
    BY AskTypes DEF TypeOK, Approve
<1>2. Kind(c) = "newMachineChallenge" /\ Kind(q) = "challengeResponse" /\ c # q
    BY <1>1, Routes
<1>3. /\ local'[c].who = local[q].who /\ local'[c].acct = local[c].acct
      /\ local'[q] = Blank
      /\ \A r \in Requests \ {c, q} : at'[r] = at[r] /\ local'[r] = local[r]
      /\ ask' = ask /\ met' = met /\ view' = view /\ saved' = saved
    BY <1>1, <1>2 DEF Approve, Locals
<1>4. /\ \A r \in Requests : Kind(r)' = Kind(r)
      /\ \A r \in Requests : \A kinds : Raced(r, kinds)' = Raced(r, kinds)
      /\ Rows' = Rows
    BY <1>3 DEF Kind, Raced, Rows
<1>5. \A id : Given(id) => Given(id)'
    BY <1>1, <1>3 DEF Given
<1>6. ASSUME NEW id, NEW a \in OwnersOf(id)' PROVE a \in OwnersOf(id)
    <2>1. ASSUME NEW r \in Requests, local'[r].who # NoMachine, local'[r].who.id = id,
                 local'[r].who.user = a
          PROVE  a \in OwnersOf(id)
        <3>1. r # q
            BY <1>3, <2>1 DEF Blank
        <3>2. local'[r].who \in {local[r].who, local[q].who}
            BY <1>3, <3>1
        <3> QED BY <2>1, <3>2, OwnersAre
    <2>2. ASSUME NEW r \in Requests, LooksAtMachines(r)', id \in local'[r].seen, local'[r].acct = a
          PROVE  a \in OwnersOf(id)
        <3>1. r \notin {c, q} /\ LooksAtMachines(r)
            BY <1>2, <1>4, <2>2 DEF LooksAtMachines
        <3> QED BY <1>3, <2>2, <3>1, OwnersAre
    <2> QED BY <1>3, <1>4, <2>1, <2>2, OwnersAre, OwnersAreNext
<1>7. OwnersInv'
    BY <1>5, <1>6, OwnersAgree, OwnersAgreeNext
<1>8. OneRow'
    BY <1>3 DEF OneRow
<1>9. ActorsInv'
    BY <1>3, <1>4 DEF ActorsInv, Blank
<1>10. NoOrphans'
    BY <1>3, <1>4 DEF NoOrphans
<1> QED BY <1>7, <1>8, <1>9, <1>10

LEMMA EndRegisters ==
    ASSUME AccountsInv, Registers, ConnectionEnds
    PROVE  Registers'
<1> USE DEF AccountsInv, Registers, RegistryInv
<1>1. /\ \A r \in Requests : local'[r] = Blank /\ (at[r] = "done" => at'[r] = "done")
                             /\ (at[r] = "commit" => at'[r] = "done")
      /\ ask' = ask /\ met' = met /\ view' = saved /\ saved' = saved
    BY DEF ConnectionEnds, InFlight, TypeOK
<1>2. \A r \in Requests : \A kinds : Raced(r, kinds)' = Raced(r, kinds)
    BY <1>1 DEF Kind, Raced
<1>3. \A id : Given(id) => Given(id)'
    BY <1>1 DEF Given
<1>4. ASSUME NEW id, NEW a \in OwnersOf(id)' PROVE a \in OwnersOf(id)
    BY <1>1, OwnersAre, OwnersAreNext DEF Rows, Blank
<1>5. OwnersInv'
    BY <1>3, <1>4, OwnersAgree, OwnersAgreeNext
<1>6. OneRow' /\ NoOrphans'
    BY <1>1, <1>2 DEF OneRow, NoOrphans
<1>7. ActorsInv'
    BY <1>1 DEF ActorsInv, Blank
<1> QED BY <1>5, <1>6, <1>7

LEMMA StutterRegisters ==
    ASSUME Registers, UNCHANGED vars
    PROVE  Registers'
<1> USE DEF vars
<1>1. /\ Rows' = Rows
      /\ \A r \in Requests : \A kinds : Raced(r, kinds)' = Raced(r, kinds)
      /\ \A r \in Requests : LooksAtMachines(r)' = LooksAtMachines(r)
      /\ \A id : Given(id)' = Given(id)
    BY DEF Rows, Raced, Kind, LooksAtMachines, Given
<1>2. ASSUME NEW id, NEW a \in OwnersOf(id)' PROVE a \in OwnersOf(id)
    BY <1>1, OwnersAre, OwnersAreNext
<1>3. OwnersInv'
    BY <1>1, <1>2, OwnersAgree, OwnersAgreeNext DEF Registers, RegistryInv
<1>4. OneRow' /\ ActorsInv' /\ NoOrphans'
    BY <1>1 DEF OneRow, ActorsInv, NoOrphans, Registers, RegistryInv
<1> QED BY <1>3, <1>4 DEF Registers, RegistryInv

LEMMA RegistersHolds == Spec => []Registers
<1>1. AccountsInv /\ Registers /\ [Next]_vars => Registers'
    BY OwnersStep, OneRowStep, ActorsStep, OrphansStep, ApproveRegisters, EndRegisters,
       StutterRegisters DEF Next, Registers, RegistryInv
<1> QED BY <1>1, InitRegisters, InvariantHolds, PTL DEF Spec

(* Whatever was looked up, posted, removed or rolled back, all who name a   *)
(* machine agree whose it is, an identifier is of one row of a table, and   *)
(* whoever acts for a user acts for one that is there, or raced with a      *)
(* transaction (auth.go:88-104, keyrotation.go:46-60).                      *)
THEOREM RegistryInvariantHolds == Spec => []RegistryInv
<1>1. Registers => RegistryInv
    BY DEF Registers
<1> QED BY <1>1, RegistersHolds, PTL

(* Every machine has a user, or was inserted by a handler that raced with   *)
(* one that can roll the user back (setup.go:80-103).                       *)
THEOREM MachinesHaveUsers == Spec => []NoOrphans
<1>1. Registers => NoOrphans
    BY DEF Registers
<1> QED BY <1>1, RegistersHolds, PTL

(* A pending rotation goes only with the account that posted it: the        *)
(* statements of postKeyRotation, deleteKeyRotation and deleteMachine act   *)
(* on identifiers looked up before, and those were that account's           *)
(* (keyrotation.go:46-60, 107).                                             *)
THEOREM OwnersAloneSettle == Spec => OnlyOwnersSettle
<1>1. ASSUME AccountsInv, Registers, [Next]_vars PROVE OwnersSettle
    <2>1. SUFFICES ASSUME NEW x \in view.rotations, x \notin view'.rotations, view' # saved
                   PROVE  \E r \in Requests :
                            /\ local[r].acct = x.acct
                            /\ \/ at[r] = "clear" /\ local[r].who.id = x.machine
                               \/ /\ at[r] = "upsert"
                                  /\ \E y \in view'.rotations : y.machine = x.machine /\ y.by = r
                               \/ /\ at[r] = "remove"
                                  /\ x.machine \notin {m.id : m \in view'.machines}
        BY DEF OwnersSettle
    <2>2. PICK r \in Requests : Step(r)
        BY <1>1, <2>1 DEF Next, vars, Approve, ConnectionEnds
    <2>3. TypeOK /\ SeenInv /\ AuthInv /\ OwnersInv /\ view \in Tables /\ x \in Rotations
        BY <1>1 DEF AccountsInv, TypeOK, Registers, RegistryInv, Tables
    <2>4. x.machine \in Ids /\ x.acct \in OwnersOf(x.machine)
        BY <2>3, OwnersAre DEF Rotations
    <2>5. \A a \in OwnersOf(x.machine) : a = x.acct
        BY <2>3, <2>4, OwnersAgree
    <2>6. Clear(r) \/ Upsert(r) \/ Remove(r)
        BY <2>1, <2>2, <2>3, StepWrites DEF WritesSomething, Commit, Reverts, CommitFails, Rollback,
           AddUser, AddMachine, Store, DeleteKey, UpdateKey, Writes, Tables
    <2>7. Kind(r) \in Kinds /\ at[r] \in PlacesOf(Kind(r))
        BY <2>3, AskTypes DEF TypeOK
    <2>8. CASE Clear(r)
        <3>1. at[r] = "clear" /\ local[r].who.id = x.machine
            BY <2>1, <2>3, <2>8 DEF Clear, Writes, Tables
        <3>2. local[r].who # NoMachine
            BY <2>4, <3>1, AccountsAssumption DEF NoMachine
        <3>3. Kind(r) # "newMachineChallenge"
            BY <2>7, <3>1, Routes
        <3>4. local[r].who.user = local[r].acct
            BY <2>3, <3>2, <3>3 DEF AuthInv, Authenticated
        <3>5. local[r].who.user \in OwnersOf(x.machine)
            BY <3>1, <3>2, OwnersAre
        <3> QED BY <2>5, <3>1, <3>4, <3>5
    <2>9. CASE Upsert(r)
        <3>1. PICK e \in local[r].seen :
                 /\ at[r] = "upsert"
                 /\ view'.rotations =
                       {y \in view.rotations : y.machine # e} \union
                       {[machine |-> e, acct |-> local[r].acct, by |-> r]}
            BY <2>3, <2>9 DEF Upsert, Writes, Tables
        <3>2. Kind(r) = "postKeyRotation" /\ x.machine = e
            BY <2>1, <2>7, <3>1, Routes
        <3>3. local[r].acct \in OwnersOf(x.machine)
            BY <3>1, <3>2, OwnersAre DEF LooksAtMachines
        <3>4. [machine |-> x.machine, acct |-> local[r].acct, by |-> r] \in view'.rotations
            BY <3>1, <3>2
        <3> QED BY <2>5, <3>1, <3>3, <3>4
    <2>10. CASE Remove(r)
        <3>1. /\ at[r] = "remove" /\ x.machine \in local[r].seen
              /\ view'.machines = {m \in view.machines : m.id \notin local[r].seen}
            BY <2>1, <2>3, <2>10 DEF Remove, Writes, Tables
        <3>2. Kind(r) = "deleteMachine"
            BY <2>7, <3>1, Routes
        <3>3. local[r].acct \in OwnersOf(x.machine)
            BY <3>1, <3>2, OwnersAre DEF LooksAtMachines
        <3> QED BY <2>5, <3>1, <3>3
    <2> QED BY <2>6, <2>8, <2>9, <2>10
<1> QED BY <1>1, InvariantHolds, RegistersHolds, PTL DEF Spec, OnlyOwnersSettle

-----------------------------------------------------------------------------
(* The committed rows as a Registry.                                        *)

(* A step that keeps what is given and committed users, inserts only rows   *)
(* with new identifiers and commits all that the session sees or nothing,   *)
(* is a change of the registry.                                             *)
LEMMA Changes ==
    ASSUME AccountsInv, AccountsInv', Registers',
           saved.users \subseteq saved'.users,
           saved' \in {saved, view'},
           \A id : Given(id) => Given(id)',
           \A n \in Rows' : \/ ~Given(n.id)
                            \/ \E o \in Rows : o.id = n.id /\ o.user = n.user /\ o.name = n.name
    PROVE  R!Change
<1>1. \A m \in saved.machines, n \in saved'.machines :
         m.id = n.id => m.user = n.user /\ m.name = n.name
    BY DEF AccountsInv, RowsInv, Rows
<1>2. ASSUME NEW id \in Gone PROVE id \in Gone'
    <2>1. \A n \in Rows' : n.id # id
        BY <1>2 DEF Gone, RowIds, Rows
    <2> QED BY <1>2, <2>1 DEF Gone, RowIds, Rows
<1>3. ASSUME NEW m \in saved.machines, \A n \in saved'.machines : n.id # m.id
      PROVE  m.id \in Gone'
    <2>1. saved' = view'
        BY <1>3
    <2>2. m.id \in Ids /\ Given(m.id)
        BY DEF AccountsInv, TypeOK, Tables, Machines, RowsInv, Rows
    <2> QED BY <1>3, <2>1, <2>2 DEF Gone, RowIds
<1>4. Gone \union (R!Known(saved.machines) \ R!Known(saved'.machines)) \subseteq Gone'
    BY <1>2, <1>3 DEF R!Known
<1>5. R!OneEach(saved'.machines)
    BY DEF Registers, RegistryInv, OneRow, R!OneEach
<1>6. R!Known(saved'.machines) \intersect Gone' = {}
    BY DEF R!Known, Gone, RowIds
<1>7. \A m \in saved'.machines : ValidatePublicKey(m.key)
    BY DEF AccountsInv, KeysInv, Rows
<1> QED BY <1>1, <1>4, <1>5, <1>6, <1>7 DEF R!Change, R!Sound

LEMMA StepChanges ==
    ASSUME AccountsInv, AccountsInv', Registers', NEW r \in Requests, Step(r)
    PROVE  R!Change
<1>1. TypeOK /\ saved.users \subseteq view.users
    BY DEF AccountsInv, SessionInv
<1>2. saved' \in {saved, view'} /\ saved.users \subseteq saved'.users
    <2>1. CASE WritesSomething(r)
        BY <1>1, <2>1, WrittenRows
    <2>2. CASE UNCHANGED <<view, saved>> \/ Commit(r) \/ Reverts(r)
        BY <1>1, <2>2 DEF Commit, Reverts, CommitFails, Rollback
    <2> QED BY <2>1, <2>2, StepWrites
<1>3. \A id : Given(id) => Given(id)'
    BY <1>1, StaysGiven
<1>4. ASSUME NEW n \in Rows'
      PROVE  \/ ~Given(n.id)
             \/ \E o \in Rows : o.id = n.id /\ o.user = n.user /\ o.name = n.name
    <2>1. CASE AddMachine(r) /\ n = NewMachine(r)
        BY <1>1, <2>1, AddingMachine DEF Given, NewMachine
    <2>2. CASE \E o \in Rows : SameMachine(r, n, o)
        BY <2>2 DEF SameMachine
    <2> QED BY <1>1, <2>1, <2>2, StepRows
<1> QED BY <1>2, <1>3, <1>4, Changes

LEMMA OtherChanges ==
    ASSUME AccountsInv, AccountsInv', Registers',
           \/ UNCHANGED vars
           \/ ConnectionEnds
           \/ \E c, q \in Requests : Approve(c, q)
    PROVE  R!Change
<1>1. saved' = saved /\ view' \in {view, saved}
    BY DEF vars, ConnectionEnds, Approve
<1>2. ASSUME NEW id, Given(id) PROVE Given(id)'
    <2>1. CASE UNCHANGED vars
        BY <1>2, <2>1 DEF vars, Given
    <2>2. CASE ConnectionEnds
        BY <1>2, <2>2 DEF ConnectionEnds, Given, InFlight
    <2>3. ASSUME NEW c \in Requests, NEW q \in Requests, Approve(c, q) PROVE Given(id)'
        <3>1. at \in [Requests -> Places]
            BY DEF AccountsInv, TypeOK
        <3> QED BY <1>2, <2>3, <3>1 DEF Approve, Given
    <2> QED BY <2>1, <2>2, <2>3
<1>3. Rows' \subseteq Rows
    BY <1>1 DEF Rows
<1> QED BY <1>1, <1>2, <1>3, Changes

(* However handlers interleave and roll back, the committed tables change   *)
(* only as Registry allows: in particular a machine whose removal is        *)
(* committed does not come back (machine.go:105-116, 167).                  *)
THEOREM AccountsAreARegistry == Spec => ImplementsRegistry
<1>1. ASSUME AccountsInv, Registers PROVE R!Sound(saved.machines, Gone)
    <2>1. R!OneEach(saved.machines)
        BY <1>1 DEF Registers, RegistryInv, OneRow, R!OneEach
    <2>2. R!Known(saved.machines) \intersect Gone = {}
        BY DEF R!Known, Gone, RowIds
    <2>3. \A m \in saved.machines : ValidatePublicKey(m.key)
        BY <1>1 DEF AccountsInv, KeysInv, Rows
    <2> QED BY <2>1, <2>2, <2>3 DEF R!Sound
<1>2. Init => R!Init
    BY <1>1, InitHolds, InitRegisters DEF R!Init
<1>3. AccountsInv /\ AccountsInv' /\ Registers' /\ [Next]_vars => [R!Change]_(R!vars)
    BY StepChanges, OtherChanges DEF Next
<1> QED BY <1>2, <1>3, InvariantHolds, RegistersHolds, PTL DEF Spec, ImplementsRegistry, R!Spec
=============================================================================
