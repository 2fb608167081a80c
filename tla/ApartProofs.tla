----------------------------- MODULE ApartProofs -----------------------------
(***************************************************************************)
(* The properties of Accounts allow what a race of two requests can do.    *)
(* Here it is shown that nothing else is behind these exceptions: if        *)
(* requests are handled one at a time, but for a challenger and the machine *)
(* that answers it, the properties hold without any.                        *)
(***************************************************************************)
EXTENDS RegistryProofs

Pair == {"newMachineChallenge", "challengeResponse"}

Separate ==
    \A q, r \in Requests :
       q # r /\ InFlight(q) /\ InFlight(r) => {Kind(q), Kind(r)} = Pair

(* Names are unique, no upload meets a rotation, every handler acts for a   *)
(* machine that is in the table with the key it was let through with, or is *)
(* the one it has just removed, and every machine has a user.               *)
Unqualified ==
    /\ \A t \in {view, saved} :
          /\ \A u, v \in t.users : u.name = v.name => u.id = v.id
          /\ \A m, n \in t.machines : m.user = n.user /\ m.name = n.name => m = n
          /\ \A m \in t.machines : m.user \in {u.id : u \in t.users}
    /\ \A r \in Requests :
          Kind(r) = "addData" /\ at[r] \in {"begin", "store", "commit"} =>
             \A x \in view.rotations : x.machine # local[r].who.id
    /\ \A r \in Requests : local[r].who # NoMachine =>
          \/ local[r].who \in view.machines
          \/ Kind(r) = "deleteMachine" /\ at[r] = "commit"

-----------------------------------------------------------------------------
(* Who met whom, and who made the rows.                                     *)
MetApart == \A r \in Requests : \A q \in met[r] : {Kind(q), Kind(r)} = Pair

Creators ==
    \A m \in Rows : m.id \in Requests =>
       Kind(m.id) \in {"initialSetup", "newMachineChallenge"}

LEMMA ApartStep ==
    ASSUME TypeOK, MetApart, Separate', NEW r \in Requests, Step(r)
    PROVE  MetApart'
<1>1. /\ \A q \in Requests \ {r} : at'[q] = at[q]
      /\ \A q \in Requests : Kind(q)' = Kind(q) /\ met[q] \subseteq Requests
    BY StepMoves, OthersStay DEF TypeOK
<1>2. CASE met' = met
    BY <1>1, <1>2 DEF MetApart
<1>3. CASE Arrive(r) /\ ~Admitted(ask[r])
    BY <1>1, <1>3 DEF Arrive, MetApart
<1>4. CASE Arrive(r) /\ Admitted(ask[r])
    <2>1. /\ at[r] = "idle"
          /\ met' = [q \in Requests |->
                      IF q = r THEN {p \in Requests : InFlight(p)}
                      ELSE IF InFlight(q) THEN met[q] \union {r} ELSE met[q]]
        BY <1>4 DEF Arrive
    <2>2. ~InFlight(r) /\ \A q \in Requests \ {r} : InFlight(q)' = InFlight(q)
        BY <1>1, <2>1 DEF InFlight
    <2>3. InFlight(r)'
        <3>1. Kind(r) \in Kinds /\ at[r] \in PlacesOf(Kind(r))
            BY AskTypes DEF TypeOK
        <3>2. at'[r] = To(r)
            BY <1>4 DEF Arrive, Continues, To, TypeOK
        <3> QED BY <2>1, <3>1, <3>2, Routes DEF InFlight, To
    <2>4. \A q \in Requests \ {r} : InFlight(q) => {Kind(q), Kind(r)} = Pair
        BY <1>1, <2>2, <2>3 DEF Separate
    <2>5. ASSUME NEW q \in Requests, NEW p \in met'[q] PROVE {Kind(p), Kind(q)} = Pair
        <3>1. CASE q = r
            BY <2>1, <2>2, <2>4, <2>5, <3>1
        <3>2. CASE q # r /\ p \in met[q]
            BY <3>2 DEF MetApart
        <3>3. CASE q # r /\ p \notin met[q]
            <4>1. p = r /\ InFlight(q)
                BY <2>1, <2>5, <3>3
            <4> QED BY <2>4, <3>3, <4>1
        <3> QED BY <3>1, <3>2, <3>3
    <2>6. \A q \in Requests : met'[q] \subseteq Requests
        BY <1>1, <2>1
    <2> QED BY <1>1, <2>5, <2>6 DEF MetApart
<1> QED BY <1>2, <1>3, <1>4, StepMoves

LEMMA CreatorsStep ==
    ASSUME TypeOK, Creators, NEW r \in Requests, Step(r)
    PROVE  Creators'
<1>1. \A q \in Requests : Kind(q)' = Kind(q)
    BY StepMoves, OthersStay
<1>2. ASSUME NEW m \in Rows', m.id \in Requests
      PROVE  Kind(m.id) \in {"initialSetup", "newMachineChallenge"}
    <2>1. CASE AddMachine(r) /\ m = NewMachine(r)
        BY <2>1, AddingMachine DEF NewMachine
    <2>2. CASE \E n \in Rows : SameMachine(r, m, n)
        BY <1>2, <2>2 DEF SameMachine, Creators
    <2> QED BY <2>1, <2>2, StepRows
<1> QED BY <1>1, <1>2 DEF Creators

LEMMA ApartHolds == Spec /\ []Separate => [](MetApart /\ Creators)
<1>1. Init => MetApart /\ Creators
    <2> SUFFICES ASSUME Init PROVE MetApart /\ Creators
        OBVIOUS
    <2> QED BY AccountsAssumption DEF Init, MetApart, Creators, Rows
<1>2. ASSUME AccountsInv, MetApart, Creators, Separate', [Next]_vars
      PROVE  MetApart' /\ Creators'
    <2>1. ASSUME NEW r \in Requests, Step(r) PROVE MetApart' /\ Creators'
        BY <1>2, <2>1, ApartStep, CreatorsStep DEF AccountsInv
    <2>2. CASE UNCHANGED vars \/ ConnectionEnds \/ \E c, q \in Requests : Approve(c, q)
        <3>1. ask' = ask /\ met' = met /\ Rows' \subseteq Rows
            BY <2>2 DEF vars, ConnectionEnds, Approve, Rows
        <3>2. \A q \in Requests : Kind(q)' = Kind(q) /\ met[q] \subseteq Requests
            BY <1>2, <3>1 DEF Kind, AccountsInv, TypeOK
        <3> QED BY <1>2, <3>1, <3>2 DEF MetApart, Creators
    <2> QED BY <1>2, <2>1, <2>2 DEF Next
<1> QED BY <1>1, <1>2, InvariantHolds, PTL DEF Spec

(* A handler that met only its counterpart in a pairing raced with nobody.  *)
LEMMA NotRaced ==
    ASSUME MetApart, NEW r \in Requests, NEW kinds,
           kinds \intersect Pair = {} \/ (Kind(r) \in {"initialSetup", "newMachineChallenge"}
                                          /\ "challengeResponse" \notin kinds)
    PROVE  ~Raced(r, kinds)
<1>1. SUFFICES ASSUME NEW q \in met[r], Kind(q) \in kinds PROVE FALSE
    BY DEF Raced
<1>2. {Kind(q), Kind(r)} = Pair
    BY DEF MetApart
<1>3. Kind(r) \in Pair /\ Kind(q) \in Pair /\ (Kind(r) = "newMachineChallenge" =>
         Kind(q) = "challengeResponse")
    <2>1. Kind(r) \in Pair /\ Kind(q) \in Pair
        BY <1>2
    <2>2. "challengeResponse" \in {Kind(q), Kind(r)}
        BY <1>2 DEF Pair
    <2> QED BY <2>1, <2>2
<1> QED BY <1>1, <1>3 DEF Pair

(* When requests are handled one at a time, a pairing's two ends excepted,  *)
(* the exceptions that the invariants make for races do not occur.  Only    *)
(* the shared connection, which lets handlers interleave between any two    *)
(* statements, is behind them (database/main.go:23-44).                     *)
THEOREM ApartNothingRaces == Spec /\ []Separate => []Unqualified
<1>1. ASSUME AccountsInv, Registers, MetApart, Creators PROVE Unqualified
    <2> USE <1>1
    <2>1. \A r \in Requests : ~Raced(r, {"initialSetup"}) /\ ~Raced(r, TxKinds)
                              /\ ~Raced(r, KeyKinds)
        BY NotRaced DEF Pair, TxKinds, KeyKinds
    <2>2. \A m \in Rows : m.id \in Requests => ~Raced(m.id, Naming)
        BY NotRaced DEF Creators, Naming
    <2>3. \A u, v \in view.users : u.name = v.name => u.id = v.id
        BY <2>1 DEF AccountsInv, UserNamesInv
    <2>4. \A u, v \in saved.users : u.name = v.name => u.id = v.id
        BY <2>3 DEF AccountsInv, SessionInv
    <2>5. ASSUME NEW t \in {view, saved}, NEW m \in t.machines, NEW n \in t.machines,
                 m.user = n.user, m.name = n.name
          PROVE  m = n
        <3>1. m.id = n.id
            BY <2>2, <2>5 DEF AccountsInv, NamesInv, Rows
        <3> QED BY <2>5, <3>1 DEF Registers, RegistryInv, OneRow
    <2>6. \A t \in {view, saved} : \A m \in t.machines : m.user \in {u.id : u \in t.users}
        BY <2>1 DEF Registers, NoOrphans
    <2>7. ASSUME NEW r \in Requests, Kind(r) = "addData", at[r] \in {"begin", "store", "commit"},
                 NEW x \in view.rotations
          PROVE  x.machine # local[r].who.id
        BY <2>1, <2>7 DEF AccountsInv, UploadMeetsRotation
    <2>8. ASSUME NEW r \in Requests, local[r].who # NoMachine, local[r].who \notin view.machines
          PROVE  Kind(r) = "deleteMachine" /\ at[r] = "commit"
        <3>1. met[r] \subseteq Requests
            BY DEF AccountsInv, TypeOK
        <3> QED BY <2>1, <2>8, <3>1 DEF AccountsInv, AuthorityIsCurrent
    <2> QED BY <2>3, <2>4, <2>5, <2>6, <2>7, <2>8 DEF Unqualified
<1> QED BY <1>1, ApartHolds, InvariantHolds, RegistersHolds, PTL
=============================================================================
