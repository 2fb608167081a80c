------------------------------ MODULE Registry ------------------------------
(***************************************************************************)
(* What the committed tables promise of users and machines, without        *)
(* handlers, statements or sessions.  A change is what becomes visible at a *)
(* time, the work of any number of requests.  In it machines may join,     *)
(* leave and get other keys, and users may join, but a machine stays the    *)
(* same user's under the same name, an identifier is one machine's, and one *)
(* that has gone is never a machine's again.                                *)
(***************************************************************************)
CONSTANT CanSign(_)   (* whether the owner of a key can sign with it         *)

VARIABLES
    users,    (* the users                                                   *)
    members,  (* the machines                                                *)
    gone      (* the identifiers that will never be a machine's              *)

vars == <<users, members, gone>>

Known(table) == {m.id : m \in table}

OneEach(table) == \A m, n \in table : m.id = n.id => m = n

Sound(table, out) ==
    /\ OneEach(table)
    /\ Known(table) \intersect out = {}
    /\ \A m \in table : CanSign(m.key)

Init == Sound(members, gone)

Change ==
    /\ users \subseteq users'
    /\ \A m \in members, n \in members' :
          m.id = n.id => m.user = n.user /\ m.name = n.name
    /\ gone \union (Known(members) \ Known(members')) \subseteq gone'
    /\ Sound(members', gone')

Spec == Init /\ [][Change]_vars
=============================================================================
