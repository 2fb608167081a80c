------------------------------- MODULE Pairing -------------------------------
(***************************************************************************)
(* What the pairing of machines promises, without handlers, channels or    *)
(* phrases: a request to join goes through its stages in one order and     *)
(* once, a machine of the same account gets the joining machine's public   *)
(* key and returns the master key before the request can add a row, and    *)
(* the key is served only after the row is there.  Any set of requests may *)
(* end at any stage (errors, time-outs, a restart of the server); a        *)
(* request that ends as a member without having been served is allowed.    *)
(***************************************************************************)
CONSTANTS Requesters, Approvers, NoOne

VARIABLES
    want,     (* what each request asks for: an account and a machine name *)
    who,      (* the account of each approver                              *)
    stage,    (* how far each request is                                   *)
    holder,   (* the approver that holds the requester's public key        *)
    rows,     (* the machines of all accounts                              *)
    served    (* the requesters that were sent the master key              *)

env  == <<want, who>>
vars == <<want, who, stage, holder, rows, served>>

Init ==
    /\ stage = [q \in Requesters |-> "new"]
    /\ holder = [q \in Requesters |-> NoOne]
    /\ \A m \in rows : m.id = NoOne
    /\ served = {}

Advance(q, from, to) ==
    /\ stage[q] = from
    /\ stage' = [stage EXCEPT ![q] = to]

(* The request can be approved from now on.                                *)
Open(q) ==
    /\ Advance(q, "new", "open")
    /\ UNCHANGED <<env, holder, rows, served>>

(* Some machine of the account has named the request.                      *)
Approve(q) ==
    /\ \E a \in Approvers : who[a] = want[q].user
    /\ Advance(q, "open", "approved")
    /\ UNCHANGED <<env, holder, rows, served>>

(* One approver of the account, which holds no other key, gets q's.        *)
PassKey(q, a) ==
    /\ who[a] = want[q].user
    /\ \A p \in Requesters : holder[p] # a
    /\ Advance(q, "approved", "keyed")
    /\ holder' = [holder EXCEPT ![q] = a]
    /\ UNCHANGED <<env, rows, served>>

(* The holder returns the master key.                                      *)
Seal(q) ==
    /\ holder[q] \in Approvers
    /\ Advance(q, "keyed", "sealed")
    /\ UNCHANGED <<env, holder, rows, served>>

Join(q) ==
    /\ Advance(q, "sealed", "member")
    /\ rows' = rows \union {[id |-> q, user |-> want[q].user, name |-> want[q].name]}
    /\ UNCHANGED <<env, holder, served>>

Serve(q) ==
    /\ Advance(q, "member", "over")
    /\ served' = served \union {q}
    /\ UNCHANGED <<env, holder, rows>>

End(Q) ==
    /\ stage' = [q \in Requesters |-> IF q \in Q THEN "over" ELSE stage[q]]
    /\ UNCHANGED <<env, holder, rows, served>>

Next ==
    \/ \E q \in Requesters :
          Open(q) \/ Approve(q) \/ Seal(q) \/ Join(q) \/ Serve(q)
    \/ \E q \in Requesters, a \in Approvers : PassKey(q, a)
    \/ \E Q \in SUBSET Requesters : End(Q)

Spec == Init /\ [][Next]_vars
=============================================================================
