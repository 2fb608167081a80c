------------------------------- MODULE Service -------------------------------
(***************************************************************************)
(* What the handlers promise their clients, without statements,            *)
(* transactions or a connection that can be busy.  Requests are served one *)
(* at a time.  One that writes is stored at once and entirely; its client  *)
(* is told of success only with that, and of failure only without it,      *)
(* unless the database was lost meanwhile.  Nothing a request does outlasts *)
(* it, and nothing that was stored goes away.                              *)
(*                                                                         *)
(* An upload promises less: it may tell its client first and act then, and *)
(* store a part of itself after it told of failure.                        *)
(***************************************************************************)
CONSTANT Requests

VARIABLES
    sort,    (* of each request: whether it reads, writes or uploads         *)
    phase,   (* whether it waits, runs or is over                            *)
    told,    (* what its client was or will be told: ok, fail, or none       *)
    effect,  (* what of it is stored: none, a part or all                    *)
    link     (* whether there is a database                                  *)

vars == <<sort, phase, told, effect, link>>

Init ==
    /\ sort \in [Requests -> {"read", "write", "upload"}]
    /\ phase = [r \in Requests |-> "waiting"]
    /\ told = [r \in Requests |-> "none"]
    /\ effect = [r \in Requests |-> "none"]
    /\ link = TRUE

Running(r) == phase[r] = "running"

Start(r) ==
    /\ phase[r] = "waiting" /\ \A q \in Requests : ~Running(q)
    /\ phase' = [phase EXCEPT ![r] = "running"]
    /\ UNCHANGED <<sort, told, effect, link>>

(* A request is stored once, while it runs and the database is there.      *)
Stores(r) ==
    /\ Running(r) /\ link
    /\ sort[r] # "read" /\ effect[r] = "none"
    /\ told[r] = "fail" => sort[r] = "upload"
    /\ effect' = [effect EXCEPT ![r] = IF told[r] = "fail" THEN "part" ELSE "all"]

Unstored(r) == effect[r] = "none" \/ ~link

Tells(r, answer) ==
    told' = IF told[r] = "none" THEN [told EXCEPT ![r] = answer] ELSE told

(* A failure can be decided before the request is over; so, for an upload, *)
(* can a success.                                                          *)
Decide(r, answer) ==
    /\ Running(r) /\ Unstored(r) /\ told[r] = "none"
    /\ answer = "ok" => sort[r] = "upload"
    /\ Tells(r, answer)
    /\ UNCHANGED <<sort, phase, effect, link>>

Ends(r) == Running(r) /\ phase' = [phase EXCEPT ![r] = "over"]

Succeed(r) ==
    /\ Ends(r)
    /\ Stores(r) \/ (sort[r] = "read" /\ UNCHANGED effect)
    /\ Tells(r, "ok")
    /\ UNCHANGED <<sort, link>>

(* It may cost the database.                                               *)
Fail(r) ==
    /\ Ends(r) /\ Unstored(r)
    /\ Tells(r, "fail")
    /\ link' \in {link, FALSE}
    /\ UNCHANGED <<sort, effect>>

(* Whether the request that runs was stored before the database was lost,  *)
(* nobody knows.                                                           *)
StoredOrNot == UNCHANGED effect \/ \E r \in Requests : Stores(r)

LinkLost ==
    /\ link /\ link' = FALSE
    /\ StoredOrNot
    /\ UNCHANGED <<sort, phase, told>>

Restart ==
    /\ link' = TRUE
    /\ phase' = [r \in Requests |-> IF Running(r) THEN "over" ELSE phase[r]]
    /\ told' = [r \in Requests |-> IF Running(r) THEN "none" ELSE told[r]]
    /\ StoredOrNot
    /\ UNCHANGED sort

Next ==
    \/ \E r \in Requests :
          \/ Start(r) \/ Succeed(r) \/ Fail(r)
          \/ \E answer \in {"ok", "fail"} : Decide(r, answer)
    \/ LinkLost
    \/ Restart

Spec == Init /\ [][Next]_vars
=============================================================================
