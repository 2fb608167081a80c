----------------------------- MODULE MCAccounts -----------------------------
(* A small instance of Accounts: two users, the first with two machines,    *)
(* and requests of every kind, some of them with keys and tokens that are   *)
(* no good.  That of the refused rotation has an exp of second 0.           *)
EXTENDS AccountsInvariant, TLC

CONSTANTS u1, u2, m1, m2, m3, n1, n2, n3, k1, k2, k3, k4

ECFile(pair)    == [block |-> "PUBLIC KEY", content |-> "EC", pair |-> pair]
RSAFile(pair)   == [block |-> "PUBLIC KEY", content |-> "RSA", pair |-> pair]
MLDSAFile(pair) == [block |-> "ML-DSA PUBLIC KEY", content |-> "ML-DSA-65", pair |-> pair]

TwoUsers == {[id |-> u1, name |-> "ann"], [id |-> u2, name |-> "bob"]}
ThreeMachines ==
    {[id |-> m1, user |-> u1, name |-> n1, key |-> ECFile(k1)],
     [id |-> m2, user |-> u1, name |-> n2, key |-> MLDSAFile(k2)],
     [id |-> m3, user |-> u2, name |-> n2, key |-> ECFile(k3)]}

Token1 == Fresh("ES256", ECFile(k1))
Token2 == Fresh("ML-DSA-65", MLDSAFile(k2))
Token3 == [Fresh("ES512", ECFile(k3)) EXCEPT !.exp = Missing]

Ask(kind, user, machine, token) ==
    [kind |-> kind, user |-> user, machine |-> machine, token |-> token,
     name |-> n1, key |-> ECFile(k4), item |-> "config", entries |-> {}]

As1(kind) == Ask(kind, "ann", n1, Token1)
As2(kind) == Ask(kind, "ann", n2, Token2)
As3(kind) == Ask(kind, "bob", n2, Token3)

Joining ==
    {Ask("initialSetup", "cat", n1, Token1),
     [Ask("initialSetup", "cat", n1, Token1) EXCEPT !.key = RSAFile(k4)],
     Ask("newMachineChallenge", "ann", n3, Token1),
     Ask("newMachineChallenge", "ann", n2, Token1),
     [Ask("newMachineChallenge", "ann", n3, Token1) EXCEPT !.key = RSAFile(k4)],
     As2("challengeResponse")}

Using ==
    {As2("addData"), As1("deleteData"), [As1("deleteMachine") EXCEPT !.name = n2],
     [As1("postKeyRotation") EXCEPT !.entries = {m1, m2}],
     As2("getKeyRotation"), As2("deleteKeyRotation"), As3("getMachines"),
     [As2("updateMachineKey") EXCEPT !.key = MLDSAFile(k4)]}

(* Another account's machine; a token that expired half a second ago, one   *)
(* of no key's algorithm.  A signature that does not fit is that of a       *)
(* machine whose key, or row, was replaced meanwhile.                       *)
Refused ==
    {[As3("postKeyRotation") EXCEPT !.entries = {m2}, !.token.exp = 1],
     [As2("getMachines") EXCEPT !.token.exp = 2 * Now - 1],
     [As2("getMachines") EXCEPT !.token.alg = "RS256"]}

AllAsks == Joining \union Using \union Refused

RequestSymmetry == Permutations(Requests)
=============================================================================
