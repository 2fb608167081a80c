------------------------------- MODULE MCLive -------------------------------
(* Small instances of Live: who takes part, and which phrases are drawn.    *)
EXTENDS LiveInvariant, TLC

(* Every handler draws a phrase of its own.                                 *)
OwnPhrase == CHOOSE f \in [Challengers -> Phrases] :
                \A a, b \in Challengers : f[a] = f[b] => a = b

(* Every handler draws the same phrase.                                     *)
SamePhrase == [c \in Challengers |-> CHOOSE p \in Phrases : TRUE]

(* Each account starts with one machine.                                    *)
OneMachineEach == {<<u, CHOOSE n \in Names : TRUE>> : u \in Users}

ApproverSymmetry == Permutations(Responders)
=============================================================================
