---------------------------- MODULE OutputDamage ----------------------------
(***************************************************************************)
(* What the frame scheduler promises about damage, without its serials: an  *)
(* output has some damage, a render covers what the output had when it was  *)
(* requested, and finishing it retires what it covered and nothing that was *)
(* damaged again since.                                                     *)
(***************************************************************************)
EXTENDS Sequences

CONSTANTS Outputs, Textures, Whole

VARIABLES damage, renders

Damage == Textures \cup {Whole}

Init ==
    /\ damage = [o \in Outputs |-> {}]
    /\ renders = [o \in Outputs |-> <<>>]

Uncovered(queue, new) == [i \in DOMAIN queue |-> queue[i] \ new]

(* An output is damaged by new, and then a render of it may begin. *)
Step(o, new, begun) ==
    LET now == damage[o] \cup new IN
    /\ begun => now # {}
    /\ damage'[o] = now
    /\ renders'[o] = Uncovered(renders[o], new) \o (IF begun THEN <<now>> ELSE <<>>)

(* The oldest render of an output is published. *)
Finish(o) ==
    /\ renders[o] # <<>>
    /\ damage' = [damage EXCEPT ![o] = @ \ Head(renders[o])]
    /\ renders' = [renders EXCEPT ![o] = Tail(@)]

(* It produced no frame; its damage stays for the next one. *)
Drop(o) ==
    /\ renders[o] # <<>>
    /\ damage' = damage
    /\ renders' = [renders EXCEPT ![o] = Tail(@)]

Next ==
    \/ /\ damage' \in [Outputs -> SUBSET Damage]
       /\ renders' \in [Outputs -> Seq(SUBSET Damage)]
       /\ \A o \in Outputs : \E new \in SUBSET Damage, begun \in BOOLEAN : Step(o, new, begun)
    \/ \E o \in Outputs : Finish(o) \/ Drop(o)

Spec == Init /\ [][Next]_<<damage, renders>>
=============================================================================
