---------------------------- MODULE Membership ----------------------------
(***************************************************************************)
(* What claim gossip promises, without messages, maps or timers: a member  *)
(* has one identity, which it changes only by taking another VIP under the *)
(* next epoch, and what others hold of it are identities it has had.       *)
(*                                                                         *)
(*   id      per node: its VIP and epoch                                   *)
(*   heard   per node: the identities that are said of it anywhere, in a   *)
(*           claim map, in a packet or by itself                           *)
(*                                                                         *)
(* ClaimGossip implements this while no process exits.                     *)
(***************************************************************************)
EXTENDS Naturals

CONSTANTS Nodes, Addresses

VARIABLES id, heard

Identity == [vip : Addresses, epoch : Nat]

Init ==
    /\ id \in [Nodes -> Identity]
    /\ heard = [n \in Nodes |-> {id[n]}]

Reroll(n) ==
    \E v \in Addresses \ {id[n].vip} :
        id' = [id EXCEPT ![n] = [vip |-> v, epoch |-> id[n].epoch + 1]]

\* Identities are said again or forgotten; none is invented.
Heard ==
    /\ heard' = [n \in Nodes |-> heard'[n]]
    /\ \A n \in Nodes : id'[n] \in heard'[n] /\ heard'[n] \subseteq heard[n] \cup {id'[n]}

Next ==
    /\ UNCHANGED id \/ \E n \in Nodes : Reroll(n)
    /\ Heard

Spec == Init /\ [][Next]_<<id, heard>>

----------------------------------------------------------------------------
\* merge_claim keeps the first of two claims with the same epoch, so one epoch
\* must never carry two VIPs, nor a claim run ahead of its owner.
OneVipPerEpoch ==
    \A n \in Nodes : \A c \in heard[n] :
        /\ c.epoch <= id[n].epoch
        /\ \A d \in heard[n] : c.epoch = d.epoch => c.vip = d.vip
=============================================================================
