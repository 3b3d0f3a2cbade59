---------------------------- MODULE TieredStore -----------------------------
(***************************************************************************)
(* What the two tiers promise a user, without cycles, queue, worker,       *)
(* record or process: captures appear in the hot tier, each at once and    *)
(* complete; cold storage takes complete captures only, in the order they  *)
(* were named; and both tiers forget a snapshot only in favour of a newer  *)
(* one of the same tier.  A crash is no event of this module: it loses     *)
(* nothing.                                                                *)
(***************************************************************************)
EXTENDS Integers

CONSTANTS Servers, Times

VARIABLES
    kept,       \* kept[s]: complete snapshots in the hot tier
    stored      \* stored[s]: complete snapshots in cold storage

TypeOK == kept \in [Servers -> SUBSET Times] /\ stored \in [Servers -> SUBSET Times]

Init ==
    /\ kept = [s \in Servers |-> {}]
    /\ stored = [s \in Servers |-> {}]

Capture(s, t) ==
    /\ t \notin kept[s]
    /\ kept' = [kept EXCEPT ![s] = @ \cup {t}]
    /\ UNCHANGED stored

Offload(s, t) ==
    /\ t \in kept[s] /\ \A u \in stored[s] : u < t
    /\ stored' = [stored EXCEPT ![s] = @ \cup {t}]
    /\ UNCHANGED kept

\* Of S the snapshots R may go together: each leaves a newer one behind.
Dispensable(R, S) == R # {} /\ \A t \in R : \E u \in S \ R : u > t

ForgetKept(s) ==
    /\ \E R \in SUBSET kept[s] :
         Dispensable(R, kept[s]) /\ kept' = [kept EXCEPT ![s] = @ \ R]
    /\ UNCHANGED stored

ForgetStored(s) ==
    /\ \E R \in SUBSET stored[s] :
         Dispensable(R, stored[s]) /\ stored' = [stored EXCEPT ![s] = @ \ R]
    /\ UNCHANGED kept

tiers == <<kept, stored>>

Next ==
    /\ tiers' # tiers
    /\ \E s \in Servers :
         \/ \E t \in Times : Capture(s, t) \/ Offload(s, t)
         \/ ForgetKept(s) \/ ForgetStored(s)

Spec == Init /\ [][Next]_tiers

=============================================================================
