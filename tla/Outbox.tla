------------------------------- MODULE Outbox -------------------------------
(***************************************************************************)
(* What src/runtime/StatePublisher.ts promises to its two sides, without   *)
(* its timers, batches, budget and index: every report of the network is   *)
(* said to the host, in the order of its feature, at least once; only a    *)
(* newer report of the feature makes one needless, and never an event,     *)
(* unless more than Capacity of them wait.                                 *)
(*                                                                         *)
(* A report is [feature, no], where `no' counts the reports accepted.      *)
(***************************************************************************)
EXTENDS Integers, FiniteSets

CONSTANTS Features, Events, Capacity

VARIABLES
    said,       \* how many reports the network has made
    pending,    \* reports the host has yet to be told
    unsure,     \* those it was just told, but has not acknowledged
    shown       \* feature -> number of the report it shows

vars == <<said, pending, unsure, shown>>

Init == said = 0 /\ pending = {} /\ unsure = {} /\ shown = <<>>

Newer(r, R) == \E n \in R : n.feature = r.feature /\ r.no < n.no

\* Only reports that a newer one replaces are left out of `kept'.
Coalesced(R, kept) == \A r \in R \ kept : r.feature \notin Events /\ Newer(r, kept)

\* A report, which may replace waiting ones of its feature.
Say(f) ==
    /\ said' = said + 1 /\ UNCHANGED <<unsure, shown>>
    /\ \E old \in SUBSET {r \in pending : r.feature = f /\ f \notin Events} :
         pending' = (pending \ old) \cup {[feature |-> f, no |-> said + 1]}

Newest(batch, f) ==
    CHOOSE n \in {r.no : r \in {x \in batch : x.feature = f}} :
        \A r \in batch : r.feature = f => r.no <= n

\* The host is told a batch, of every feature the oldest reports first.
Tell ==
    /\ unsure = {} /\ UNCHANGED said
    /\ pending' \in SUBSET pending /\ pending' # pending
    /\ \A r \in pending \ pending', later \in pending' :
         r.feature = later.feature => r.no < later.no
    /\ unsure' = pending \ pending'
    /\ shown' = [f \in DOMAIN shown \cup {r.feature : r \in unsure'} |->
                    IF f \in {r.feature : r \in unsure'} THEN Newest(unsure', f) ELSE shown[f]]

\* It acknowledges the batch, or nothing was in doubt: room is made, down to
\* Capacity reports of any kind if coalescing is not enough.
Settle ==
    /\ unsure' = {} /\ UNCHANGED <<said, shown>>
    /\ pending' \in SUBSET pending
    /\ Coalesced(pending, pending') \/ Cardinality(pending') = Capacity

\* The acknowledgement is lost: the batch is told again, but for what waiting
\* reports replace.
Again ==
    /\ unsure' = {} /\ UNCHANGED <<said, shown>>
    /\ pending' \in SUBSET (pending \cup unsure) /\ pending \subseteq pending'
    /\ Coalesced(pending \cup unsure, pending')

Next == (\E f \in Features : Say(f)) \/ Tell \/ Settle \/ Again

Spec == Init /\ [][Next]_vars
=============================================================================
