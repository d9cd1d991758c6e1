------------------------------ MODULE TxnOutcome ------------------------------
(***************************************************************************)
(* What the commit protocol promises (spec.md sections 4.7 and 7): every   *)
(* transaction is decided at most once, Committed or Aborted, and the      *)
(* decision never changes; a key's write becomes durable only once its     *)
(* transaction is committed, and a write is discarded only while its       *)
(* transaction is not committed, so a committed transaction never loses a  *)
(* write.  Nothing here says how or when: the client, its sub-tasks and    *)
(* other transactions' lock resolution may each take these steps, several  *)
(* transactions in one step.                                               *)
(***************************************************************************)
CONSTANTS Txns, Keys

VARIABLES
    outcome,    \* outcome[t]: "Undecided", "Committed" or "Aborted"
    durable,    \* durable[t]: keys whose write of t is committed
    discarded   \* discarded[t]: keys whose lock of t was rolled back

vars == <<outcome, durable, discarded>>

Outcomes == {"Undecided", "Committed", "Aborted"}

TypeOK ==
    /\ outcome \in [Txns -> Outcomes]
    /\ durable \in [Txns -> SUBSET Keys]
    /\ discarded \in [Txns -> SUBSET Keys]

Init ==
    /\ outcome = [t \in Txns |-> "Undecided"]
    /\ durable = [t \in Txns |-> {}]
    /\ discarded = [t \in Txns |-> {}]

\* t commits, with some of its writes durable at once (one-PC commits all).
Commit(t) ==
    /\ outcome[t] = "Undecided"
    /\ discarded[t] = {}
    /\ outcome'[t] = "Committed"
    /\ durable[t] \subseteq durable'[t]
    /\ discarded'[t] = discarded[t]

\* t aborts, and may discard some of its writes in the same step.
Abort(t) ==
    /\ outcome[t] = "Undecided"
    /\ outcome'[t] = "Aborted"
    /\ durable'[t] = durable[t]
    /\ discarded[t] \subseteq discarded'[t]

\* More writes of a committed t become durable.
Apply(t) ==
    /\ outcome[t] = "Committed"
    /\ outcome'[t] = outcome[t]
    /\ durable[t] \subseteq durable'[t]
    /\ discarded'[t] = discarded[t]

\* More writes of a t that is not committed are discarded.
Discard(t) ==
    /\ outcome[t] # "Committed"
    /\ outcome'[t] = outcome[t]
    /\ durable'[t] = durable[t]
    /\ discarded[t] \subseteq discarded'[t]

Unchanged(t) ==
    /\ outcome'[t] = outcome[t]
    /\ durable'[t] = durable[t]
    /\ discarded'[t] = discarded[t]

Next ==
    /\ outcome' \in [Txns -> Outcomes]
    /\ durable' \in [Txns -> SUBSET Keys]
    /\ discarded' \in [Txns -> SUBSET Keys]
    /\ \A t \in Txns : Commit(t) \/ Abort(t) \/ Apply(t) \/ Discard(t) \/ Unchanged(t)

Spec == Init /\ [][Next]_vars

=============================================================================
