--------------------------------- MODULE Outbox ---------------------------------
(***************************************************************************)
(* What a queue of outgoing messages promises to whoever fills it: a       *)
(* message is tried until it is settled, it is settled once, as sent only  *)
(* if the other side took it, as failed only after the attempts allowed or *)
(* a refusal that retrying cannot cure.                                    *)
(***************************************************************************)
EXTENDS Naturals

CONSTANTS Rows, MaxAttempts

VARIABLES
    state,     \* "none", "pending", or how the row was settled
    tries,     \* how often the row was handed to its provider
    accepted,  \* how often the provider took it
    refused    \* the rows a provider refused for lack of authorisation

outboxVars == <<state, tries, accepted, refused>>
Settled == {"sent", "failed", "skipped"}

Queue(r) ==
    /\ state[r] = "none"
    /\ state' = [state EXCEPT ![r] = "pending"]
    /\ \E t \in {0, 1}, a \in {0, 1} :  \* a first attempt may have been made already
        /\ a <= t
        /\ tries' = [tries EXCEPT ![r] = t]
        /\ accepted' = [accepted EXCEPT ![r] = a]
    /\ UNCHANGED refused

Try(r) ==
    /\ state[r] = "pending"
    /\ tries' = [tries EXCEPT ![r] = @ + 1]
    /\ \E a \in {0, 1} : accepted' = [accepted EXCEPT ![r] = @ + a]
    /\ refused' \in {refused, refused \cup {r}}
    /\ UNCHANGED state

Settle(r, outcome) ==
    /\ state[r] = "pending"
    /\ tries[r] > 0
    /\ outcome = "sent" => accepted[r] > 0
    /\ outcome = "failed" => tries[r] >= MaxAttempts \/ r \in refused
    /\ state' = [state EXCEPT ![r] = outcome]
    /\ UNCHANGED <<tries, accepted, refused>>

Init ==
    /\ state = [r \in Rows |-> "none"]
    /\ tries = [r \in Rows |-> 0]
    /\ accepted = [r \in Rows |-> 0]
    /\ refused = {}

Next == \E r \in Rows : Queue(r) \/ Try(r) \/ \E o \in Settled : Settle(r, o)

Spec == Init /\ [][Next]_outboxVars

===============================================================================
