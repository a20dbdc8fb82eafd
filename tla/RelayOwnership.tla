--------------------------- MODULE RelayOwnership ---------------------------
(***************************************************************************)
(* What the relay's owner lease promises, without the sessions, the checks *)
(* and the shutdown that bring it about: who holds the lock, which relays  *)
(* admit calls to the provider, and which of them lost the lock without    *)
(* giving it back.                                                         *)
(***************************************************************************)
CONSTANTS Relays, Nobody

VARIABLES
    owner,    \* the relay that holds the lock, or Nobody
    admits,   \* the relays that admit new calls
    lost      \* the relays the lock was taken from

ownership == <<owner, admits, lost>>

Init == owner = Nobody /\ admits = {} /\ lost = {}

\* The lock is only ever taken while nobody holds it.
Take(r) ==
    /\ owner = Nobody
    /\ owner' = r
    /\ lost' = lost \ {r}
    /\ UNCHANGED admits

\* A relay gives the lock back, after it has stopped admitting calls.
Resign(r) ==
    /\ owner = r /\ r \notin admits
    /\ owner' = Nobody
    /\ UNCHANGED <<admits, lost>>

\* The owner's session ends under it.
Lose(r) ==
    /\ owner = r
    /\ owner' = Nobody
    /\ lost' = lost \cup {r}
    /\ UNCHANGED admits

\* Only the owner, or one that was the owner and may not know better, opens.
Open(r) ==
    /\ r \in lost \cup {owner}
    /\ admits' = admits \cup {r}
    /\ UNCHANGED <<owner, lost>>

Shut(r) ==
    /\ admits' = admits \ {r}
    /\ lost' \in {lost, lost \ {r}}
    /\ UNCHANGED owner

Next == \E r \in Relays : Take(r) \/ Resign(r) \/ Lose(r) \/ Open(r) \/ Shut(r)

Spec == Init /\ [][Next]_ownership
=============================================================================
