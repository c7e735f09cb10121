--------------------------- MODULE TokenLifecycle ---------------------------
(***************************************************************************)
(* What the resolver and the governance server together promise about an   *)
(* access token: it is issued once, it serves only while it is live, what  *)
(* ended (by expiry or revocation) stays ended, and a token that served    *)
(* does not serve again before Window other uses have followed.  Filters,  *)
(* queries, policy and time are left out.                                  *)
(***************************************************************************)
EXTENDS Integers, Sequences, FiniteSets

CONSTANTS TokenIds, Window

VARIABLES
    live,      \* issued, neither expired nor revoked
    closed,    \* expired or revoked
    served     \* the tokens served, in order

lifecycleVars == <<live, closed, served>>

LifecycleTypeOK ==
    /\ live \subseteq TokenIds
    /\ closed \subseteq TokenIds
    /\ served \in Seq(TokenIds)

LifecycleInit == live = {} /\ closed = {} /\ served = <<>>

\* A token issued to a session that is already revoked is closed at once.
Issue(id) ==
    /\ id \in TokenIds \ (live \cup closed)
    /\ \/ live' = live \cup {id} /\ closed' = closed
       \/ closed' = closed \cup {id} /\ live' = live
    /\ UNCHANGED served

Close(S) ==
    /\ live' = live \ S
    /\ closed' = closed \cup S
    /\ UNCHANGED served

Serve(id) ==
    /\ id \in live
    /\ \A i \in DOMAIN served : served[i] = id => Len(served) - i >= Window
    /\ served' = Append(served, id)
    /\ UNCHANGED <<live, closed>>

LifecycleNext ==
    \/ \E id \in TokenIds : Issue(id) \/ Serve(id)
    \/ \E S \in SUBSET live : Close(S)

LifecycleSpec == LifecycleInit /\ [][LifecycleNext]_lifecycleVars

\* Replay window: between two uses of one token lie at least Window uses of
\* other tokens.
ReplayWindow ==
    \A i, j \in DOMAIN served :
        i < j /\ served[i] = served[j] => j - i > Window

=============================================================================
