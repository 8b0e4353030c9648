-------------------------------- MODULE Feed --------------------------------
(***************************************************************************)
(* What the server promises to people who follow each other: a follower is *)
(* shown the news of a client in the order in which they came, nothing     *)
(* that was never sent in, and nothing that was sent in while the client   *)
(* did not let the follower see it.  News may be passed over.  No session, *)
(* message, packet or socket appears.                                      *)
(***************************************************************************)
EXTENDS Integers

CONSTANTS
    Clients,
    Kinds           \* kinds of news

VARIABLES
    latest,         \* latest[t][k]: how many news of kind k client t sent in
    grants,         \* <<f, t>>: f may see what t sends in
    allowed,        \* allowed[f][t][k]: the last news of t that f may see
    view            \* view[f][t][k]: the last news of t that f was shown

feedVars == <<latest, grants, allowed, view>>

NoNews == [k \in Kinds |-> 0]

FeedInit ==
    /\ allowed = [f \in Clients |-> [t \in Clients |->
            IF <<f, t>> \in grants THEN latest[t] ELSE NoNews]]
    /\ view = [f \in Clients |-> [t \in Clients |-> NoNews]]

Publish(t, k) ==
    /\ latest' = [latest EXCEPT ![t][k] = @ + 1]
    /\ allowed' = [f \in Clients |->
            IF <<f, t>> \in grants THEN [allowed[f] EXCEPT ![t] = latest'[t]] ELSE allowed[f]]
    /\ UNCHANGED grants

\* A new follower may also see the last news from before.
Grant(f, t) ==
    /\ grants' = grants \cup {<<f, t>>}
    /\ allowed' = [allowed EXCEPT ![f][t] = latest[t]]
    /\ UNCHANGED latest

Revoke(f, t) ==
    /\ grants' = grants \ {<<f, t>>}
    /\ UNCHANGED <<latest, allowed>>

\* With any of these, or alone, news may be shown.
Show ==
    \A f, t \in Clients, k \in Kinds :
        view[f][t][k] <= view'[f][t][k] /\ view'[f][t][k] <= allowed'[f][t][k]

FeedNext ==
    /\ Show
    /\ \/ UNCHANGED <<latest, grants, allowed>>
       \/ \E f \in Clients :
            \/ \E t \in Clients : Grant(f, t) \/ Revoke(f, t)
            \/ \E k \in Kinds : Publish(f, k)

FeedSpec == FeedInit /\ [][FeedNext]_feedVars
=============================================================================
