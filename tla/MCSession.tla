----------------------------- MODULE MCSession -----------------------------
(***************************************************************************)
(* A small instance of Session for TLC.                                    *)
(***************************************************************************)
EXTENDS Session

CONSTANTS a, b

\* b follows a, and a follows itself: two queues for one notification.
BothFollowA == {<<b, a>>, <<a, a>>}

\* a follows b, who has no name yet.
FollowsUnnamed == {<<a, b>>}

TwoStarts == {BothFollowA, FollowsUnnamed}
=============================================================================
