----------------------------- MODULE MCRealtime -----------------------------
(* Instances of Realtime for TLC. *)
EXTENDS Realtime, TLC

CONSTANTS ann, bob, tab1, tab2, phone, cam1, cam2, desk

\* Ann has two tabs (or one that reconnects), Bob one.
ChatOwners == (tab1 :> ann) @@ (tab2 :> ann) @@ (phone :> bob)
CallOwners == (cam1 :> ann) @@ (cam2 :> ann) @@ (desk :> bob)

\* The gateways share no variable, so it is enough to run each while the
\* sockets of the other never connect.
OneGateway ==
    \/ \A s \in ChatSockets : chatConn[s] = "new"
    \/ \A s \in CallSockets : callConn[s] = "new"

\* Nothing a client holds of one user, or of one kind, bears on another: one
\* kind at a time, of the user with a single socket.
OneMedium ==
    \E k \in {"signal", "screen", "muted"} : \A s \in CallSockets :
        media[s] \in {NoMedia, [NoMedia EXCEPT ![k] = {bob}]}

Symmetry == Permutations({tab1, tab2}) \cup Permutations({cam1, cam2})
            \cup Permutations(RoomIds)
=============================================================================
