----------------------------- MODULE RemoteCall -----------------------------
(***************************************************************************)
(* What a caller of a gateway tool may conclude from the reply, whatever   *)
(* the gateway, the proxy and the backends do in between:                  *)
(*   ok        the operation took place, once;                             *)
(*   refused   it did not take place, and never will;                      *)
(*   settled   it took place once or never will: it is over;               *)
(*   failed    nothing: it may have taken place, or not yet, or never.     *)
(***************************************************************************)
CONSTANT Calls

VARIABLES
    effect,     \* what became of each call's operation
    told        \* what its caller was told

Init ==
    /\ effect = [c \in Calls |-> "none"]
    /\ told = [c \in Calls |-> "nothing"]

\* The operation takes place, possibly long after the caller was told it failed.
Happens(c) ==
    /\ effect[c] = "none" /\ told[c] \in {"nothing", "failed"}
    /\ effect' = [effect EXCEPT ![c] = "done"]
    /\ UNCHANGED told

Rejected(c) ==
    /\ effect[c] = "none" /\ told[c] \in {"nothing", "failed"}
    /\ effect' = [effect EXCEPT ![c] = "rejected"]
    /\ UNCHANGED told

Tell(c, what) ==
    /\ told[c] = "nothing"
    /\ told' = [told EXCEPT ![c] = what]
    /\ UNCHANGED effect

TellOk(c) == effect[c] = "done" /\ Tell(c, "ok")

TellRefused(c) == effect[c] = "rejected" /\ Tell(c, "refused")

TellSettled(c) == effect[c] \in {"done", "rejected"} /\ Tell(c, "settled")

TellFailed(c) == Tell(c, "failed")

\* Refused before anybody heard of it.
Refuses(c) ==
    /\ effect[c] = "none" /\ told[c] = "nothing"
    /\ effect' = [effect EXCEPT ![c] = "rejected"]
    /\ told' = [told EXCEPT ![c] = "refused"]

Next ==
    \E c \in Calls :
        \/ Happens(c) \/ Rejected(c) \/ TellOk(c) \/ TellRefused(c) \/ TellSettled(c)
        \/ TellFailed(c) \/ Refuses(c)

Spec == Init /\ [][Next]_<<effect, told>>

=============================================================================
