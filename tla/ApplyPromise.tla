---------------------------- MODULE ApplyPromise ----------------------------
(***************************************************************************)
(* What applying a configuration promises: the keyboard's storage only     *)
(* ever moves towards the configuration, and an apply that reports success *)
(* finds all of it there.  Applies may fail at any time.                   *)
(***************************************************************************)
CONSTANTS
    Proc,   \* applies of one configuration
    Cell,   \* the storage the configuration governs
    Value,
    Want    \* the configured value of every cell

VARIABLES
    store,     \* the storage
    outcome    \* of each apply: "open", or how it ended

vars == <<store, outcome>>

Init ==
    /\ store \in [Cell -> Value]
    /\ outcome = [p \in Proc |-> "open"]

Write(c) ==
    /\ store' = [store EXCEPT ![c] = Want[c]]
    /\ UNCHANGED outcome

Succeed(p) ==
    /\ outcome[p] = "open"
    /\ store = Want
    /\ outcome' = [outcome EXCEPT ![p] = "ok"]
    /\ UNCHANGED store

GiveUp(p) ==
    /\ outcome[p] = "open"
    /\ \E how \in {"failed", "skipped"} : outcome' = [outcome EXCEPT ![p] = how]
    /\ UNCHANGED store

Next ==
    \/ \E c \in Cell : Write(c)
    \/ \E p \in Proc : Succeed(p) \/ GiveUp(p)

Spec == Init /\ [][Next]_vars
=============================================================================
