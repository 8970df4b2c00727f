----------------------------- MODULE ParamStore -----------------------------
(***************************************************************************)
(* What modules/core/sysparam.c promises of the values that survive a      *)
(* power cut, one set at a time: a set of one key never touches another    *)
(* key; it may lose its own key's old value while it runs; and the value   *)
(* of a set that was interrupted may resurface after a later set.          *)
(***************************************************************************)
CONSTANTS Keys, Vals, Missing

VARIABLES
  store,   \* store[k]: the value a reader of k gets
  shadow,  \* shadow[k]: written values of k hidden behind store[k]
  busy,    \* the set in progress, or NoSet
  status,  \* the result of the last set
  intact   \* FALSE once the promise is off: a value is under another key's id,
           \* or the region in use has lost its header

vars == <<store, shadow, busy, status, intact>>

NoSet == [key |-> Missing, val |-> Missing]

Init ==
  /\ store = [k \in Keys |-> Missing]
  /\ shadow = [k \in Keys |-> {}]
  /\ busy = NoSet
  /\ status = "ok"
  /\ intact = TRUE

Begin ==
  /\ busy = NoSet
  /\ busy' \in [key : Keys, val : Vals \cup {Missing}]
  /\ UNCHANGED <<store, shadow, status, intact>>

Reject ==
  /\ busy = NoSet
  /\ status' = "full"
  /\ UNCHANGED <<store, shadow, busy, intact>>

-----------------------------------------------------------------------------
(* What a step of a set does to the store                                  *)

Nothing == UNCHANGED <<store, shadow>>

\* The new value is written: it shows if the key has none, else it is hidden.
Stage ==
  /\ busy.val \in Vals
  /\ IF store[busy.key] = Missing
     THEN /\ store' = [store EXCEPT ![busy.key] = busy.val]
          /\ UNCHANGED shadow
     ELSE /\ shadow' = [shadow EXCEPT ![busy.key] = @ \cup {busy.val}]
          /\ UNCHANGED store

\* The old value is deleted: one hidden behind it shows, if there is any.
Promote ==
  \E s \in SUBSET shadow[busy.key], v \in shadow[busy.key] \cup {Missing} :
    /\ v = Missing => shadow[busy.key] = {}
    /\ shadow[busy.key] \ {v} \subseteq s
    /\ store' = [store EXCEPT ![busy.key] = v]
    /\ shadow' = [shadow EXCEPT ![busy.key] = s]

\* Compaction drops every hidden value, and the value of the key being set.
Compact ==
  /\ store' = [store EXCEPT ![busy.key] = Missing]
  /\ shadow' = [k \in Keys |-> {}]

-----------------------------------------------------------------------------
(* How the set goes on from there                                          *)

Continue == UNCHANGED <<busy, status>>

\* Success means that the value shows, unless an interrupted set left another
\* value behind the one just replaced.
Succeed ==
  /\ \/ store'[busy.key] = busy.val
     \/ shadow[busy.key] \ {busy.val} # {}
  /\ busy' = NoSet
  /\ status' = "ok"

\* An error or a power cut ends the set where it is.
Abort ==
  /\ busy' = NoSet
  /\ status' \in {status, "io", "full"}

Step ==
  /\ busy # NoSet
  /\ Nothing \/ Stage \/ Promote \/ Compact
  /\ Continue \/ Succeed \/ Abort
  /\ UNCHANGED intact

\* Nothing is promised after that.
Next == Begin \/ Reject \/ Step \/ ~intact'

Spec == Init /\ [][Next]_vars

=============================================================================
