------------------------------ MODULE AtomicPair ------------------------------
(***************************************************************************)
(* What RunDock's persistence promises about state.json and projects.json: *)
(* the two behave as one cell holding one saved version.  A save that      *)
(* returns Ok is what every later load finds.  A save that fails, or that  *)
(* a crash cuts short, leaves it in doubt whether its version or an        *)
(* earlier one is found, until a later save returns Ok; a mixture of two   *)
(* versions is never found.                                                *)
(***************************************************************************)
CONSTANT Versions   \* what can be saved; 0 is the pair of empty documents

VARIABLES
  stored,   \* the version a load would find
  doubt     \* the versions it may turn out to be

Init == stored = 0 /\ doubt = {0}

Begin(v) == doubt' = doubt \cup {v} /\ UNCHANGED stored

(* A write, a recovery or a crash settles what is found.                   *)
Turn == stored' \in doubt /\ UNCHANGED doubt

Succeed(v) == v \in doubt /\ stored' = v /\ doubt' = {v}

Next == Turn \/ \E v \in Versions : Begin(v) \/ Succeed(v)

Spec == Init /\ [][Next]_<<stored, doubt>>
=============================================================================
