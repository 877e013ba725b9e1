--------------------------- MODULE CanonicalRegister ---------------------------
(***************************************************************************)
(* What the ref store promises the callers of promote(), without lock      *)
(* files, heartbeats or reclaims: one atomic register.  A promotion takes  *)
(* effect in one step between its call and its answer, and the answer says *)
(* what that step found.  The promise lasts as long as the promoters       *)
(* exclude each other; once that is lost a write is still one of a         *)
(* verified state, but it may overwrite one its promoter never saw.        *)
(***************************************************************************)
CONSTANTS Promoters, Unset, TargetOf, Verified

VARIABLES
  ref,      \* the state the ref names
  expects,  \* promoter -> the state it asked to replace
  answer,   \* promoter -> what it was told, or how far its call is
  whole     \* the promoters have excluded each other so far

Init ==
  /\ ref = Unset
  /\ expects = [p \in Promoters |-> Unset]
  /\ answer = [p \in Promoters |-> "idle"]
  /\ whole = TRUE

Tell(p, a) == answer' = [answer EXCEPT ![p] = a]

\* A promoter reads the ref and asks for a promotion from what it read.
Ask(p) ==
  /\ answer[p] = "idle"
  /\ expects' = [expects EXCEPT ![p] = ref]
  /\ Tell(p, "pending")
  /\ UNCHANGED <<ref, whole>>

\* The state it expects is replaced by its own, which is verified and new.
Swap(p) ==
  /\ answer[p] = "pending"
  /\ p \in Verified
  /\ expects[p] # Unset => expects[p] # TargetOf[p]
  /\ whole => ref = expects[p]
  /\ ref' = TargetOf[p]
  /\ Tell(p, "promote")
  /\ UNCHANGED <<expects, whole>>

\* The ref names its state already.
Keep(p) ==
  /\ answer[p] = "pending"
  /\ ref = expects[p]
  /\ ref = TargetOf[p]
  /\ Tell(p, "noop")
  /\ UNCHANGED <<ref, expects, whole>>

\* The ref has moved since it was read, or its own state was not verified.
Refuse(p) ==
  /\ answer[p] = "pending"
  /\ \/ ref # expects[p] /\ Tell(p, "conflict")
     \/ p \notin Verified /\ Tell(p, "unverified")
  /\ UNCHANGED <<ref, expects, whole>>

\* promote() throws: the lock was not to be had, or was gone at the write.
Throw(p) ==
  /\ answer[p] = "pending"
  /\ Tell(p, "locked_out") \/ Tell(p, "lost")
  /\ UNCHANGED <<ref, expects, whole>>

\* The promoter dies, before the step that takes effect or after it.
Die(p) ==
  /\ answer[p] \notin {"idle", "died"}
  /\ Tell(p, "died")
  /\ UNCHANGED <<ref, expects, whole>>

LoseExclusion ==
  /\ whole' = FALSE
  /\ UNCHANGED <<ref, expects, answer>>

\* Every step of a promoter tells it something.
Next ==
  \/ \E p \in Promoters :
       /\ answer'[p] # answer[p]
       /\ Ask(p) \/ Swap(p) \/ Keep(p) \/ Refuse(p) \/ Throw(p) \/ Die(p)
  \/ LoseExclusion

Spec == Init /\ [][Next]_<<ref, expects, answer, whole>>
=============================================================================
