------------------------------ MODULE CanonicalGc ------------------------------
(***************************************************************************)
(* The canonical store and the passes that delete from it: pin, revision   *)
(* prune, GC cycle (quarantine), expiry, repair and maintenance, each under *)
(* the lease of GcLease; and what runs beside them without that lease: the *)
(* advancement of the ref (advance-revision.ts, with the promotion as the  *)
(* compare-and-swap CanonicalRefs is about), the base pin of a goal        *)
(* workspace, the deletion of an overlay and unpin.                        *)
(*                                                                         *)
(* A manifest is a model value with the set of blobs it names; each root   *)
(* store is read in a step of its own, in the order of the code.  Files    *)
(* are written by rename, so none is torn, and unreadable files are left   *)
(* out: a strict read of one only ends the pass.                           *)
(***************************************************************************)
EXTENDS GcLease

CONSTANTS Manifests, NoManifest, Blobs,
          Content,      \* manifest -> the blobs it names
          Goals, Writers,
          KindsOfPass,  \* bound: the kinds the passes may be of, as functions
          Orphans,      \* the pins without a manifest a late pass once left, for repair
          Subject,      \* the manifest a pin pass pins
          Advances,     \* writer -> the manifest it advances the ref to
          Grace,        \* graceMs of the quarantine
          FirstRef, FirstManifests   \* the store at the start

Kinds == {"pin", "prune", "gc", "expire", "repair", "maintain"}

StoreAssumption ==
  /\ NoManifest \notin Manifests
  /\ Content \in [Manifests -> SUBSET Blobs]
  /\ KindsOfPass \subseteq [Passes -> Kinds]
  /\ Orphans \subseteq Manifests /\ Subject \in Manifests
  /\ Advances \in [Writers -> Manifests]
  /\ Grace \in Nat
  /\ FirstRef \in Manifests \cup {NoManifest} /\ FirstManifests \subseteq Manifests

VARIABLES
  kind,       \* pass -> which pass it is
  granted,    \* pass -> the `now` it was granted at, which its writes are dated with
  plan,       \* pass -> what it planned to delete, quarantine or unpin
  todo,       \* pass -> what of it is left to do
  roots,      \* pass -> the manifests it collected as roots
  manifests, ref, pinned,
  base,       \* goal workspace -> the base manifest of its overlay
  attach,     \* goal workspace -> the ref attachGoalBasePin() has read
  blobs,      \* stored blobs
  ledger,     \* blob -> its quarantine deadline, 0 for no row
  adv,        \* writer -> where its advance is
  steady      \* ghost: pass -> the roots held, with their manifest, all the time since it
              \* was granted

storeVars == <<manifests, ref, pinned, base, blobs, ledger>>
planVars == <<kind, granted, plan, todo, roots>>
besides == <<adv, attach>>
vars == <<leaseVars, storeVars, planVars, besides, steady>>

Some(m) == {m} \ {NoManifest}
RefRoots == Some(ref)
OverlayRoots == UNION {Some(base[g]) : g \in Goals}
\* A root, with where it is held: one that moves from a store to another can be
\* missed by a pass that reads them one after the other.
Rooted(r, b, pins) == {<<"ref", m>> : m \in Some(r)}
  \cup {<<"base", m>> : m \in UNION {Some(b[g]) : g \in Goals}} \cup {<<"pin", m>> : m \in pins}
HeldRoots == Rooted(ref, base, pinned)

NoAdv == [at |-> "idle", expected |-> NoManifest]

Things == Manifests \cup Blobs \cup {"database"}
Phases == Waits \cup {"check", "pinning", "refs", "overlays", "pins", "plan", "deeds", "confirmed",
                      "armed", "renewing", "sweep"}

TypeOK ==
  /\ clock \in 0 .. MaxClock
  /\ lease \in [owner : Passes \cup {NoPass}, gen : Nat, exp : Nat, released : BOOLEAN]
  /\ at \in [Passes -> Phases]
  /\ gen \in [Passes -> Nat] /\ since \in [Passes -> 0 .. MaxClock]
  /\ had \in [Passes -> [owner : Passes \cup {NoPass}, gen : Nat, exp : Nat, released : BOOLEAN]]
  /\ kind \in [Passes -> Kinds]
  /\ granted \in [Passes -> 0 .. MaxClock]
  /\ plan \in [Passes -> SUBSET Things] /\ todo \in [Passes -> SUBSET Things]
  /\ roots \in [Passes -> SUBSET Manifests]
  /\ manifests \subseteq Manifests /\ pinned \subseteq Manifests /\ blobs \subseteq Blobs
  /\ ref \in Manifests \cup {NoManifest}
  /\ base \in [Goals -> Manifests \cup {NoManifest}]
  /\ attach \in [Goals -> Manifests \cup {NoManifest}]
  /\ ledger \in [Blobs -> Nat]
  /\ adv \in [Writers -> [at : {"idle", "put", "promote", "ended"}, expected : Manifests \cup {NoManifest}]]

Init ==
  /\ LeaseInit
  /\ kind \in KindsOfPass
  /\ granted = [p \in Passes |-> 0]
  /\ plan = [p \in Passes |-> {}]
  /\ todo = [p \in Passes |-> {}]
  /\ roots = [p \in Passes |-> {}]
  /\ manifests = FirstManifests
  /\ ref = FirstRef
  /\ pinned = IF \E p \in Passes : kind[p] = "repair" THEN Orphans ELSE {}
  /\ base = [g \in Goals |-> NoManifest]
  /\ attach = base
  /\ blobs = Blobs
  /\ ledger = [b \in Blobs |-> 0]
  /\ adv = [w \in Writers |-> NoAdv]
  /\ steady = [p \in Passes |-> {}]

\* Only the phase of the pass changes.
OnlyGoes(p, to) == Goes(p, to) /\ UNCHANGED <<clock, lease, gen, had, since, clobbered, late>>
\* Roots that come and go, or whose manifest does, are not steady.
StillSteady ==
  steady' = [p \in Passes |-> {r \in steady[p] \cap Rooted(ref', base', pinned') : r[2] \in manifests'}]

------------------------------------------------------------------------------
(* Taking the lease.                                                       *)

FirstPhase(p) == IF kind[p] = "pin" THEN "check" ELSE "refs"

Acquire(p) == AcquireRead(p) /\ UNCHANGED <<storeVars, planVars, besides, steady>>

Granted(p) ==
  /\ AcquireWrite(p, FirstPhase(p))
  /\ granted' = [granted EXCEPT ![p] = since[p]]
  /\ steady' = [steady EXCEPT ![p] = {r \in HeldRoots : r[2] \in manifests}]
  /\ UNCHANGED <<storeVars, kind, plan, todo, roots, besides>>

------------------------------------------------------------------------------
(* Collecting the roots: refs first, then pins and overlays, in this order *)
(* by the passes over blobs and in the other by the rest.  The passes over *)
(* blobs refuse when a root has no manifest; the others skip it.           *)

OverBlobs(p) == kind[p] \in {"gc", "expire", "maintain"}

\* compactionGate() skips or refuses, or admission rejects: maintenance ends.
GateCloses(p) ==
  /\ kind[p] = "maintain"
  /\ at[p] = "refs"
  /\ OnlyGoes(p, "closing")
  /\ UNCHANGED <<storeVars, planVars, besides, steady>>

\* A root store is read, and the manifests its roots name.
Collects(p, here, there, found) ==
  /\ at[p] = here
  /\ IF OverBlobs(p) /\ ~(found \subseteq manifests)
       THEN OnlyGoes(p, "closing") /\ UNCHANGED roots
       ELSE OnlyGoes(p, there) /\ roots' = [roots EXCEPT ![p] = @ \cup (found \cap manifests)]
  /\ UNCHANGED <<storeVars, kind, granted, plan, todo, besides, steady>>

\* Mutant of CollectRefs: the manifests the refs name are no roots.
CollectNoRefs(p) == Collects(p, "refs", IF OverBlobs(p) THEN "pins" ELSE "overlays", {})

CollectRefs(p) == Collects(p, "refs", IF OverBlobs(p) THEN "pins" ELSE "overlays", RefRoots)

CollectOverlays(p) ==
  Collects(p, "overlays", IF OverBlobs(p) THEN "plan" ELSE "pins", OverlayRoots)

\* Mutant of CollectPins: pins are no roots.
CollectNoPins(p) == Collects(p, "pins", IF OverBlobs(p) THEN "overlays" ELSE "plan", {})

CollectPins(p) == Collects(p, "pins", IF OverBlobs(p) THEN "overlays" ELSE "plan", pinned)

Reachable(p) == UNION {Content[m] : m \in roots[p]}

\* A quarantine row whose grace period was over when the pass was granted.
Expired(p, b) == ledger[b] # 0 /\ granted[p] >= ledger[b]

\* What a pass means to delete, to quarantine or to unpin.
Planned(p) ==
  IF kind[p] = "prune" THEN manifests \ roots[p]
  ELSE IF kind[p] \in {"gc", "maintain"} THEN blobs \ Reachable(p)
  ELSE IF kind[p] = "expire" THEN {b \in Blobs : Expired(p, b)} \ Reachable(p)
  ELSE pinned \ manifests

\* planArtifactGc() refuses without a single root.
MakePlan(p) ==
  /\ at[p] = "plan"
  /\ IF OverBlobs(p) /\ roots[p] = {}
       THEN OnlyGoes(p, "closing") /\ UNCHANGED <<plan, todo>>
       ELSE /\ OnlyGoes(p, "deeds")
            /\ plan' = [plan EXCEPT ![p] = Planned(p)]
            /\ todo' = [todo EXCEPT ![p] = Planned(p)]
  /\ UNCHANGED <<storeVars, kind, granted, roots, besides, steady>>

------------------------------------------------------------------------------
(* The writes, each after an assert() of the lease, in the order of ids.   *)

First(p) == CHOOSE x \in todo[p] : TRUE
Done(p, things) == todo' = [todo EXCEPT ![p] = @ \ things]

\* repairCanonicalStore() looks again whether the manifest is still missing.
Confirm(p) ==
  /\ kind[p] = "repair"
  /\ at[p] = "deeds"
  /\ todo[p] # {}
  /\ IF First(p) \in manifests
       THEN Done(p, {First(p)}) /\ OnlyGoes(p, "deeds")
       ELSE OnlyGoes(p, "confirmed") /\ UNCHANGED todo
  /\ UNCHANGED <<storeVars, kind, granted, plan, roots, besides, steady>>

AssertLease(p) ==
  /\ \/ kind[p] # "repair" /\ todo[p] # {} /\ Ensure(p, "deeds")
     \/ Ensure(p, "confirmed")
  /\ UNCHANGED <<storeVars, planVars, besides, steady>>

Renew(p) == RenewWrite(p) /\ UNCHANGED <<storeVars, planVars, besides, steady>>

\* A write to the store by a pass that has asserted its lease.
Armed(p) ==
  /\ at[p] = "armed"
  /\ Acts(p)
  /\ Goes(p, "deeds")
  /\ UNCHANGED <<clock, lease, gen, had, since, clobbered>>

DeleteManifest(p) ==
  /\ kind[p] = "prune" /\ Armed(p)
  /\ todo[p] # {}
  /\ manifests' = manifests \ {First(p)}
  /\ Done(p, {First(p)})
  /\ UNCHANGED <<ref, pinned, base, blobs, ledger, kind, granted, plan, roots, besides>>
  /\ StillSteady

\* quarantine(): a row per unreachable blob; one that has a row keeps it.
Quarantine(p) ==
  /\ kind[p] \in {"gc", "maintain"} /\ Armed(p)
  /\ "database" \notin todo[p]
  /\ ledger' = [b \in Blobs |-> IF b \in todo[p] /\ ledger[b] = 0
                                  THEN granted[p] + Grace ELSE ledger[b]]
  /\ Done(p, todo[p])
  /\ UNCHANGED <<manifests, ref, pinned, base, blobs, kind, granted, plan, roots, besides, steady>>

DeleteBlob(p) ==
  /\ kind[p] = "expire" /\ Armed(p)
  /\ blobs' = blobs \ {First(p)}
  /\ Done(p, {First(p)})
  /\ UNCHANGED <<manifests, ref, pinned, base, ledger, kind, granted, plan, roots, besides, steady>>

RemovePin(p) ==
  /\ kind[p] = "repair" /\ Armed(p)
  /\ pinned' = pinned \ {First(p)}
  /\ Done(p, {First(p)})
  /\ UNCHANGED <<manifests, ref, base, blobs, ledger, kind, granted, plan, roots, besides>>
  /\ StillSteady

\* compactStore(), under a heartbeat of its own that counts from the grant.
StartCompaction(p) ==
  /\ kind[p] = "maintain" /\ at[p] = "deeds" /\ todo[p] = {}
  /\ plan[p] # {"database"}
  /\ plan' = [plan EXCEPT ![p] = {"database"}]
  /\ todo' = [todo EXCEPT ![p] = {"database"}]
  /\ since' = [since EXCEPT ![p] = granted[p]]
  /\ UNCHANGED <<clock, lease, at, gen, had, clobbered, late, storeVars, kind, granted, roots,
                 besides, steady>>

Compact(p) ==
  /\ kind[p] = "maintain" /\ Armed(p)
  /\ "database" \in todo[p]
  /\ Done(p, todo[p])
  /\ UNCHANGED <<storeVars, kind, granted, plan, roots, besides, steady>>

\* Nothing is left to do: expiry drops the rows of what it deleted.
Finish(p) ==
  /\ at[p] = "deeds" /\ todo[p] = {}
  /\ kind[p] = "maintain" => plan[p] = {"database"}
  /\ ledger' = IF kind[p] = "expire"
                 THEN [b \in Blobs |-> IF b \in plan[p] THEN 0 ELSE ledger[b]] ELSE ledger
  /\ OnlyGoes(p, "closing")
  /\ UNCHANGED <<manifests, ref, pinned, base, blobs, planVars, besides, steady>>

\* What the pass kept to itself is gone.
Forgets(p) ==
  /\ granted' = [granted EXCEPT ![p] = 0]
  /\ plan' = [plan EXCEPT ![p] = {}]
  /\ todo' = [todo EXCEPT ![p] = {}]
  /\ roots' = [roots EXCEPT ![p] = {}]
  /\ steady' = [steady EXCEPT ![p] = {}]
  /\ UNCHANGED <<storeVars, kind, besides>>

Release(p) == (ReleaseRead(p) \/ ReleaseWrite(p)) /\ Forgets(p)
Dies(p) == Die(p) /\ Forgets(p)
TimePasses == Tick /\ UNCHANGED <<storeVars, planVars, besides, steady>>

------------------------------------------------------------------------------
(* pinCanonicalRevision(): under the lease, with no heartbeat.             *)

CheckSubject(p) ==
  /\ at[p] = "check"
  /\ OnlyGoes(p, IF Subject \in manifests THEN "pinning" ELSE "closing")
  /\ UNCHANGED <<storeVars, planVars, besides, steady>>

WritePin(p) ==
  /\ at[p] = "pinning"
  /\ pinned' = pinned \cup {Subject}
  /\ Acts(p)
  /\ Goes(p, "closing")
  /\ UNCHANGED <<clock, lease, gen, had, since, clobbered, manifests, ref, base, blobs, ledger,
                 planVars, besides, steady>>

------------------------------------------------------------------------------
(* What takes no lease.                                                    *)

Unpin(m) ==
  /\ m \in pinned
  /\ pinned' = pinned \ {m}
  /\ UNCHANGED <<leaseVars, manifests, ref, base, blobs, ledger, planVars, besides>>
  /\ StillSteady

AdvGoes(w, to) == adv' = [adv EXCEPT ![w] = [@ EXCEPT !.at = to]]

\* advanceCanonicalRevision() reads the ref and its manifest; an unreadable base
\* is rejected, a ref that is there already is a noop.
AdvanceRead(w) ==
  /\ adv[w].at = "idle"
  /\ adv' = [adv EXCEPT ![w] =
       [at |-> IF ref # Advances[w] /\ Some(ref) \subseteq manifests THEN "put" ELSE "ended",
        expected |-> ref]]
  /\ UNCHANGED <<leaseVars, storeVars, planVars, attach, steady>>

\* The manifest is persisted before the ref moves ...
AdvancePut(w) ==
  /\ adv[w].at = "put"
  /\ manifests' = manifests \cup {Advances[w]}
  /\ AdvGoes(w, "promote")
  /\ UNCHANGED <<leaseVars, ref, pinned, base, blobs, ledger, planVars, attach, steady>>

\* ... and the ref moves when it is still the one that was expected.
AdvancePromote(w) ==
  /\ adv[w].at = "promote"
  /\ ref' = IF ref = adv[w].expected THEN Advances[w] ELSE ref
  /\ AdvGoes(w, "ended")
  /\ UNCHANGED <<leaseVars, manifests, pinned, base, blobs, ledger, planVars, attach>>
  /\ StillSteady

\* attachGoalBasePin(): the ref is read and compared with the expected base ...
AttachRead(g) ==
  /\ base[g] = NoManifest /\ attach[g] = NoManifest
  /\ ref # NoManifest
  /\ attach' = [attach EXCEPT ![g] = ref]
  /\ UNCHANGED <<leaseVars, storeVars, planVars, adv, steady>>

\* ... and the overlay created on what was read.
AttachCreate(g) ==
  /\ attach[g] # NoManifest /\ base[g] = NoManifest
  /\ base' = [base EXCEPT ![g] = attach[g]]
  /\ attach' = [attach EXCEPT ![g] = NoManifest]
  /\ UNCHANGED <<leaseVars, manifests, ref, pinned, blobs, ledger, planVars, adv, steady>>

OverlayDelete(g) ==
  /\ base[g] # NoManifest
  /\ base' = [base EXCEPT ![g] = NoManifest]
  /\ UNCHANGED <<leaseVars, manifests, ref, pinned, blobs, ledger, planVars, besides>>
  /\ StillSteady

------------------------------------------------------------------------------
PassStep(p) ==
  \/ Acquire(p) \/ Granted(p) \/ GateCloses(p)
  \/ CollectRefs(p) \/ CollectOverlays(p) \/ CollectPins(p) \/ MakePlan(p)
  \/ Confirm(p) \/ AssertLease(p) \/ Renew(p)
  \/ DeleteManifest(p) \/ Quarantine(p) \/ DeleteBlob(p) \/ RemovePin(p)
  \/ StartCompaction(p) \/ Compact(p) \/ Finish(p)
  \/ CheckSubject(p) \/ WritePin(p) \/ Release(p) \/ Dies(p)

Next ==
  \/ \E p \in Passes : PassStep(p)
  \/ \E w \in Writers : AdvanceRead(w) \/ AdvancePut(w) \/ AdvancePromote(w)
  \/ \E g \in Goals : AttachRead(g) \/ AttachCreate(g) \/ OverlayDelete(g)
  \/ \E m \in Manifests : Unpin(m)
  \/ TimePasses

Spec == Init /\ [][Next]_vars

------------------------------------------------------------------------------
(* What the passes promise.                                                *)

(* A pinned revision keeps its manifest: pinning takes the lease of the    *)
(* destructive passes, so no prune that planned before the pin deletes     *)
(* after it, unless a pass acted after its lease or the lease record was   *)
(* overwritten.                                                            *)
PinnedKept == late \/ clobbered \/ pinned \subseteq manifests \cup Orphans

Steady(p) == {r[2] : r \in steady[p]}

(* No pass deletes the manifest of a root, or a blob such a manifest       *)
(* names, when the root was there with its manifest before the pass was    *)
(* granted and ever since, however the ref, the overlays and the pins move *)
(* meanwhile.                                                              *)
SteadyRootsKept ==
  [][\A p \in Passes : at[p] = "armed" =>
       /\ kind[p] = "prune" /\ at'[p] = "deeds" => Steady(p) \cap (manifests \ manifests') = {}
       /\ kind[p] = "expire" /\ at'[p] = "deeds" =>
            \A m \in Steady(p) : Content[m] \cap (blobs \ blobs') = {}]_vars

(* A reader that follows the ref finds its manifest: the manifest is       *)
(* persisted before the ref moves.                                         *)
RefFindsManifest == ref \in manifests \cup {NoManifest}
=============================================================================
