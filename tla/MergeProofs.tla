------------------------------ MODULE MergeProofs ------------------------------
(***************************************************************************)
(* Exact-head verification, for any number of runners in any processes, of *)
(* which any may die or be suspended, and any heads, bases and gates: one  *)
(* runner at a time verifies a head, and what is merged was verified.      *)
(*                                                                         *)
(* A runner that verifies owns the running row of its head (OwnersOwn), as *)
(* long as it beats, and the attempts that run have ids of their own       *)
(* (RunningApart): an id is new when it is inserted (Private), and one     *)
(* queued row is claimed once (QueuedFree).  A receipt is appended only    *)
(* when the workspace is back on the head (MisreadSeen), so every receipt  *)
(* is sound, and a provider merge is sent only with one (SentAllowed).     *)
(*                                                                         *)
(* The reconciliation poller, for any number of pollers, pull requests and *)
(* pages: its durable cursor passes no merge by.  A pull request that a    *)
(* paging pass has not read as it is was updated since, or still lies on a *)
(* later page (Paged): an update brings it to the front of the feed, and   *)
(* nobody moves up unless one is reopened.  When the pages end, what was   *)
(* not read is newer than everything read or older than the watermark      *)
(* (WasRead), so the next watermark passes only what was read and recorded *)
(* (Handled), and the merges of its own second are named (SeenDone).       *)
(***************************************************************************)
EXTENDS MergeVerification, MergeReconciliation, FiniteSetTheorems, WellFoundedInduction, TLAPS

WithId == {"beginning", "queueing", "claiming"} \cup Verifying

\* A runner that means to insert, to claim or to work on an attempt has its id.
HasId == \A r \in Runners : vpc[r] \in WithId => attemptId[r] \in AttemptIds

\* An id that is about to be inserted is nobody else's.
Private ==
  \A r \in Runners : vpc[r] \in {"beginning", "queueing"} =>
    /\ \A s \in Runners : s # r => attemptId[s] # attemptId[r]
    /\ \A h \in Heads : attempt[h] # NoRow => attempt[h].id # attemptId[r]

\* The rows of two heads have different ids.
RowsApart ==
  \A g, h \in Heads : g # h /\ attempt[g] # NoRow /\ attempt[h] # NoRow => attempt[g].id # attempt[h].id

\* The attempt of a queued row runs nowhere.
QueuedFree ==
  \A h \in Heads : attempt[h] # NoRow /\ attempt[h].status = "queued" =>
    \A r \in Runners : vpc[r] \in Verifying => attemptId[r] # attempt[h].id

\* The attempts that run have ids of their own.
RunningApart ==
  \A r, s \in Runners : r # s /\ vpc[r] \in Verifying /\ vpc[s] \in Verifying => attemptId[r] # attemptId[s]

\* A runner whose row did not grow stale owns it, and the row is fresh.
OwnersOwn ==
  \A r \in Runners : vpc[r] \in Verifying /\ r \notin late => Owns(r) /\ Row(r).fresh

ClaimInd == HasId /\ Private /\ RowsApart /\ QueuedFree /\ RunningApart /\ OwnersOwn

\* A gate that read another head's content is known by the inspection that
\* follows it, unless the workspace is back.
MisreadSeen ==
  \A r \in misread : vpc[r] \in {"ran", "finishing"} /\ checkout # subject[r].head

\* Every receipt is sound, and a merge was sent, or done, with one that allows it.
ReceiptsSound == \A receipt \in receipts : receipt.sound
SentAllowed ==
  \A h \in sent \cup {merged} : h # NoRow => \E receipt \in receipts : Allows(receipt, h, NoRow)

-----------------------------------------------------------------------------
(* An id that is unused is found (randomUUID()).                           *)
LEMMA IdsAreThere ==
  ASSUME VerifyAssumption, VerifyTypeOK
  PROVE  Unused # {}
<1> DEFINE A == {attemptId[r] : r \in Runners}
           H == {h \in Heads : attempt[h] # NoRow}
           B == {attempt[h].id : h \in H}
<1>1. IsFiniteSet(A) /\ Cardinality(A) <= Cardinality(Runners)
  <2>1. attemptId \in Surjection(Runners, A)
    BY DEF Surjection, VerifyTypeOK
  <2> QED
    BY <2>1, FS_Surjection DEF VerifyAssumption
<1>2. IsFiniteSet(H) /\ Cardinality(H) <= Cardinality(Heads)
  BY FS_Subset DEF VerifyAssumption
<1>3. IsFiniteSet(B) /\ Cardinality(B) <= Cardinality(H)
  <2>1. [h \in H |-> attempt[h].id] \in Surjection(H, B)
    BY DEF Surjection
  <2> QED
    BY <2>1, <1>2, FS_Surjection
<1>4. IsFiniteSet(A \cup B) /\ Cardinality(A \cup B) <= Cardinality(A) + Cardinality(B)
  <2>1. /\ Cardinality(A \cup B) = Cardinality(A) + Cardinality(B) - Cardinality(A \cap B)
        /\ IsFiniteSet(A \cup B)
    BY <1>1, <1>3, FS_Union
  <2>2. IsFiniteSet(A \cap B)
    BY <1>1, FS_Intersection
  <2>3. Cardinality(A) \in Nat /\ Cardinality(B) \in Nat /\ Cardinality(A \cap B) \in Nat
    BY <1>1, <1>3, <2>2, FS_CardinalityType
  <2> QED
    BY <2>1, <2>3
<1>5. /\ Cardinality(A) \in Nat /\ Cardinality(B) \in Nat /\ Cardinality(H) \in Nat
      /\ Cardinality(Runners) \in Nat /\ Cardinality(Heads) \in Nat /\ Cardinality(A \cup B) \in Nat
  BY <1>1, <1>2, <1>3, <1>4, FS_CardinalityType DEF VerifyAssumption
<1>6. ~(AttemptIds \subseteq A \cup B)
  <2>1. SUFFICES ASSUME AttemptIds \subseteq A \cup B
                 PROVE  FALSE
    OBVIOUS
  <2>2. IsFiniteSet(AttemptIds) /\ Cardinality(AttemptIds) <= Cardinality(A \cup B)
    BY <2>1, <1>4, FS_Subset
  <2>3. Cardinality(AttemptIds) > Cardinality(Runners) + Cardinality(Heads) /\ Cardinality(AttemptIds) \in Nat
    BY <2>2, FS_CardinalityType DEF VerifyAssumption
  <2> QED
    BY <2>2, <2>3, <1>1, <1>2, <1>3, <1>4, <1>5
<1> QED
  BY <1>6 DEF Unused

LEMMA FreshIsUnused ==
  ASSUME VerifyAssumption, VerifyTypeOK
  PROVE  /\ FreshId \in AttemptIds
         /\ \A r \in Runners : attemptId[r] # FreshId
         /\ \A h \in Heads : attempt[h] # NoRow => attempt[h].id # FreshId
<1>1. FreshId \in Unused
  BY IdsAreThere, Zenon DEF FreshId
<1> QED
  BY <1>1 DEF Unused

-----------------------------------------------------------------------------
(* The types.                                                              *)

RunnerStep(r) ==
  \/ ObserveHead(r) \/ Reuse(r) \/ Reap(r) \/ Look(r) \/ Enqueue(r)
  \/ BeginAttempt(r) \/ ClaimQueued(r)
  \/ Inspect(r) \/ (\E g \in LocalGates : RunGate(r, g)) \/ Recheck(r)
  \/ Append(r) \/ FinishAttempt(r) \/ Dies(r)

HeadStep(h) == Dispatch(h) \/ HubMerges(h) \/ CheckOut(h) \/ HeartbeatExpires(h)

Places == {"idle", "reusing", "reaping", "looking", "beginning", "queueing", "claiming", "dead"} \cup Verifying

\* The types of what runners write, and of what they do not.
RunnerTypes ==
  /\ vpc \in [Runners -> Places]
  /\ subject \in [Runners -> Subjects]
  /\ attemptId \in [Runners -> AttemptIds \cup {NoRow}]
  /\ passed \in [Runners -> SUBSET Gates]
  /\ ran \in [Runners -> SUBSET LocalGates]
  /\ late \cup misread \subseteq Runners
AdmittedTypes ==
  /\ admitted = {r \in Runners : vpc[r] \in {"beginning", "claiming"} \cup Verifying}
  /\ \A r, s \in admitted : ProcessOf[r] = ProcessOf[s] => r = s
HubTypes ==
  /\ receipts \subseteq Receipts
  /\ prHead \in Heads /\ prBase \in Bases /\ checkout \in Heads
  /\ checkRuns \subseteq CheckGates \X Heads
  /\ sent \subseteq Heads /\ merged \in Heads \cup {NoRow}
  /\ moves \in 0..MaxMoves
AttemptTypes == attempt \in [Heads -> Rows \cup {NoRow}]

LEMMA TypesSplit == VerifyTypeOK <=> AttemptTypes /\ RunnerTypes /\ AdmittedTypes /\ HubTypes
BY DEF VerifyTypeOK, AttemptTypes, RunnerTypes, AdmittedTypes, HubTypes, Places

LEMMA ReturnTypes ==
  ASSUME VerifyAssumption, RunnerTypes, AdmittedTypes, NEW r \in Runners, Returns(r), UNCHANGED late
  PROVE  RunnerTypes' /\ AdmittedTypes'
<1>1. RunnerTypes'
  BY DEF RunnerTypes, Returns, Goes, Places, Subjects, VerifyAssumption
<1>2. AdmittedTypes'
  BY DEF RunnerTypes, AdmittedTypes, Returns, Goes, Verifying
<1> QED
  BY <1>1, <1>2

LEMMA AdmissionKept ==
  ASSUME RunnerTypes, AdmittedTypes, NEW r \in Runners, NEW to, Goes(r, to), UNCHANGED admitted,
         vpc[r] \in {"beginning", "claiming"} \cup Verifying <=> to \in {"beginning", "claiming"} \cup Verifying
  PROVE  AdmittedTypes'
BY DEF RunnerTypes, AdmittedTypes, Goes

LEMMA RunTypes ==
  ASSUME VerifyAssumption, AttemptTypes, RunnerTypes, AdmittedTypes, NEW r \in Runners,
         vpc[r] \in {"beginning", "claiming"}, Runs(r, attemptId[r]), attemptId[r] \in AttemptIds
  PROVE  AttemptTypes' /\ RunnerTypes' /\ AdmittedTypes'
<1>1. [id |-> attemptId[r], status |-> "running", fresh |-> TRUE] \in Rows
  BY DEF Rows
<1>2. AttemptTypes'
  BY <1>1 DEF AttemptTypes, Runs
<1>3. RunnerTypes'
  BY DEF RunnerTypes, Runs, Goes, Places, Verifying
<1>4. AdmittedTypes'
  BY AdmissionKept DEF Runs, Verifying
<1> QED
  BY <1>2, <1>3, <1>4

LEMMA BeforeClaimTypes ==
  ASSUME VerifyAssumption, VerifyTypeOK, HasId, NEW r \in Runners,
         ObserveHead(r) \/ Reuse(r) \/ Reap(r) \/ Look(r) \/ Enqueue(r) \/ BeginAttempt(r) \/ ClaimQueued(r)
  PROVE  VerifyTypeOK'
<1>0. AttemptTypes /\ RunnerTypes /\ AdmittedTypes /\ HubTypes
  BY TypesSplit
<1>h. HubTypes'
  BY <1>0 DEF HubTypes, Elsewhere, ObserveHead, Reuse, Reap, Look, Enqueue, BeginAttempt, ClaimQueued
<1> SUFFICES AttemptTypes' /\ RunnerTypes' /\ AdmittedTypes'
  BY <1>h DEF VerifyTypeOK, AttemptTypes, RunnerTypes, AdmittedTypes, HubTypes, Places
<1>1. CASE ObserveHead(r)
  <2>1. [head |-> prHead, base |-> prBase] \in Subjects
    BY <1>0 DEF HubTypes, Subjects
  <2>2. RunnerTypes'
    BY <2>1, <1>0, <1>1 DEF ObserveHead, RunnerTypes, Goes, Places, attemptVars
  <2>3. AttemptTypes'
    BY <1>0, <1>1 DEF ObserveHead, AttemptTypes, attemptVars
  <2>4. AdmittedTypes'
    BY <1>0, <1>1, AdmissionKept DEF ObserveHead, Verifying
  <2> QED
    BY <2>2, <2>3, <2>4
<1>2. CASE Reuse(r)
  <2>1. CASE Returns(r)
    BY <2>1, <1>0, <1>2, ReturnTypes DEF Reuse, AttemptTypes, attemptVars
  <2>2. CASE Goes(r, "reaping") /\ UNCHANGED <<subject, attemptId, admitted, passed, ran, misread>>
    <3>1. RunnerTypes' /\ AttemptTypes'
      BY <2>2, <1>0, <1>2 DEF Reuse, RunnerTypes, AttemptTypes, Goes, Places, attemptVars
    <3>2. AdmittedTypes'
      BY <2>2, <1>0, <1>2, AdmissionKept DEF Reuse, Verifying
    <3> QED
      BY <3>1, <3>2
  <2> QED
    BY <2>1, <2>2, <1>2 DEF Reuse
<1>3. CASE Reap(r)
  <2>1. RunnerTypes' /\ AttemptTypes'
    BY <1>0, <1>3 DEF Reap, RunnerTypes, AttemptTypes, Goes, Places
  <2>2. AdmittedTypes'
    BY <1>0, <1>3, AdmissionKept DEF Reap, Verifying
  <2> QED
    BY <2>1, <2>2
<1>4. CASE Look(r)
  <2>0. UNCHANGED attemptVars /\ vpc[r] = "looking"
    BY <1>4 DEF Look
  <2>1. CASE Returns(r)
    BY <2>0, <2>1, <1>0, ReturnTypes DEF AttemptTypes, attemptVars
  <2>2. CASE ~Returns(r)
    <3> DEFINE row == Row(r)
               queued == row # NoRow /\ row.status = "queued"
               id == IF queued THEN row.id ELSE FreshId
    <3>1. id \in AttemptIds
      <4>1. row \in Rows \cup {NoRow}
        BY <1>0 DEF Row, AttemptTypes, RunnerTypes, Subjects
      <4> QED
        BY <4>1, FreshIsUnused DEF Rows
    <3>2. /\ \/ Room(r) /\ admitted' = admitted \cup {r} /\ Goes(r, IF queued THEN "claiming" ELSE "beginning")
             \/ Goes(r, "queueing") /\ UNCHANGED admitted
          /\ attemptId' = [attemptId EXCEPT ![r] = id]
          /\ UNCHANGED <<subject, passed, ran, misread>>
      BY <1>4, <2>2 DEF Look
    <3>3. RunnerTypes'
      BY <2>0, <3>1, <3>2, <1>0 DEF RunnerTypes, Goes, Places, attemptVars
    <3>4. AttemptTypes'
      BY <2>0, <1>0 DEF AttemptTypes, attemptVars
    <3>5. AdmittedTypes'
      <4>1. CASE Goes(r, "queueing") /\ UNCHANGED admitted
        BY <4>1, <2>0, <1>0, AdmissionKept DEF Verifying
      <4>2. ASSUME Room(r), admitted' = admitted \cup {r}, NEW to \in {"claiming", "beginning"}, Goes(r, to)
            PROVE  AdmittedTypes'
        BY <4>2, <2>0, <1>0 DEF AdmittedTypes, RunnerTypes, Goes, Room, Verifying
      <4> QED
        BY <4>1, <4>2, <3>2
    <3> QED
      BY <3>3, <3>4, <3>5
  <2> QED
    BY <2>1, <2>2
<1>5. CASE Enqueue(r)
  <2>1. [id |-> attemptId[r], status |-> "queued", fresh |-> TRUE] \in Rows
    BY <1>5 DEF Enqueue, HasId, WithId, Rows
  <2>2. AttemptTypes'
    BY <2>1, <1>0, <1>5 DEF Enqueue, AttemptTypes
  <2> QED
    BY <2>2, <1>0, <1>5, ReturnTypes DEF Enqueue
<1>6. CASE BeginAttempt(r)
  <2>1. CASE Runs(r, attemptId[r])
    BY <2>1, <1>0, <1>6, RunTypes DEF BeginAttempt, HasId, WithId
  <2>2. CASE Returns(r) /\ UNCHANGED attemptVars
    BY <2>2, <1>0, ReturnTypes DEF AttemptTypes, attemptVars
  <2>3. CASE /\ Row(r) # NoRow /\ Row(r).status = "queued"
             /\ attemptId' = [attemptId EXCEPT ![r] = Row(r).id]
             /\ Goes(r, "claiming")
             /\ UNCHANGED <<subject, admitted, passed, ran, attemptVars, misread>>
    <3>1. Row(r).id \in AttemptIds
      BY <2>3, <1>0 DEF Row, AttemptTypes, RunnerTypes, Subjects, Rows
    <3>2. RunnerTypes' /\ AttemptTypes'
      BY <2>3, <3>1, <1>0 DEF RunnerTypes, AttemptTypes, Goes, Places, attemptVars
    <3>3. AdmittedTypes'
      BY <2>3, <1>0, <1>6, AdmissionKept DEF BeginAttempt, Verifying
    <3> QED
      BY <3>2, <3>3
  <2> QED
    BY <2>1, <2>2, <2>3, <1>6 DEF BeginAttempt
<1>7. CASE ClaimQueued(r)
  <2>1. CASE Runs(r, attemptId[r])
    BY <2>1, <1>0, <1>7, RunTypes DEF ClaimQueued, HasId, WithId
  <2>2. CASE Returns(r) /\ UNCHANGED attemptVars
    BY <2>2, <1>0, ReturnTypes DEF AttemptTypes, attemptVars
  <2> QED
    BY <2>1, <2>2, <1>7 DEF ClaimQueued
<1> QED
  BY <1>1, <1>2, <1>3, <1>4, <1>5, <1>6, <1>7

LEMMA AppendTypes ==
  ASSUME HubTypes, RunnerTypes, NEW r \in Runners, Append(r)
  PROVE  receipts' \subseteq Receipts
<1>1. CASE UNCHANGED receipts
  BY <1>1 DEF HubTypes
<1>2. ASSUME NEW approved \in BOOLEAN,
             receipts' = receipts \cup
               {[head |-> subject[r].head, base |-> subject[r].base, passed |-> passed[r],
                 approved |-> approved, sound |-> r \notin misread]}
      PROVE  receipts' \subseteq Receipts
  <2>1. (r \notin misread) \in BOOLEAN
    OBVIOUS
  <2>2. subject[r].head \in Heads /\ subject[r].base \in Bases /\ passed[r] \subseteq Gates
    BY DEF RunnerTypes, Subjects
  <2>3. [head |-> subject[r].head, base |-> subject[r].base, passed |-> passed[r],
         approved |-> approved, sound |-> r \notin misread] \in Receipts
    BY <2>1, <2>2 DEF Receipts
  <2> QED
    BY <1>2, <2>3 DEF HubTypes
<1> QED
  BY <1>1, <1>2 DEF Append

LEMMA VerifyStepTypes ==
  ASSUME VerifyAssumption, VerifyTypeOK, NEW r \in Runners,
         Inspect(r) \/ (\E g \in LocalGates : RunGate(r, g)) \/ Recheck(r) \/ Append(r) \/ FinishAttempt(r) \/ Dies(r)
  PROVE  VerifyTypeOK'
<1>0. AttemptTypes /\ RunnerTypes /\ AdmittedTypes /\ HubTypes
  BY TypesSplit
<1>h. HubTypes'
  <2>1. CASE Append(r)
    BY <2>1, <1>0, AppendTypes DEF HubTypes, Append, hubVars
  <2>2. CASE ~Append(r)
    BY <2>2, <1>0 DEF HubTypes, Elsewhere, Inspect, RunGate, Recheck, FinishAttempt, Dies
  <2> QED
    BY <2>1, <2>2
<1> SUFFICES AttemptTypes' /\ RunnerTypes' /\ AdmittedTypes'
  BY <1>h DEF VerifyTypeOK, AttemptTypes, RunnerTypes, AdmittedTypes, HubTypes, Places
<1>1. CASE Inspect(r)
  <2>0. passed' \in [Runners -> SUBSET Gates]
    <3>1. CASE UNCHANGED passed
      BY <3>1, <1>0 DEF RunnerTypes
    <3>2. ASSUME NEW G, G \subseteq CheckGates, passed' = [passed EXCEPT ![r] = G]
          PROVE  passed' \in [Runners -> SUBSET Gates]
      BY <3>2, <1>0 DEF RunnerTypes, Gates
    <3> QED
      BY <3>1, <3>2, <1>1 DEF Inspect
  <2>1. RunnerTypes' /\ AttemptTypes'
    BY <2>0, <1>0, <1>1 DEF Inspect, RunnerTypes, AttemptTypes, Goes, Places, Verifying, attemptVars
  <2>2. vpc[r] \in Verifying /\ UNCHANGED admitted /\ \E to \in Verifying : Goes(r, to)
    BY <1>1 DEF Inspect, Verifying
  <2> QED
    BY <2>1, <2>2, <1>0, AdmissionKept
<1>2. ASSUME NEW g \in LocalGates, RunGate(r, g)
      PROVE  AttemptTypes' /\ RunnerTypes' /\ AdmittedTypes'
  <2>1. RunnerTypes'
    BY <1>0, <1>2 DEF RunGate, RunnerTypes, Goes, Places, Verifying, Gates
  <2>2. AttemptTypes'
    <3>1. CASE Owns(r)
      <4>1. attempt[subject[r].head] \in Rows
        BY <3>1, <1>0 DEF Owns, Row, AttemptTypes, RunnerTypes, Subjects
      <4>2. [attempt[subject[r].head] EXCEPT !.fresh = TRUE] \in Rows
        BY <4>1 DEF Rows
      <4>3. attempt' = [attempt EXCEPT ![subject[r].head] = [attempt[subject[r].head] EXCEPT !.fresh = TRUE]]
        BY <3>1, <1>2 DEF RunGate
      <4> QED
        BY <4>2, <4>3, <1>0 DEF AttemptTypes
    <3>2. CASE ~Owns(r)
      BY <3>2, <1>0, <1>2 DEF RunGate, AttemptTypes
    <3> QED
      BY <3>1, <3>2
  <2>3. AdmittedTypes'
    BY <1>0, <1>2, AdmissionKept DEF RunGate, Verifying
  <2> QED
    BY <2>1, <2>2, <2>3
<1>3. CASE Recheck(r)
  <2>1. RunnerTypes' /\ AttemptTypes'
    BY <1>0, <1>3 DEF Recheck, RunnerTypes, AttemptTypes, Goes, Places, Verifying, attemptVars
  <2>2. vpc[r] \in Verifying /\ UNCHANGED admitted /\ \E to \in Verifying : Goes(r, to)
    BY <1>3 DEF Recheck, Verifying
  <2> QED
    BY <2>1, <2>2, <1>0, AdmissionKept
<1>4. CASE Append(r)
  <2>1. RunnerTypes' /\ AttemptTypes'
    BY <1>0, <1>4 DEF Append, RunnerTypes, AttemptTypes, Goes, Places, Verifying, attemptVars
  <2>2. AdmittedTypes'
    BY <1>0, <1>4, AdmissionKept DEF Append, Verifying
  <2> QED
    BY <2>1, <2>2
<1>5. CASE FinishAttempt(r)
  <2>1. AttemptTypes'
    BY <1>0, <1>5 DEF FinishAttempt, AttemptTypes
  <2> QED
    BY <2>1, <1>0, <1>5, ReturnTypes DEF FinishAttempt
<1>6. CASE Dies(r)
  <2>1. RunnerTypes' /\ AttemptTypes'
    BY <1>0, <1>6 DEF Dies, RunnerTypes, AttemptTypes, Goes, Places, attemptVars
  <2>2. AdmittedTypes'
    BY <1>0, <1>6 DEF Dies, RunnerTypes, AdmittedTypes, Goes, Verifying
  <2> QED
    BY <2>1, <2>2
<1> QED
  BY <1>1, <1>2, <1>3, <1>4, <1>5, <1>6

LEMMA OutsideTypes ==
  ASSUME VerifyAssumption, VerifyTypeOK, (\E h \in Heads : HeadStep(h)) \/ HubMoves
  PROVE  VerifyTypeOK'
<1>0. AttemptTypes /\ RunnerTypes /\ AdmittedTypes /\ HubTypes
  BY TypesSplit
<1> SUFFICES AttemptTypes' /\ RunnerTypes' /\ AdmittedTypes' /\ HubTypes'
  BY DEF VerifyTypeOK, AttemptTypes, RunnerTypes, AdmittedTypes, HubTypes, Places
<1> USE DEF attemptVars, runnerVars, hubVars, Moves
<1>1. ASSUME NEW h \in Heads, Dispatch(h) \/ HubMerges(h)
      PROVE  AttemptTypes' /\ RunnerTypes' /\ AdmittedTypes' /\ HubTypes'
  BY <1>0, <1>1 DEF Dispatch, HubMerges, AttemptTypes, RunnerTypes, AdmittedTypes, HubTypes
<1>2. ASSUME NEW h \in Heads, CheckOut(h)
      PROVE  AttemptTypes' /\ RunnerTypes' /\ AdmittedTypes' /\ HubTypes'
  BY <1>0, <1>2 DEF CheckOut, AttemptTypes, RunnerTypes, AdmittedTypes, HubTypes, VerifyAssumption
<1>3. ASSUME NEW h \in Heads, HeartbeatExpires(h)
      PROVE  AttemptTypes' /\ RunnerTypes' /\ AdmittedTypes' /\ HubTypes'
  <2>1. attempt[h] \in Rows
    BY <1>0, <1>3 DEF HeartbeatExpires, AttemptTypes
  <2>2. [attempt[h] EXCEPT !.fresh = FALSE] \in Rows
    BY <2>1 DEF Rows
  <2>3. AttemptTypes'
    BY <2>2, <1>0, <1>3 DEF HeartbeatExpires, AttemptTypes
  <2>4. RunnerTypes' /\ AdmittedTypes' /\ HubTypes'
    BY <1>0, <1>3 DEF HeartbeatExpires, RunnerTypes, AdmittedTypes, HubTypes, Elsewhere
  <2> QED
    BY <2>3, <2>4
<1>4. CASE HubMoves
  BY <1>0, <1>4 DEF HubMoves, AttemptTypes, RunnerTypes, AdmittedTypes, HubTypes, VerifyAssumption
<1> QED
  BY <1>1, <1>2, <1>3, <1>4 DEF HeadStep

-----------------------------------------------------------------------------
(* The claims.                                                             *)

\* What the claims depend on, for every runner but r, and the rows.
OthersSame(r) ==
  \A s \in Runners \ {r} : vpc'[s] = vpc[s] /\ attemptId'[s] = attemptId[s] /\ subject'[s] = subject[s]
RowsSame == attempt' = attempt /\ late' = late

LEMMA RunnerAlone ==
  ASSUME RunnerTypes, NEW r \in Runners, RunnerStep(r)
  PROVE  OthersSame(r)
<1> USE DEF RunnerTypes, OthersSame, Goes, Returns
<1>1. CASE ObserveHead(r) \/ Reuse(r) \/ Reap(r)
  BY <1>1 DEF ObserveHead, Reuse, Reap
<1>2. CASE Look(r)
  BY <1>2 DEF Look
<1>3. CASE Enqueue(r) \/ BeginAttempt(r) \/ ClaimQueued(r)
  BY <1>3 DEF Enqueue, BeginAttempt, ClaimQueued, Runs
<1>4. CASE Inspect(r) \/ (\E g \in LocalGates : RunGate(r, g)) \/ Recheck(r)
  BY <1>4 DEF Inspect, RunGate, Recheck
<1>5. CASE Append(r) \/ FinishAttempt(r) \/ Dies(r)
  BY <1>5 DEF Append, FinishAttempt, Dies
<1> QED
  BY <1>1, <1>2, <1>3, <1>4, <1>5 DEF RunnerStep

(* A runner without an id disturbs no claim.                               *)
LEMMA LeavesClaims ==
  ASSUME VerifyAssumption, ClaimInd, NEW r \in Runners, OthersSame(r), RowsSame,
         vpc'[r] \notin WithId, attemptId'[r] \in {attemptId[r], NoRow}
  PROVE  ClaimInd'
<1> USE DEF OthersSame, RowsSame
<1>1. HasId'
  BY DEF ClaimInd, HasId
<1>2. Private'
  BY DEF ClaimInd, HasId, Private, WithId, VerifyAssumption
<1>3. RowsApart' /\ QueuedFree' /\ RunningApart'
  BY DEF ClaimInd, RowsApart, QueuedFree, RunningApart, WithId
<1>4. OwnersOwn'
  BY DEF ClaimInd, OwnersOwn, Owns, Row, WithId
<1> QED
  BY <1>1, <1>2, <1>3, <1>4 DEF ClaimInd

(* Nor does one that goes on with its attempt.                             *)
LEMMA GoesOn ==
  ASSUME ClaimInd, NEW r \in Runners, OthersSame(r), RowsSame,
         vpc[r] \in Verifying, vpc'[r] \in Verifying, attemptId'[r] = attemptId[r], subject'[r] = subject[r]
  PROVE  ClaimInd'
<1> USE DEF OthersSame, RowsSame
<1>0. \A s \in Runners : attemptId'[s] = attemptId[s] /\ subject'[s] = subject[s]
                         /\ (vpc'[s] \in Verifying <=> vpc[s] \in Verifying)
  OBVIOUS
<1>1. HasId'
  BY DEF ClaimInd, HasId, WithId
<1>2. Private'
  BY <1>0 DEF ClaimInd, Private, Verifying
<1>3. RowsApart' /\ QueuedFree' /\ RunningApart'
  BY <1>0 DEF ClaimInd, RowsApart, QueuedFree, RunningApart
<1>4. OwnersOwn'
  BY <1>0 DEF ClaimInd, OwnersOwn, Owns, Row
<1> QED
  BY <1>1, <1>2, <1>3, <1>4 DEF ClaimInd

LEMMA LookClaims ==
  ASSUME VerifyAssumption, VerifyTypeOK, ClaimInd, NEW r \in Runners, Look(r)
  PROVE  ClaimInd'
<1>0. RunnerTypes /\ AttemptTypes /\ RunnerStep(r)
  BY TypesSplit DEF RunnerStep
<1>1. RowsSame /\ OthersSame(r) /\ vpc[r] = "looking"
  BY <1>0, RunnerAlone DEF Look, attemptVars, RowsSame
<1>2. CASE Returns(r)
  <2>1. vpc'[r] = "idle" /\ attemptId'[r] = NoRow
    BY <1>0, <1>2 DEF Returns, Goes, RunnerTypes
  <2> QED
    BY <2>1, <1>1, LeavesClaims DEF WithId, Verifying
<1>3. CASE ~Returns(r)
  <2>1. /\ subject' = subject
        /\ \/ /\ Row(r) # NoRow /\ Row(r).status = "queued"
              /\ attemptId'[r] = Row(r).id /\ vpc'[r] = "claiming"
           \/ attemptId'[r] = FreshId /\ vpc'[r] \in {"beginning", "queueing"}
    BY <1>0, <1>3 DEF Look, Goes, RunnerTypes
  <2>2. Row(r) # NoRow => Row(r).id \in AttemptIds
    BY <1>0 DEF Row, AttemptTypes, RunnerTypes, Subjects, Rows
  <2>3. /\ FreshId \in AttemptIds
        /\ \A s \in Runners : attemptId[s] # FreshId
        /\ \A h \in Heads : attempt[h] # NoRow => attempt[h].id # FreshId
    BY FreshIsUnused
  <2>4. HasId'
    BY <2>1, <2>2, <2>3, <1>1 DEF ClaimInd, HasId, OthersSame
  <2>5. Private'
    <3>1. CASE attemptId'[r] = FreshId
      BY <3>1, <2>1, <2>3, <1>1 DEF ClaimInd, Private, OthersSame, RowsSame
    <3>2. CASE Row(r) # NoRow /\ attemptId'[r] = Row(r).id /\ vpc'[r] = "claiming"
      <4>1. subject[r].head \in Heads
        BY <1>0 DEF RunnerTypes, Subjects
      <4>2. \A s \in Runners \ {r} : vpc[s] \in {"beginning", "queueing"} => attemptId[s] # Row(r).id
        BY <4>1, <3>2 DEF ClaimInd, Private, Row
      <4> QED
        BY <4>2, <3>2, <1>1 DEF ClaimInd, Private, OthersSame, RowsSame
    <3> QED
      BY <3>1, <3>2, <2>1
  <2>6. vpc'[r] \notin Verifying
    BY <2>1 DEF Verifying
  <2>7. RowsApart' /\ QueuedFree' /\ RunningApart'
    BY <2>6, <1>1 DEF ClaimInd, RowsApart, QueuedFree, RunningApart, OthersSame, RowsSame
  <2>8. OwnersOwn'
    BY <2>6, <1>1 DEF ClaimInd, OwnersOwn, Owns, Row, OthersSame, RowsSame
  <2> QED
    BY <2>4, <2>5, <2>7, <2>8 DEF ClaimInd
<1> QED
  BY <1>2, <1>3

LEMMA EnqueueClaims ==
  ASSUME VerifyAssumption, VerifyTypeOK, ClaimInd, NEW r \in Runners, Enqueue(r)
  PROVE  ClaimInd'
<1>0. RunnerTypes /\ AttemptTypes /\ RunnerStep(r)
  BY TypesSplit DEF RunnerStep
<1>1. OthersSame(r) /\ late' = late /\ vpc[r] = "queueing" /\ vpc'[r] = "idle" /\ attemptId'[r] = NoRow
  BY <1>0, RunnerAlone DEF Enqueue, Returns, Goes, RunnerTypes
<1>2. CASE attempt' = attempt
  BY <1>1, <1>2, LeavesClaims DEF RowsSame, WithId, Verifying
<1>3. CASE Row(r) = NoRow /\ attempt' = [attempt EXCEPT ![subject[r].head] =
                        [id |-> attemptId[r], status |-> "queued", fresh |-> TRUE]]
  <2> DEFINE x == subject[r].head
  <2>1. x \in Heads /\ attempt[x] = NoRow
    BY <1>0, <1>3 DEF RunnerTypes, Subjects, Row
  <2>2. /\ \A h \in Heads \ {x} : attempt'[h] = attempt[h]
        /\ attempt'[x].id = attemptId[r] /\ attempt'[x].status = "queued"
    BY <1>0, <1>3, <2>1 DEF AttemptTypes
  <2>3. /\ \A s \in Runners \ {r} : attemptId[s] # attemptId[r]
        /\ \A h \in Heads : attempt[h] # NoRow => attempt[h].id # attemptId[r]
    BY <1>1 DEF ClaimInd, Private
  <2>4. HasId'
    BY <1>1 DEF ClaimInd, HasId, OthersSame, WithId, Verifying
  <2>5. Private'
    BY <1>1, <2>1, <2>2, <2>3 DEF ClaimInd, HasId, Private, OthersSame, WithId, VerifyAssumption
  <2>6. RowsApart'
    BY <2>1, <2>2, <2>3 DEF ClaimInd, RowsApart
  <2>7. QueuedFree' /\ RunningApart'
    BY <1>1, <2>1, <2>2, <2>3 DEF ClaimInd, QueuedFree, RunningApart, OthersSame, Verifying
  <2>8. OwnersOwn'
    <3> SUFFICES ASSUME NEW s \in Runners, vpc'[s] \in Verifying, s \notin late'
                 PROVE  Owns(s)' /\ Row(s)'.fresh
      BY DEF OwnersOwn
    <3>1. s # r /\ vpc[s] \in Verifying /\ s \notin late
      BY <1>1 DEF OthersSame, Verifying
    <3>2. Owns(s) /\ Row(s).fresh
      BY <3>1 DEF ClaimInd, OwnersOwn
    <3>3. subject[s].head \in Heads /\ subject[s].head # x
      BY <3>2, <2>1, <1>0 DEF Owns, Row, RunnerTypes, Subjects
    <3>4. Row(s)' = Row(s) /\ attemptId'[s] = attemptId[s]
      BY <3>1, <3>3, <2>2, <1>1 DEF Row, OthersSame
    <3> QED
      BY <3>2, <3>4 DEF Owns
  <2> QED
    BY <2>4, <2>5, <2>6, <2>7, <2>8 DEF ClaimInd
<1> QED
  BY <1>2, <1>3 DEF Enqueue

(* Rows go, but the row of no runner that beats, and r leaves.             *)
LEMMA FewerRows ==
  ASSUME VerifyAssumption, ClaimInd, NEW r \in Runners, OthersSame(r), late' = late,
         vpc'[r] \notin WithId, attemptId'[r] \in {attemptId[r], NoRow},
         \A h \in Heads : attempt'[h] \in {attempt[h], NoRow},
         \A s \in Runners \ {r} : vpc[s] \in Verifying /\ s \notin late
            => attempt'[subject[s].head] = attempt[subject[s].head]
  PROVE  ClaimInd'
<1> USE DEF OthersSame
<1>1. HasId'
  BY DEF ClaimInd, HasId
<1>2. Private'
  BY DEF ClaimInd, HasId, Private, WithId, VerifyAssumption
<1>3. RowsApart' /\ QueuedFree' /\ RunningApart'
  BY DEF ClaimInd, RowsApart, QueuedFree, RunningApart, WithId
<1>4. OwnersOwn'
  <2> SUFFICES ASSUME NEW s \in Runners, vpc'[s] \in Verifying, s \notin late'
               PROVE  Owns(s)' /\ Row(s)'.fresh
    BY DEF OwnersOwn
  <2>1. s # r /\ vpc[s] \in Verifying /\ s \notin late
    BY DEF WithId
  <2>2. Owns(s) /\ Row(s).fresh
    BY <2>1 DEF ClaimInd, OwnersOwn
  <2>3. Row(s)' = Row(s) /\ attemptId'[s] = attemptId[s]
    BY <2>1 DEF Row
  <2> QED
    BY <2>2, <2>3 DEF Owns
<1> QED
  BY <1>1, <1>2, <1>3, <1>4 DEF ClaimInd

LEMMA ObserveReuseReapClaims ==
  ASSUME VerifyAssumption, VerifyTypeOK, ClaimInd, NEW r \in Runners, ObserveHead(r) \/ Reuse(r) \/ Reap(r)
  PROVE  ClaimInd'
<1>0. RunnerTypes /\ AttemptTypes /\ OthersSame(r)
  BY TypesSplit, RunnerAlone DEF RunnerStep
<1>1. CASE ObserveHead(r)
  BY <1>0, <1>1, LeavesClaims DEF ObserveHead, Goes, RowsSame, attemptVars, RunnerTypes, WithId, Verifying
<1>2. CASE Reuse(r)
  BY <1>0, <1>2, LeavesClaims DEF Reuse, Returns, Goes, RowsSame, attemptVars, RunnerTypes, WithId, Verifying
<1>3. CASE Reap(r)
  <2>1. /\ vpc'[r] = "looking" /\ attemptId' = attemptId /\ late' = late
        /\ \A h \in Heads : attempt'[h] = IF Reaped(h) THEN NoRow ELSE attempt[h]
    BY <1>0, <1>3 DEF Reap, Goes, RunnerTypes
  <2>2. ASSUME NEW s \in Runners, vpc[s] \in Verifying, s \notin late
        PROVE  attempt'[subject[s].head] = attempt[subject[s].head]
    BY <2>1, <2>2, <1>0 DEF ClaimInd, OwnersOwn, Row, Reaped, RunnerTypes, Subjects
  <2> QED
    BY <2>1, <2>2, <1>0, FewerRows DEF WithId, Verifying
<1> QED
  BY <1>1, <1>2, <1>3

(* An attempt starts to run: inserted, or claimed from the queue.          *)
LEMMA RunClaims ==
  ASSUME VerifyAssumption, VerifyTypeOK, ClaimInd, NEW r \in Runners, OthersSame(r), Runs(r, attemptId[r]),
         \/ vpc[r] = "beginning" /\ Row(r) = NoRow
         \/ vpc[r] = "claiming" /\ StillQueued(r)
  PROVE  ClaimInd'
<1>0. RunnerTypes /\ AttemptTypes
  BY TypesSplit
<1> DEFINE x == subject[r].head
<1>1. /\ x \in Heads
      /\ \A h \in Heads \ {x} : attempt'[h] = attempt[h]
      /\ attempt'[x] = [id |-> attemptId[r], status |-> "running", fresh |-> TRUE]
  BY <1>0 DEF Runs, AttemptTypes, RunnerTypes, Subjects
<1>2. attemptId' = attemptId /\ subject' = subject /\ late' = late \ {r} /\ vpc'[r] = "inspecting"
  BY <1>0 DEF Runs, Goes, RunnerTypes
<1>3. /\ \A s \in Runners \ {r} : vpc[s] \in Verifying => attemptId[s] # attemptId[r]
      /\ \A h \in Heads \ {x} : attempt[h] # NoRow => attempt[h].id # attemptId[r]
  <2>1. CASE vpc[r] = "beginning"
    BY <2>1 DEF ClaimInd, Private
  <2>2. CASE vpc[r] = "claiming" /\ StillQueued(r)
    BY <2>2, <1>1 DEF ClaimInd, QueuedFree, RowsApart, StillQueued, Row
  <2> QED
    BY <2>1, <2>2
<1>4. HasId'
  BY <1>2 DEF ClaimInd, HasId, OthersSame, WithId
<1>5. Private'
  BY <1>1, <1>2 DEF ClaimInd, Private, OthersSame
<1>6. RowsApart'
  BY <1>1, <1>3 DEF ClaimInd, RowsApart
<1>7. QueuedFree'
  BY <1>1, <1>2, <1>3 DEF ClaimInd, QueuedFree, OthersSame
<1>8. RunningApart'
  BY <1>2, <1>3 DEF ClaimInd, RunningApart, OthersSame
<1>9. OwnersOwn'
  <2> SUFFICES ASSUME NEW s \in Runners, vpc'[s] \in Verifying, s \notin late'
               PROVE  Owns(s)' /\ Row(s)'.fresh
    BY DEF OwnersOwn
  <2>1. CASE s = r
    <3>1. Row(s)' = [id |-> attemptId[r], status |-> "running", fresh |-> TRUE]
      BY <2>1, <1>1, <1>2 DEF Row
    <3>2. [id |-> attemptId[r], status |-> "running", fresh |-> TRUE] \in Rows
      BY DEF Rows, ClaimInd, HasId, WithId
    <3> QED
      <4>1. Row(s)' # NoRow
        BY <3>1, <3>2 DEF VerifyAssumption
      <4>2. Row(s)'.id = attemptId'[s] /\ Row(s)'.status = "running" /\ Row(s)'.fresh
        BY <3>1, <2>1, <1>2
      <4> QED
        BY <4>1, <4>2 DEF Owns
  <2>2. CASE s # r
    <3>1. vpc[s] \in Verifying /\ s \notin late
      BY <2>2, <1>2 DEF OthersSame
    <3>2. Owns(s) /\ Row(s).fresh
      BY <3>1 DEF ClaimInd, OwnersOwn
    <3>3. subject[s].head \in Heads /\ subject[s].head # x
      BY <3>2, <1>0 DEF Owns, Row, RunnerTypes, Subjects, StillQueued
    <3>4. Row(s)' = Row(s) /\ attemptId'[s] = attemptId[s]
      BY <3>3, <1>1, <1>2 DEF Row
    <3> QED
      BY <3>2, <3>4 DEF Owns
  <2> QED
    BY <2>1, <2>2
<1> QED
  BY <1>4, <1>5, <1>6, <1>7, <1>8, <1>9 DEF ClaimInd

LEMMA BeginClaims ==
  ASSUME VerifyAssumption, VerifyTypeOK, ClaimInd, NEW r \in Runners, BeginAttempt(r) \/ ClaimQueued(r)
  PROVE  ClaimInd'
<1>0. RunnerTypes /\ AttemptTypes /\ OthersSame(r)
  BY TypesSplit, RunnerAlone DEF RunnerStep
<1>1. CASE Returns(r) /\ UNCHANGED attemptVars
  BY <1>0, <1>1, LeavesClaims DEF Returns, Goes, RowsSame, attemptVars, RunnerTypes, WithId, Verifying
<1>2. CASE Runs(r, attemptId[r]) /\ \/ vpc[r] = "beginning" /\ Row(r) = NoRow
                                    \/ vpc[r] = "claiming" /\ StillQueued(r)
  BY <1>0, <1>2, RunClaims
<1>3. CASE /\ vpc[r] = "beginning"
           /\ Row(r) # NoRow /\ Row(r).status = "queued"
           /\ attemptId' = [attemptId EXCEPT ![r] = Row(r).id]
           /\ Goes(r, "claiming")
           /\ UNCHANGED <<subject, attemptVars>>
  <2>1. RowsSame /\ vpc'[r] = "claiming" /\ attemptId'[r] = Row(r).id
    BY <1>0, <1>3 DEF RowsSame, attemptVars, RunnerTypes, Goes
  <2>2. subject[r].head \in Heads /\ Row(r).id \in AttemptIds
    BY <1>0, <1>3 DEF Row, AttemptTypes, RunnerTypes, Subjects, Rows
  <2>3. \A s \in Runners \ {r} : vpc[s] \in {"beginning", "queueing"} => attemptId[s] # Row(r).id
    BY <1>3, <2>2 DEF ClaimInd, Private, Row
  <2>4. HasId'
    BY <2>1, <2>2, <1>0 DEF ClaimInd, HasId, OthersSame
  <2>5. Private'
    BY <2>1, <2>3, <1>0 DEF ClaimInd, Private, OthersSame, RowsSame
  <2>6. RowsApart' /\ QueuedFree' /\ RunningApart'
    BY <2>1, <1>0 DEF ClaimInd, RowsApart, QueuedFree, RunningApart, OthersSame, RowsSame, Verifying
  <2>7. OwnersOwn'
    BY <2>1, <1>0 DEF ClaimInd, OwnersOwn, Owns, Row, OthersSame, RowsSame, Verifying
  <2> QED
    BY <2>4, <2>5, <2>6, <2>7 DEF ClaimInd
<1> QED
  BY <1>1, <1>2, <1>3 DEF BeginAttempt, ClaimQueued

LEMMA VerifyingClaims ==
  ASSUME VerifyAssumption, VerifyTypeOK, ClaimInd, NEW r \in Runners,
         Inspect(r) \/ (\E g \in LocalGates : RunGate(r, g)) \/ Recheck(r) \/ Append(r) \/ FinishAttempt(r) \/ Dies(r)
  PROVE  ClaimInd'
<1>0. RunnerTypes /\ AttemptTypes /\ OthersSame(r)
  BY TypesSplit, RunnerAlone DEF RunnerStep
<1>1. CASE Inspect(r) \/ Recheck(r) \/ Append(r)
  <2>1. /\ RowsSame /\ vpc[r] \in Verifying /\ vpc'[r] \in Verifying
        /\ attemptId' = attemptId /\ subject' = subject
    BY <1>0, <1>1 DEF Inspect, Recheck, Append, RowsSame, attemptVars, Goes, RunnerTypes, Verifying
  <2> QED
    BY <2>1, <1>0, GoesOn
<1>2. ASSUME NEW g \in LocalGates, RunGate(r, g)
      PROVE  ClaimInd'
  <2>1. /\ vpc[r] \in Verifying /\ vpc'[r] \in Verifying
        /\ attemptId' = attemptId /\ subject' = subject /\ late' = late
    BY <1>0, <1>2 DEF RunGate, Goes, RunnerTypes, Verifying
  <2>2. CASE ~Owns(r)
    BY <2>1, <2>2, <1>0, <1>2, GoesOn DEF RunGate, RowsSame
  <2>3. CASE Owns(r)
    <3> DEFINE x == subject[r].head
    <3>0. x \in Heads /\ attempt[x] \in Rows
      BY <2>3, <1>0 DEF Owns, Row, AttemptTypes, RunnerTypes, Subjects
    <3>1. attempt' = [attempt EXCEPT ![x] = [attempt[x] EXCEPT !.fresh = TRUE]]
      BY <2>3, <1>2 DEF RunGate
    <3>2. /\ \A h \in Heads \ {x} : attempt'[h] = attempt[h]
          /\ attempt'[x] = [id |-> attempt[x].id, status |-> attempt[x].status, fresh |-> TRUE]
      BY <3>0, <3>1, <1>0 DEF AttemptTypes, Rows
    <3>3. attempt'[x] \in Rows
      BY <3>0, <3>2 DEF Rows
    <3>4. \A h \in Heads : /\ attempt'[h] # NoRow <=> attempt[h] # NoRow
                           /\ attempt[h] # NoRow => /\ attempt'[h].id = attempt[h].id
                                                    /\ attempt'[h].status = attempt[h].status
                                                    /\ attempt[h].fresh => attempt'[h].fresh
      BY <3>0, <3>2, <3>3 DEF VerifyAssumption
    <3>5. HasId' /\ Private'
      BY <3>4, <2>1, <1>0 DEF ClaimInd, HasId, Private, OthersSame, WithId, Verifying
    <3>6. RowsApart' /\ QueuedFree' /\ RunningApart'
      BY <3>4, <2>1, <1>0 DEF ClaimInd, RowsApart, QueuedFree, RunningApart, OthersSame
    <3>7. OwnersOwn'
      <4> SUFFICES ASSUME NEW s \in Runners, vpc'[s] \in Verifying, s \notin late'
                   PROVE  Owns(s)' /\ Row(s)'.fresh
        BY DEF OwnersOwn
      <4>1. Owns(s) /\ Row(s).fresh
        BY <2>1, <1>0 DEF ClaimInd, OwnersOwn, OthersSame
      <4>2. subject[s].head \in Heads /\ subject' = subject /\ attemptId' = attemptId
        BY <2>1, <1>0 DEF RunnerTypes, Subjects
      <4> QED
        BY <4>1, <4>2, <3>4 DEF Owns, Row
    <3> QED
      BY <3>5, <3>6, <3>7 DEF ClaimInd
  <2> QED
    BY <2>2, <2>3
<1>3. CASE FinishAttempt(r)
  <2>1. vpc[r] \in Verifying /\ vpc'[r] = "idle" /\ attemptId'[r] = NoRow /\ late' = late
    BY <1>0, <1>3 DEF FinishAttempt, Returns, Goes, RunnerTypes, Verifying
  <2>2. \A h \in Heads : attempt'[h] \in {attempt[h], NoRow}
    BY <1>0, <1>3 DEF FinishAttempt, AttemptTypes
  <2>3. ASSUME NEW s \in Runners \ {r}, vpc[s] \in Verifying, s \notin late
        PROVE  attempt'[subject[s].head] = attempt[subject[s].head]
    <3>1. Owns(s) /\ attemptId[s] # attemptId[r]
      BY <2>1, <2>3 DEF ClaimInd, OwnersOwn, RunningApart
    <3>2. Owns(r) => subject[s].head # subject[r].head
      BY <3>1 DEF Owns, Row
    <3> QED
      BY <3>2, <1>0, <1>3 DEF FinishAttempt, AttemptTypes
  <2> QED
    BY <2>1, <2>2, <2>3, <1>0, FewerRows DEF WithId, Verifying
<1>4. CASE Dies(r)
  BY <1>0, <1>4, LeavesClaims DEF Dies, Goes, RowsSame, attemptVars, RunnerTypes, WithId, Verifying
<1> QED
  BY <1>1, <1>2, <1>3, <1>4

LEMMA OutsideClaims ==
  ASSUME VerifyAssumption, VerifyTypeOK, ClaimInd, (\E h \in Heads : HeadStep(h)) \/ HubMoves
  PROVE  ClaimInd'
<1>0. RunnerTypes /\ AttemptTypes
  BY TypesSplit
<1>1. CASE UNCHANGED <<attempt, late, vpc, subject, attemptId>>
  BY <1>1 DEF ClaimInd, HasId, Private, RowsApart, QueuedFree, RunningApart, OwnersOwn, Owns, Row
<1>2. ASSUME NEW x \in Heads, HeartbeatExpires(x)
      PROVE  ClaimInd'
  <2>0. UNCHANGED <<vpc, subject, attemptId>>
    BY <1>2 DEF HeartbeatExpires, runnerVars
  <2>1. attempt[x] \in Rows /\ attempt[x].status = "running"
    BY <1>0, <1>2 DEF HeartbeatExpires, AttemptTypes
  <2>2. /\ \A h \in Heads \ {x} : attempt'[h] = attempt[h]
        /\ attempt'[x] = [id |-> attempt[x].id, status |-> attempt[x].status, fresh |-> FALSE]
    BY <1>0, <1>2, <2>1 DEF HeartbeatExpires, AttemptTypes, Rows
  <2>3. attempt'[x] \in Rows
    BY <2>1, <2>2 DEF Rows
  <2>4. \A h \in Heads : /\ attempt'[h] # NoRow <=> attempt[h] # NoRow
                         /\ attempt[h] # NoRow => /\ attempt'[h].id = attempt[h].id
                                                  /\ attempt'[h].status = attempt[h].status
    BY <2>1, <2>2, <2>3 DEF VerifyAssumption
  <2>5. HasId' /\ Private' /\ RowsApart' /\ QueuedFree' /\ RunningApart'
    BY <2>0, <2>4 DEF ClaimInd, HasId, Private, RowsApart, QueuedFree, RunningApart
  <2>6. OwnersOwn'
    <3> SUFFICES ASSUME NEW s \in Runners, vpc[s] \in Verifying, s \notin late'
                 PROVE  Owns(s)' /\ Row(s)'.fresh
      BY <2>0 DEF OwnersOwn
    <3>1. late' = late \cup {r \in Runners : vpc[r] \in Verifying /\ subject[r].head = x /\ Owns(r)}
      BY <1>2 DEF HeartbeatExpires
    <3>2. Owns(s) /\ Row(s).fresh
      BY <3>1 DEF ClaimInd, OwnersOwn
    <3>3. subject[s].head \in Heads \ {x}
      BY <3>1, <3>2, <1>0 DEF RunnerTypes, Subjects
    <3> QED
      BY <3>2, <3>3, <2>0, <2>2 DEF Owns, Row
  <2> QED
    BY <2>5, <2>6 DEF ClaimInd
<1> QED
  BY <1>1, <1>2 DEF HeadStep, Dispatch, HubMerges, CheckOut, HubMoves, attemptVars, runnerVars

LEMMA VerifyInvariant ==
  ASSUME VerifyAssumption
  PROVE  VerifySpec => [](VerifyTypeOK /\ ClaimInd)
<1>1. VerifyInit => VerifyTypeOK /\ ClaimInd
  <2> SUFFICES ASSUME VerifyInit PROVE VerifyTypeOK /\ ClaimInd
    OBVIOUS
  <2>1. [head |-> FirstHead, base |-> FirstBase] \in Subjects /\ 0 \in 0..MaxMoves
    BY DEF Subjects, VerifyAssumption
  <2>2. AttemptTypes /\ RunnerTypes /\ AdmittedTypes /\ HubTypes
    BY <2>1 DEF VerifyInit, AttemptTypes, RunnerTypes, AdmittedTypes, HubTypes, VerifyAssumption,
                Places, Verifying
  <2>3. ClaimInd
    BY DEF VerifyInit, ClaimInd, HasId, Private, RowsApart, QueuedFree, RunningApart, OwnersOwn,
           WithId, Verifying
  <2> QED
    BY <2>2, <2>3, TypesSplit
<1>2. VerifyTypeOK /\ ClaimInd /\ [VerifyNext]_verifyVars => (VerifyTypeOK /\ ClaimInd)'
  <2> SUFFICES ASSUME VerifyTypeOK, ClaimInd, [VerifyNext]_verifyVars
               PROVE  VerifyTypeOK' /\ ClaimInd'
    OBVIOUS
  <2>0. HasId
    BY DEF ClaimInd
  <2>1. ASSUME NEW r \in Runners,
               ObserveHead(r) \/ Reuse(r) \/ Reap(r) \/ Look(r) \/ Enqueue(r) \/ BeginAttempt(r) \/ ClaimQueued(r)
        PROVE  VerifyTypeOK' /\ ClaimInd'
    <3>1. VerifyTypeOK'
      BY <2>0, <2>1, BeforeClaimTypes
    <3> QED
      BY <3>1, <2>1, ObserveReuseReapClaims, LookClaims, EnqueueClaims, BeginClaims
  <2>2. ASSUME NEW r \in Runners,
               Inspect(r) \/ (\E g \in LocalGates : RunGate(r, g)) \/ Recheck(r) \/ Append(r) \/ FinishAttempt(r) \/ Dies(r)
        PROVE  VerifyTypeOK' /\ ClaimInd'
    BY <2>2, VerifyStepTypes, VerifyingClaims
  <2>3. CASE (\E h \in Heads : HeadStep(h)) \/ HubMoves
    BY <2>3, OutsideTypes, OutsideClaims
  <2>4. CASE UNCHANGED verifyVars
    BY <2>4 DEF verifyVars, VerifyTypeOK, ClaimInd, HasId, Private, RowsApart, QueuedFree, RunningApart,
                OwnersOwn, Owns, Row
  <2> QED
    BY <2>1, <2>2, <2>3, <2>4 DEF VerifyNext, HeadStep
<1> QED
  BY <1>1, <1>2, PTL DEF VerifySpec

(* Two runners verify the same head at the same time only when one of them *)
(* went ATTEMPT_STALE_AFTER_MS without a beat: begin(), enqueue(),          *)
(* claimQueued(), reapStale() and finish() of any number of processes.     *)
THEOREM HeadsVerifiedOnce ==
  ASSUME VerifyAssumption
  PROVE  VerifySpec => [](VerifyTypeOK /\ OneRunPerHead)
<1>1. VerifyTypeOK /\ ClaimInd => OneRunPerHead
  <2> SUFFICES ASSUME ClaimInd,
                      NEW r \in Runners, NEW s \in Runners, r # s, vpc[r] \in Verifying, vpc[s] \in Verifying,
                      subject[r].head = subject[s].head, r \notin late, s \notin late
               PROVE  FALSE
    BY DEF OneRunPerHead
  <2>1. Owns(r) /\ Owns(s)
    BY DEF ClaimInd, OwnersOwn
  <2>2. attemptId[r] = attemptId[s]
    BY <2>1 DEF Owns, Row
  <2> QED
    BY <2>2 DEF ClaimInd, RunningApart
<1> QED
  BY <1>1, VerifyInvariant, PTL

-----------------------------------------------------------------------------
(* The receipts and the merge.                                             *)

MergeInd == MisreadSeen /\ ReceiptsSound /\ SentAllowed

\* What a step that appends no receipt and sends no merge leaves alone.
LEMMA MergeKept ==
  ASSUME ReceiptsSound, SentAllowed, UNCHANGED <<receipts, sent, merged>>
  PROVE  ReceiptsSound' /\ SentAllowed'
BY DEF ReceiptsSound, SentAllowed, Allows

\* A runner no gate of which misread goes anywhere.
LEMMA NothingMisread ==
  ASSUME RunnerTypes, MisreadSeen, NEW r \in Runners, OthersSame(r), UNCHANGED checkout,
         misread' \subseteq misread, r \notin misread'
  PROVE  MisreadSeen'
BY DEF MisreadSeen, OthersSame, RunnerTypes

LEMMA RunnerMergeStep ==
  ASSUME VerifyAssumption, VerifyTypeOK, MergeInd, NEW r \in Runners, RunnerStep(r)
  PROVE  MergeInd'
<1>0. RunnerTypes /\ OthersSame(r) /\ MisreadSeen /\ ReceiptsSound /\ SentAllowed
  BY TypesSplit, RunnerAlone DEF MergeInd
<1>1. CASE ObserveHead(r) \/ Reuse(r) \/ Reap(r) \/ Look(r) \/ Enqueue(r) \/ BeginAttempt(r) \/ ClaimQueued(r)
           \/ Inspect(r)
  <2>1. UNCHANGED <<receipts, sent, merged, checkout>>
    BY <1>1 DEF ObserveHead, Reuse, Reap, Look, Enqueue, BeginAttempt, ClaimQueued, Inspect, Elsewhere
  <2>2. misread' \in {misread, misread \ {r}}
    BY <1>1 DEF ObserveHead, Reuse, Reap, Look, Enqueue, BeginAttempt, ClaimQueued, Inspect, Returns, Runs
  <2>3. vpc[r] \notin {"ran", "finishing"}
    BY <1>1 DEF ObserveHead, Reuse, Reap, Look, Enqueue, BeginAttempt, ClaimQueued, Inspect
  <2>4. r \notin misread
    BY <2>3, <1>0 DEF MisreadSeen
  <2>5. MisreadSeen'
    BY <2>1, <2>2, <2>4, <1>0, NothingMisread
  <2> QED
    BY <2>1, <2>5, <1>0, MergeKept DEF MergeInd
<1>2. ASSUME NEW g \in LocalGates, RunGate(r, g)
      PROVE  MergeInd'
  <2>1. UNCHANGED <<receipts, sent, merged, checkout, subject>> /\ vpc[r] = "gating" /\ vpc'[r] = "ran"
    BY <1>0, <1>2 DEF RunGate, Elsewhere, RunnerTypes, Goes
  <2>2. misread' \subseteq misread \cup {r} /\ (r \in misread' => r \in misread \/ checkout # subject[r].head)
    BY <1>2 DEF RunGate
  <2>3. MisreadSeen'
    BY <2>1, <2>2, <1>0 DEF MisreadSeen, OthersSame, RunnerTypes
  <2> QED
    BY <2>1, <2>3, <1>0, MergeKept DEF MergeInd
<1>3. CASE Recheck(r)
  <2>1. /\ UNCHANGED <<receipts, sent, merged, checkout, subject, misread>>
        /\ vpc'[r] = IF checkout = subject[r].head THEN "gating" ELSE "finishing"
    BY <1>0, <1>3 DEF Recheck, Elsewhere, RunnerTypes, Goes
  <2>2. MisreadSeen'
    BY <2>1, <1>0 DEF MisreadSeen, OthersSame, RunnerTypes
  <2> QED
    BY <2>1, <2>2, <1>0, MergeKept DEF MergeInd
<1>4. CASE Append(r)
  <2>1. UNCHANGED <<sent, merged, checkout, misread>> /\ vpc[r] = "gating"
    BY <1>4 DEF Append, hubVars
  <2>2. r \notin misread
    BY <2>1, <1>0 DEF MisreadSeen
  <2>3. receipts \subseteq receipts' /\ \A receipt \in receipts' \ receipts : receipt.sound
    <3>1. CASE UNCHANGED receipts
      BY <3>1
    <3>2. ASSUME NEW approved \in BOOLEAN,
                 receipts' = receipts \cup
                   {[head |-> subject[r].head, base |-> subject[r].base, passed |-> passed[r],
                     approved |-> approved, sound |-> r \notin misread]}
          PROVE  receipts \subseteq receipts' /\ \A receipt \in receipts' \ receipts : receipt.sound
      <4> DEFINE new == [head |-> subject[r].head, base |-> subject[r].base, passed |-> passed[r],
                         approved |-> approved, sound |-> r \notin misread]
      <4>1. new.sound
        BY <2>2, Zenon
      <4> HIDE DEF new
      <4> QED
        BY <4>1, <3>2, Zenon DEF new
    <3> QED
      BY <3>1, <3>2, <1>4 DEF Append
  <2>4. MisreadSeen'
    BY <2>1, <2>2, <1>0, NothingMisread
  <2>5. ReceiptsSound'
    BY <2>3, <1>0 DEF ReceiptsSound
  <2>6. SentAllowed'
    BY <2>1, <2>3, <1>0 DEF SentAllowed, Allows
  <2> QED
    BY <2>4, <2>5, <2>6 DEF MergeInd
<1>5. CASE FinishAttempt(r) \/ Dies(r)
  <2>1. UNCHANGED <<receipts, sent, merged, checkout>> /\ misread' = misread \ {r}
    BY <1>5 DEF FinishAttempt, Dies, Returns, Elsewhere
  <2>2. MisreadSeen'
    BY <2>1, <1>0, NothingMisread
  <2> QED
    BY <2>1, <2>2, <1>0, MergeKept DEF MergeInd
<1> QED
  BY <1>1, <1>2, <1>3, <1>4, <1>5 DEF RunnerStep

LEMMA OutsideMergeStep ==
  ASSUME VerifyAssumption, VerifyTypeOK, MergeInd, (\E h \in Heads : HeadStep(h)) \/ HubMoves
  PROVE  MergeInd'
<1>0. RunnerTypes /\ MisreadSeen /\ ReceiptsSound /\ SentAllowed
  BY TypesSplit DEF MergeInd
<1>1. ASSUME NEW h \in Heads, Dispatch(h)
      PROVE  MergeInd'
  <2>1. /\ UNCHANGED <<vpc, subject, misread, checkout, receipts, merged>>
        /\ sent' = sent \cup {h}
        /\ \E receipt \in receipts : Allows(receipt, h, NoRow)
    BY <1>1 DEF Dispatch, runnerVars, hubVars, Allows
  <2>2. MisreadSeen' /\ ReceiptsSound'
    BY <2>1, <1>0 DEF MisreadSeen, ReceiptsSound
  <2>3. SentAllowed'
    BY <2>1, <1>0 DEF SentAllowed, Allows
  <2> QED
    BY <2>2, <2>3 DEF MergeInd
<1>2. ASSUME NEW h \in Heads, HubMerges(h)
      PROVE  MergeInd'
  <2>1. /\ UNCHANGED <<vpc, subject, misread, checkout, receipts>>
        /\ h \in sent /\ sent' \subseteq sent /\ merged' \in {merged, h}
    BY <1>2 DEF HubMerges, runnerVars
  <2>2. MisreadSeen' /\ ReceiptsSound'
    BY <2>1, <1>0 DEF MisreadSeen, ReceiptsSound
  <2>3. SentAllowed'
    BY <2>1, <1>0 DEF SentAllowed, Allows
  <2> QED
    BY <2>2, <2>3 DEF MergeInd
<1>3. ASSUME NEW h \in Heads, CheckOut(h)
      PROVE  MergeInd'
  <2>1. /\ UNCHANGED <<vpc, subject, receipts, sent, merged>>
        /\ checkout' = h /\ misread' = {r \in misread : subject[r].head # h}
    BY <1>3 DEF CheckOut, runnerVars, hubVars
  <2>2. MisreadSeen'
    BY <2>1, <1>0 DEF MisreadSeen
  <2> QED
    BY <2>1, <2>2, <1>0, MergeKept DEF MergeInd
<1>4. ASSUME HubMoves \/ \E h \in Heads : HeartbeatExpires(h)
      PROVE  MergeInd'
  <2>1. UNCHANGED <<vpc, subject, misread, checkout, receipts, sent, merged>>
    BY <1>4 DEF HubMoves, HeartbeatExpires, Elsewhere, runnerVars
  <2>2. MisreadSeen'
    BY <2>1, <1>0 DEF MisreadSeen
  <2> QED
    BY <2>1, <2>2, <1>0, MergeKept DEF MergeInd
<1> QED
  BY <1>1, <1>2, <1>3, <1>4 DEF HeadStep

(* What GitHub merges through guarded_pr_merge was verified: the merge was *)
(* sent with a receipt of exactly that head, and whatever ran in between,  *)
(* no receipt speaks of a gate whose misreading the inspections could see. *)
THEOREM MergesAreVerified ==
  ASSUME VerifyAssumption
  PROVE  VerifySpec => []MergedWasVerified
<1>1. VerifyInit => MergeInd
  BY DEF VerifyInit, MergeInd, MisreadSeen, ReceiptsSound, SentAllowed
<1>2. VerifyTypeOK /\ MergeInd /\ [VerifyNext]_verifyVars => MergeInd'
  <2> SUFFICES ASSUME VerifyTypeOK, MergeInd, [VerifyNext]_verifyVars
               PROVE  MergeInd'
    OBVIOUS
  <2>1. ASSUME NEW r \in Runners, RunnerStep(r)
        PROVE  MergeInd'
    BY <2>1, RunnerMergeStep
  <2>2. CASE (\E h \in Heads : HeadStep(h)) \/ HubMoves
    BY <2>2, OutsideMergeStep
  <2>3. CASE UNCHANGED verifyVars
    BY <2>3 DEF verifyVars, MergeInd, MisreadSeen, ReceiptsSound, SentAllowed, Allows
  <2> QED
    BY <2>1, <2>2, <2>3 DEF VerifyNext, HeadStep, RunnerStep
<1>3. MergeInd => MergedWasVerified
  BY DEF MergeInd, ReceiptsSound, SentAllowed, MergedWasVerified
<1> QED
  BY <1>1, <1>2, <1>3, VerifyInvariant, PTL DEF VerifySpec

-------------------------------------------------------------------------------
(* A finite set with a total order on it has a least element.              *)
LEMMA FiniteHasLeast ==
  ASSUME NEW S, IsFiniteSet(S), S # {}, NEW R,
         \A x, y \in S : <<x, y>> \in R \/ <<y, x>> \in R,
         \A x, y, z \in S : <<x, y>> \in R /\ <<y, z>> \in R => <<x, z>> \in R
  PROVE  \E x \in S : \A y \in S : <<x, y>> \in R
<1> DEFINE Bad == {A \in FiniteSubsetsOf(S) : A # {} /\ ~ \E x \in A : \A y \in A : <<x, y>> \in R}
<1>1. Bad = {}
  <2>1. SUFFICES ASSUME Bad # {} PROVE FALSE
    OBVIOUS
  <2>2. Bad \subseteq FiniteSubsetsOf(S)
    OBVIOUS
  <2>3. PICK A \in Bad : \A B \in Bad : ~ (<<B, A>> \in StrictSubsetOrdering(S))
    <3> HIDE DEF Bad
    <3> QED
      BY <2>1, <2>2, FS_StrictSubsetOrderingWellFounded, WFMin
  <2>4. A \subseteq S /\ A # {} /\ IsFiniteSet(A)
    BY <2>3 DEF FiniteSubsetsOf
  <2>5. PICK e \in A : TRUE
    BY <2>4
  <2>6. A \ {e} \in FiniteSubsetsOf(S) /\ <<A \ {e}, A>> \in StrictSubsetOrdering(S)
    BY <2>4, <2>5, FS_Subset DEF FiniteSubsetsOf, StrictSubsetOrdering
  <2>7. A \ {e} \notin Bad
    BY <2>3, <2>6
  <2>8. CASE A = {e}
    BY <2>3, <2>4, <2>8
  <2>9. CASE A # {e}
    <3>1. PICK m \in A \ {e} : \A y \in A \ {e} : <<m, y>> \in R
      BY <2>6, <2>7, <2>9
    <3>2. CASE <<m, e>> \in R
      BY <2>3, <3>1, <3>2
    <3>3. CASE <<e, m>> \in R
      <4>1. \A y \in A : <<e, y>> \in R
        BY <2>4, <2>5, <3>1, <3>3
      <4> QED
        BY <2>3, <2>5, <4>1
    <3> QED
      BY <2>4, <2>5, <3>1, <3>2, <3>3
  <2> QED
    BY <2>8, <2>9
<1> QED
  BY <1>1 DEF FiniteSubsetsOf

-----------------------------------------------------------------------------
(* The feed: pull requests in a strict order.                              *)

\* The pull requests of the feed up to p.
Ahead(p) == {o \in Listed : hub[o].updated > hub[p].updated
                              \/ (hub[o].updated = hub[p].updated /\ o >= p)}

HubTyped == hub \in [PullRequests -> HubStates]

LEMMA FeedOrder ==
  ASSUME ReconAssumption, HubTyped
  PROVE  /\ \A p \in Listed : Rank(p) = Cardinality(Ahead(p)) /\ IsFiniteSet(Ahead(p)) /\ p \in Ahead(p)
         /\ \A p, o \in Listed : o \in Ahead(p) \/ p \in Ahead(o)
         /\ \A p, o \in Listed : o \in Ahead(p) => Ahead(o) \subseteq Ahead(p)
         /\ \A p, o \in Listed : o \in Ahead(p) /\ p \in Ahead(o) => p = o
         /\ \A p \in Listed : hub[p].updated \in Nat /\ p \in Nat
<1>1. Listed \subseteq PullRequests /\ \A p \in Listed : hub[p].updated \in Nat /\ p \in Nat
  BY DEF ReconAssumption, HubTyped, HubStates, Listed, Times
<1>2. \A p \in Listed : Rank(p) = Cardinality(Ahead(p)) /\ IsFiniteSet(Ahead(p)) /\ p \in Ahead(p)
  <2>1. TAKE p \in Listed
  <2>2. IsFiniteSet(Ahead(p))
    BY <1>1, FS_Subset DEF Ahead, ReconAssumption
  <2> QED
    BY <1>1, <2>2 DEF Ahead, Rank
<1> QED
  BY <1>1, <1>2 DEF Ahead

LEMMA RankCounts ==
  ASSUME ReconAssumption, HubTyped
  PROVE  /\ \A p \in Listed : Rank(p) \in Nat \ {0}
         /\ \A p, o \in Listed : o \in Ahead(p) /\ o # p => Rank(o) < Rank(p)
<1>1. \A p \in Listed : Rank(p) \in Nat \ {0}
  BY FeedOrder, FS_CardinalityType, FS_EmptySet
<1>2. ASSUME NEW p \in Listed, NEW o \in Listed, o \in Ahead(p), o # p
      PROVE  Rank(o) < Rank(p)
  <2>1. Ahead(o) \subseteq Ahead(p) /\ Ahead(o) # Ahead(p)
    BY <1>2, FeedOrder
  <2>2. Cardinality(Ahead(o)) <= Cardinality(Ahead(p)) /\ Cardinality(Ahead(o)) # Cardinality(Ahead(p))
    BY <2>1, FeedOrder, FS_Subset
  <2> QED
    BY <1>1, <2>2, FeedOrder
<1> QED
  BY <1>1, <1>2

(* The ranks have no gap: the page after the last one is empty.            *)
LEMMA PagesAreFull ==
  ASSUME ReconAssumption, HubTyped, NEW n \in Nat \ {0}, NEW p \in Listed, n <= Rank(p)
  PROVE  OnPage(n) # {}
<1> DEFINE S == {x \in Listed : n <= Rank(x)}
           R == {xy \in S \X S : Rank(xy[1]) <= Rank(xy[2])}
<1>1. \A x \in Listed : Rank(x) \in Nat
  BY RankCounts
<1>2. IsFiniteSet(S) /\ S # {} /\ S \subseteq Listed
  <2>1. S \in SUBSET PullRequests
    BY DEF Listed
  <2> QED
    BY <2>1, FS_Subset DEF ReconAssumption
<1>3. \E x \in S : \A y \in S : <<x, y>> \in R
  <2>1. \A x, y \in S : <<x, y>> \in R <=> Rank(x) <= Rank(y)
    OBVIOUS
  <2>2. \A x \in S : Rank(x) \in Nat
    BY <1>1
  <2>3. /\ \A x, y \in S : <<x, y>> \in R \/ <<y, x>> \in R
        /\ \A x, y, z \in S : <<x, y>> \in R /\ <<y, z>> \in R => <<x, z>> \in R
    <3> HIDE DEF S, R
    <3> QED
      BY <2>1, <2>2
  <2> HIDE DEF S, R
  <2> QED
    BY <1>2, <2>3, FiniteHasLeast
<1>4. PICK x \in S : \A y \in S : Rank(x) <= Rank(y)
  BY <1>3
<1> DEFINE T == Ahead(x) \ {x}
           f == [y \in T |-> Rank(y)]
<1>5. x \in Listed /\ n <= Rank(x) /\ IsFiniteSet(T) /\ Cardinality(T) = Rank(x) - 1
  BY <1>4, FeedOrder, FS_RemoveElement
<1>6. \A y \in T : y \in Listed /\ Rank(y) \in 1..n - 1
  <2>1. TAKE y \in T
  <2>2. y \in Listed /\ Rank(y) < Rank(x)
    BY <1>5, RankCounts DEF Ahead
  <2>3. Rank(x) \in Nat /\ Rank(y) \in Nat \ {0}
    BY <1>5, <2>2, RankCounts
  <2>4. ~(n <= Rank(y))
    BY <1>4, <2>2, <2>3
  <2> QED
    BY <2>2, <2>3, <2>4
<1>7. \A y, z \in T : Rank(y) = Rank(z) => y = z
  <2>1. TAKE y \in T, z \in T
  <2>2. y \in Listed /\ z \in Listed /\ Rank(y) \in Nat /\ Rank(z) \in Nat
    BY <1>1, <1>6
  <2>3. y # z => Rank(y) < Rank(z) \/ Rank(z) < Rank(y)
    BY <2>2, FeedOrder, RankCounts
  <2> QED
    BY <2>2, <2>3
<1>8. f \in Injection(T, 1..n - 1)
  <2> HIDE DEF T
  <2> QED
    BY <1>6, <1>7 DEF Injection, IsInjective
<1>9. Cardinality(T) <= Cardinality(1..n - 1) /\ Cardinality(1..n - 1) = n - 1
  <2>1. IsFiniteSet(1..n - 1) /\ Cardinality(1..n - 1) = n - 1
    BY FS_Interval
  <2> HIDE DEF T, f
  <2> QED
    BY <1>8, <2>1, FS_Injection
<1>10. Rank(x) = n
  BY <1>1, <1>5, <1>9
<1> QED
  BY <1>5, <1>10 DEF OnPage

-----------------------------------------------------------------------------
(* What a pass chooses from the updates it read.                           *)

LEMMA UpdateIs ==
  ASSUME ReconAssumption, HubTyped, NEW p \in PullRequests
  PROVE  /\ Update(p) \in Updates
         /\ Update(p).pr = p /\ Update(p).updated = hub[p].updated
         /\ Update(p).merged <=> hub[p].state = "merged"
         /\ Update(p).at = hub[p].at /\ Update(p).commit = hub[p].commit
<1>1. hub[p] \in HubStates
  BY DEF HubTyped
<1> DEFINE b == hub[p].state = "merged"
<1>2. b \in BOOLEAN
  OBVIOUS
<1>3. Update(p) = [pr |-> p, updated |-> hub[p].updated, merged |-> b, at |-> hub[p].at, commit |-> hub[p].commit]
  BY DEF Update
<1> HIDE DEF b
<1>4. /\ Update(p).pr = p /\ Update(p).updated = hub[p].updated /\ Update(p).merged = b
      /\ Update(p).at = hub[p].at /\ Update(p).commit = hub[p].commit
  BY <1>3
<1>5. hub[p].updated \in Times /\ hub[p].at \in Times /\ hub[p].commit \in Commits
  BY <1>1 DEF HubStates
<1>6. Update(p) \in Updates
  BY <1>2, <1>3, <1>5 DEF Updates
<1> QED
  BY <1>4, <1>6 DEF b

LEMMA EarliestIsThere ==
  ASSUME ReconAssumption, NEW us, us \subseteq Updates, IsFiniteSet(us), us # {}
  PROVE  Earliest(us) \in us
<1> DEFINE Before(u, v) == u.updated < v.updated \/ (u.updated = v.updated /\ u.pr <= v.pr)
           R == {uv \in us \X us : Before(uv[1], uv[2])}
<1>1. \A u \in us : u.updated \in Nat /\ u.pr \in Nat
  <2>1. \A u \in us : u.updated \in Times /\ u.pr \in PullRequests
    BY DEF Updates
  <2>2. PullRequests \subseteq Nat /\ Times \subseteq Nat
    BY DEF Times, ReconAssumption
  <2> QED
    BY <2>1, <2>2
<1>2. \A u, v \in us : <<u, v>> \in R <=> Before(u, v)
  OBVIOUS
<1>3. /\ \A u, v \in us : Before(u, v) \/ Before(v, u)
      /\ \A u, v, w \in us : Before(u, v) /\ Before(v, w) => Before(u, w)
  BY <1>1
<1>4. \E u \in us : \A v \in us : <<u, v>> \in R
  <2> HIDE DEF R, Before
  <2> QED
    BY <1>2, <1>3, FiniteHasLeast
<1>5. \E u \in us : \A v \in us : Before(u, v)
  <2> HIDE DEF R, Before
  <2> QED
    BY <1>2, <1>4
<1> QED
  BY <1>5 DEF Earliest

\* The watermark of a pass: the newest second it read, or where it started.
LEMMA WatermarkIs ==
  ASSUME ReconAssumption, NEW q, updates[q] \subseteq Updates, base[q] \in Cursors,
         clock \in Times, base[q].mark <= clock, \A u \in updates[q] : u.updated <= clock
  PROVE  /\ Watermark(q) \in Times
         /\ base[q].mark <= Watermark(q) /\ Watermark(q) <= clock
         /\ Watermark(q) # base[q].mark => \E u \in updates[q] : u.updated = Watermark(q)
         /\ \A u \in updates[q] : u.updated <= Watermark(q)
<1> DEFINE T == {t \in Times : t >= base[q].mark /\ \A u \in updates[q] : u.updated <= t}
           R == {st \in T \X T : st[1] <= st[2]}
<1>1. /\ base[q].mark \in Nat /\ base[q].mark \in Times /\ Times \subseteq Nat /\ clock \in Nat
      /\ \A u \in updates[q] : u.updated \in Nat /\ u.updated \in Times
      /\ \A t \in Times : \A s \in Nat : s <= t => s \in Times
  BY DEF Updates, Times, Cursors, ReconAssumption
<1>2. IsFiniteSet(T) /\ T # {} /\ T \subseteq Nat
  <2>1. IsFiniteSet(Times)
    <3>1. MaxClock \in Int /\ 0 \in Int
      BY DEF ReconAssumption
    <3> QED
      BY <3>1, FS_Interval DEF Times
  <2>2. T \in SUBSET Times /\ clock \in T
    BY <1>1
  <2> QED
    BY <1>1, <2>1, <2>2, FS_Subset
<1>3. \E m \in T : \A t \in T : <<m, t>> \in R
  <2>1. \A s, t \in T : <<s, t>> \in R <=> s <= t
    OBVIOUS
  <2>2. \A s, t \in T : s \in Nat /\ t \in Nat
    BY <1>2
  <2> HIDE DEF T, R
  <2>3. /\ \A s, t \in T : <<s, t>> \in R \/ <<t, s>> \in R
        /\ \A s, t, w \in T : <<s, t>> \in R /\ <<t, w>> \in R => <<s, w>> \in R
    BY <2>1, <2>2
  <2> QED
    BY <1>2, <2>3, FiniteHasLeast
<1>4. PICK m \in T : \A t \in T : m <= t
  BY <1>3
<1>5. m = base[q].mark \/ \E u \in updates[q] : u.updated = m
  <2> SUFFICES ASSUME m # base[q].mark, \A u \in updates[q] : u.updated # m PROVE FALSE
    OBVIOUS
  <2>1. m \in Nat /\ m - 1 \in Nat /\ m - 1 >= base[q].mark
    BY <1>1, <1>2
  <2>2. \A u \in updates[q] : u.updated <= m - 1
    BY <1>1, <1>2, <2>1
  <2>3. m - 1 \in T
    BY <1>1, <1>4, <2>1, <2>2
  <2> QED
    BY <1>4, <2>1, <2>3
<1>6. \E t \in Times : /\ t = base[q].mark \/ \E u \in updates[q] : u.updated = t
                       /\ t >= base[q].mark /\ \A u \in updates[q] : u.updated <= t
  BY <1>4, <1>5
<1>7. /\ Watermark(q) \in Times
      /\ Watermark(q) = base[q].mark \/ \E u \in updates[q] : u.updated = Watermark(q)
      /\ Watermark(q) >= base[q].mark /\ \A u \in updates[q] : u.updated <= Watermark(q)
  BY <1>6 DEF Watermark
<1>8. Watermark(q) <= clock
  BY <1>1, <1>7
<1> QED
  BY <1>1, <1>7, <1>8

-----------------------------------------------------------------------------
(* The inductive invariant.                                                *)

PassPlaces == {"idle", "paging", "picking", "appending", "fetching", "advancing", "storing"}
MergedOnes == {p \in PullRequests : hub[p].state = "merged"}

\* The outside: branch counts the merges, nothing happened in the future.
World ==
  /\ clock \in Times /\ hubEvents \in 0..MaxHubEvents /\ failures \in 0..MaxFailures
  /\ HubTyped
  /\ receipted \subseteq PullRequests /\ policy \in {1, 2} /\ shifted \in BOOLEAN
  /\ branch = Cardinality(MergedOnes)
  /\ \A p \in PullRequests : hub[p].at <= hub[p].updated /\ hub[p].updated <= clock

\* A merge before the watermark has its record, one in the watermark's second
\* that was seen has it too or is older than the epoch.
MarkPassed(c) ==
  \A p \in PullRequests :
    hub[p].state = "merged" /\ c.started <= hub[p].at /\ hub[p].updated < c.mark => history[p] # NoRecord
SeenDone(c) ==
  \A p \in c.seen : hub[p].state = "merged" /\ (c.started <= hub[p].at => history[p] # NoRecord)
CursorFine(c) ==
  /\ c.started <= c.mark /\ c.mark <= clock
  /\ shifted \/ (MarkPassed(c) /\ SeenDone(c))

Stored ==
  /\ cursor \in Cursors \cup {NoCursor}
  /\ cursor # NoCursor => CursorFine(cursor)
  /\ history \in [PullRequests -> Evidence \cup {NoRecord}]
  /\ tracking \in 0..branch /\ canonical \in 0..branch

Passes ==
  /\ ppc \in [Pollers -> PassPlaces]
  /\ base \in [Pollers -> Cursors \cup {NoCursor}]
  /\ page \in [Pollers -> 1..MaxPages]
  /\ updates \in [Pollers -> SUBSET Updates]
  /\ todo \in [Pollers -> SUBSET Updates]
  /\ terminal \in [Pollers -> SUBSET Updates]
  /\ evidence \in [Pollers -> Evidence]
  /\ newest \in [Pollers -> Commits]
  /\ pinned \in [Pollers -> Commits \X Commits]

\* A listed pull request that a paging pass has not read as it is was updated
\* since, or is still ahead of it.
Paged(q) ==
  \A p \in Listed :
    \/ Update(p) \in updates[q]
    \/ \A u \in updates[q] : u.updated <= hub[p].updated
    \/ page[q] <= Rank(p)

\* Once the last page is read, or it is older than the watermark.
WasRead(q) ==
  \A p \in Listed :
    \/ Update(p) \in updates[q]
    \/ \A u \in updates[q] : u.updated <= hub[p].updated
    \/ hub[p].updated < base[q].mark

\* Every candidate waits or has its record; what is terminal has one or is
\* older than the epoch.
Handled(q) ==
  /\ \A u \in Candidates(updates[q], base[q]) : u \in todo[q] \/ history[u.pr] # NoRecord
  /\ \A u \in todo[q] : u.merged
  /\ \A u \in terminal[q] : u.merged /\ (history[u.pr] # NoRecord \/ u.at < base[q].started)

PassOf(q) ==
  /\ IsFiniteSet(updates[q]) /\ todo[q] \subseteq updates[q] /\ terminal[q] \subseteq updates[q]
  /\ pinned[q][1] <= branch
  /\ \A u \in updates[q] :
       u.updated <= clock /\ (u.merged => hub[u.pr].state = "merged" /\ hub[u.pr].at = u.at)
  /\ ppc[q] = "idle" => updates[q] = {} /\ page[q] = 1
  /\ ppc[q] # "idle" => base[q] \in Cursors /\ CursorFine(base[q])
  /\ ppc[q] = "paging" =>
       (shifted \/ Paged(q)) /\ \A u \in updates[q] : base[q].mark <= u.updated
  /\ ppc[q] \notin {"idle", "paging"} => Handled(q) /\ (shifted \/ WasRead(q))
  /\ ppc[q] = "appending" => todo[q] # {}
  /\ ppc[q] \in {"fetching", "advancing", "storing"} => todo[q] = {}

ReconInd == World /\ Stored /\ Passes /\ \A q \in Pollers : PassOf(q)

-----------------------------------------------------------------------------
(* What every step leaves in order.                                        *)

LEMMA BranchInCommits ==
  ASSUME ReconAssumption, World
  PROVE  branch \in Nat /\ branch \in Commits /\ Commits \subseteq Nat
<1>1. MergedOnes \in SUBSET PullRequests
  BY DEF MergedOnes
<1>2. IsFiniteSet(MergedOnes) /\ Cardinality(MergedOnes) <= Cardinality(PullRequests)
  BY <1>1, FS_Subset DEF ReconAssumption
<1>3. Cardinality(MergedOnes) \in Nat /\ Cardinality(PullRequests) \in Nat
  BY <1>2, FS_CardinalityType DEF ReconAssumption
<1> QED
  BY <1>2, <1>3 DEF World, Commits

\* Time, merges and records only accumulate, and a pull request that changed
\* is open or was updated now.
Moved(x) ==
  \/ hub'[x] = hub[x]
  \/ hub'[x].state = "open" /\ hub[x].state # "merged"
  \/ /\ hub'[x].updated = clock
     /\ hub[x].state = "merged" => hub'[x].state = "merged" /\ hub'[x].at = hub[x].at
Grows ==
  /\ HubTyped'
  /\ clock' \in Times /\ clock <= clock' /\ branch' \in Nat /\ branch <= branch'
  /\ shifted => shifted'
  /\ \A x \in PullRequests : history[x] # NoRecord => history'[x] # NoRecord
  /\ \A x \in PullRequests : Moved(x)

\* CursorFine of the next state, for a cursor of this one.
StaysFine(c) ==
  /\ c.started <= c.mark /\ c.mark <= clock'
  /\ shifted' \/
       /\ \A p \in PullRequests :
            hub'[p].state = "merged" /\ c.started <= hub'[p].at /\ hub'[p].updated < c.mark
              => history'[p] # NoRecord
       /\ \A p \in c.seen : hub'[p].state = "merged" /\ (c.started <= hub'[p].at => history'[p] # NoRecord)

LEMMA CursorStays ==
  ASSUME ReconAssumption, World, Grows, NEW c \in Cursors, CursorFine(c)
  PROVE  StaysFine(c)
<1>1. c.started \in Nat /\ c.mark \in Nat /\ c.seen \subseteq PullRequests
  BY DEF Cursors, Times, ReconAssumption
<1>2. clock \in Nat /\ clock' \in Nat /\ clock <= clock'
  BY DEF World, Grows, Times, ReconAssumption
<1>3. c.started <= c.mark /\ c.mark <= clock /\ c.mark <= clock'
  BY <1>1, <1>2 DEF CursorFine
<1>4. ASSUME ~shifted', NEW p \in PullRequests, hub'[p].state = "merged", c.started <= hub'[p].at,
             hub'[p].updated < c.mark
      PROVE  history'[p] # NoRecord
  <2>1. Moved(p) /\ MarkPassed(c)
    BY <1>4 DEF Grows, CursorFine
  <2>2. hub'[p] = hub[p]
    BY <1>1, <1>2, <1>3, <1>4, <2>1 DEF Moved
  <2> QED
    BY <1>4, <2>1, <2>2 DEF MarkPassed, Grows
<1>5. ASSUME ~shifted', NEW p \in c.seen
      PROVE  hub'[p].state = "merged" /\ (c.started <= hub'[p].at => history'[p] # NoRecord)
  <2>1. p \in PullRequests /\ Moved(p) /\ SeenDone(c)
    BY <1>1, <1>5 DEF Grows, CursorFine
  <2> QED
    BY <1>5, <2>1 DEF Moved, SeenDone, Grows
<1> QED
  BY <1>3, <1>4, <1>5 DEF StaysFine

\* Ranks in a feed.
AheadIn(h, p) == {o \in PullRequests : h[o].state # "open" /\
                    (h[o].updated > h[p].updated \/ (h[o].updated = h[p].updated /\ o >= p))}

LEMMA RankIn ==
  ASSUME ReconAssumption
  PROVE  /\ \A p : Rank(p) = Cardinality(AheadIn(hub, p)) /\ Rank(p)' = Cardinality(AheadIn(hub', p))
         /\ \A h \in [PullRequests -> HubStates] : \A p \in PullRequests :
              /\ IsFiniteSet(AheadIn(h, p))
              /\ h[p].state # "open" => Cardinality(AheadIn(h, p)) \in Nat \ {0}
<1>1. \A p : Rank(p) = Cardinality(AheadIn(hub, p)) /\ Rank(p)' = Cardinality(AheadIn(hub', p))
  <2>1. TAKE p
  <2>2. {o \in Listed : hub[o].updated > hub[p].updated \/ (hub[o].updated = hub[p].updated /\ o >= p)}
          = AheadIn(hub, p)
    BY DEF Listed, AheadIn
  <2>3. {o \in Listed : hub[o].updated > hub[p].updated \/ (hub[o].updated = hub[p].updated /\ o >= p)}'
          = AheadIn(hub', p)
    BY DEF Listed, AheadIn
  <2> QED
    BY <2>2, <2>3 DEF Rank
<1>2. ASSUME NEW h \in [PullRequests -> HubStates], NEW p \in PullRequests
      PROVE  /\ IsFiniteSet(AheadIn(h, p))
             /\ h[p].state # "open" => Cardinality(AheadIn(h, p)) \in Nat \ {0}
  <2>1. AheadIn(h, p) \in SUBSET PullRequests
    BY DEF AheadIn
  <2>2. IsFiniteSet(AheadIn(h, p)) /\ Cardinality(AheadIn(h, p)) \in Nat
    BY <2>1, FS_Subset, FS_CardinalityType DEF ReconAssumption
  <2>3. h[p].state # "open" => p \in AheadIn(h, p)
    BY DEF AheadIn, HubStates, Times, ReconAssumption
  <2> QED
    BY <2>2, <2>3, FS_EmptySet
<1> QED
  BY <1>1, <1>2

\* A pass keeps its place in the feed.
PlaceKept(q) ==
  \/ shifted' \/ page[q] = 1
  \/ \A x \in PullRequests : hub[x].state # "open" /\ hub'[x] = hub[x] => Rank(x) <= Rank(x)'

Same(q) ==
  /\ ppc'[q] = ppc[q] /\ base'[q] = base[q] /\ page'[q] = page[q] /\ updates'[q] = updates[q]
  /\ todo'[q] = todo[q] /\ terminal'[q] = terminal[q] /\ pinned'[q] = pinned[q]

LEMMA PassStays ==
  ASSUME ReconAssumption, World, Passes, Grows, NEW q \in Pollers, Same(q), PassOf(q),
         ppc[q] = "paging" => PlaceKept(q)
  PROVE  PassOf(q)'
<1>1. /\ updates[q] \subseteq Updates /\ todo[q] \subseteq Updates /\ terminal[q] \subseteq Updates
      /\ page[q] \in Nat \ {0} /\ pinned[q][1] \in Nat
  BY BranchInCommits DEF Passes, ReconAssumption
<1>2. \A u \in Updates : u.pr \in PullRequests /\ u.updated \in Nat
  BY DEF Updates, Times, ReconAssumption
<1>3. clock \in Nat /\ clock' \in Nat /\ clock <= clock' /\ branch \in Nat /\ branch' \in Nat /\ branch <= branch'
  BY BranchInCommits DEF World, Grows, Times, ReconAssumption
<1>4. \A x \in PullRequests : hub'[x] = hub[x] => Update(x)' = Update(x)
  BY Zenon DEF Update
<1>5. \A u \in updates[q] :
        u.updated <= clock' /\ (u.merged => hub'[u.pr].state = "merged" /\ hub'[u.pr].at = u.at)
  <2>1. TAKE u \in updates[q]
  <2>2. u.updated <= clock' /\ Moved(u.pr)
    BY <1>1, <1>2, <1>3 DEF PassOf, Grows
  <2> QED
    BY <2>2 DEF PassOf, Moved
<1>6. ppc[q] # "idle" => base[q] \in Cursors /\ StaysFine(base[q])
  BY CursorStays DEF PassOf
<1>7. ppc[q] # "idle" => CursorFine(base[q])'
  BY <1>6 DEF Same, StaysFine, CursorFine, MarkPassed, SeenDone
<1>8. ASSUME NEW x \in PullRequests, hub'[x].state # "open", hub'[x] # hub[x]
      PROVE  \A u \in updates[q] : u.updated <= hub'[x].updated
  BY <1>8 DEF PassOf, Grows, Moved
<1>9. ASSUME ppc[q] = "paging", ~shifted' PROVE Paged(q)'
  <2> SUFFICES ASSUME NEW x \in PullRequests, hub'[x].state # "open"
               PROVE  \/ Update(x)' \in updates[q]
                      \/ \A u \in updates[q] : u.updated <= hub'[x].updated
                      \/ page[q] <= Rank(x)'
    BY DEF Paged, Listed, Same
  <2>1. CASE hub'[x] # hub[x]
    BY <1>8, <2>1
  <2>2. CASE hub'[x] = hub[x]
    <3>1. x \in Listed /\ Paged(q)
      BY <1>9, <2>2 DEF PassOf, Listed, Grows
    <3>2. Rank(x)' \in Nat \ {0} /\ Rank(x) \in Nat
      BY <3>1, RankIn DEF World, HubTyped, Grows, Listed
    <3>3. page[q] <= Rank(x) => page[q] <= Rank(x)'
      <4>1. page[q] = 1 \/ Rank(x) <= Rank(x)'
        BY <1>9, <2>2, <3>1 DEF PlaceKept, Listed
      <4> QED
        BY <1>1, <3>2, <4>1
    <3> QED
      BY <1>4, <2>2, <3>1, <3>3 DEF Paged
  <2> QED
    BY <2>1, <2>2
<1>10. ASSUME ppc[q] \notin {"idle", "paging"}, ~shifted' PROVE WasRead(q)'
  <2> SUFFICES ASSUME NEW x \in PullRequests, hub'[x].state # "open"
               PROVE  \/ Update(x)' \in updates[q]
                      \/ \A u \in updates[q] : u.updated <= hub'[x].updated
                      \/ hub'[x].updated < base[q].mark
    BY DEF WasRead, Listed, Same
  <2>1. CASE hub'[x] # hub[x]
    BY <1>8, <2>1
  <2>2. CASE hub'[x] = hub[x]
    <3>1. x \in Listed /\ WasRead(q)
      BY <1>10, <2>2 DEF PassOf, Listed, Grows
    <3> QED
      BY <1>4, <2>2, <3>1 DEF WasRead
  <2> QED
    BY <2>1, <2>2
<1>11. ASSUME ppc[q] \notin {"idle", "paging"} PROVE Handled(q)'
  <2>1. Handled(q)
    BY <1>11 DEF PassOf
  <2>2. Candidates(updates[q], base[q])' = Candidates(updates[q], base[q])
    BY DEF Same, Candidates, AfterCursor
  <2>3. \A u \in Candidates(updates[q], base[q]) : u \in Updates
    BY <1>1 DEF Candidates
  <2> QED
    BY <1>1, <1>2, <2>1, <2>2, <2>3 DEF Same, Handled, Grows
<1>12. pinned[q][1] <= branch'
  BY <1>1, <1>3 DEF PassOf
<1> QED
  BY <1>5, <1>6, <1>7, <1>9, <1>10, <1>11, <1>12 DEF PassOf, Same


-----------------------------------------------------------------------------
(* The steps of a pass.                                                    *)

LEMMA EndedPass ==
  ASSUME ReconAssumption, World, Passes, NEW q \in Pollers, PassEnds(q), branch' = branch
  PROVE  Passes' /\ PassOf(q)'
<1>1. NoEvidence \in Evidence /\ 0 \in Commits /\ 1 \in 1..MaxPages /\ branch \in Nat
  <2>1. NoEvidence \in Evidence
    BY DEF NoEvidence, Evidence
  <2> QED
    BY <2>1, BranchInCommits, FS_CardinalityType DEF Commits, ReconAssumption
<1>2. Passes'
  BY <1>1 DEF Passes, PassEnds, Steps, PassPlaces
<1>3. /\ ppc'[q] = "idle" /\ updates'[q] = {} /\ page'[q] = 1 /\ todo'[q] = {} /\ terminal'[q] = {}
      /\ pinned'[q][1] = 0
  BY DEF PassEnds, Steps, Passes
<1>4. IsFiniteSet({})
  BY FS_EmptySet
<1> QED
  BY <1>1, <1>2, <1>3, <1>4 DEF PassOf

\* Nothing outside changes, and records stay.
Inside ==
  /\ UNCHANGED hubState /\ shifted' = shifted
  /\ \A x \in PullRequests : history[x] # NoRecord => history'[x] # NoRecord

LEMMA InsideStep ==
  ASSUME ReconAssumption, World, Passes, Inside, failures' \in 0..MaxFailures
  PROVE  /\ World' /\ Grows
         /\ \A q : PlaceKept(q)
         /\ \A p \in PullRequests : Update(p)' = Update(p)
         /\ Listed' = Listed
<1>1. hub' = hub /\ clock' = clock /\ branch' = branch /\ shifted' = shifted
  BY DEF Inside, hubState
<1>2. World'
  BY <1>1 DEF World, Inside, hubState, HubTyped, MergedOnes
<1>3. Grows
  BY <1>1, BranchInCommits DEF Grows, World, Inside, Moved, HubTyped, Times, ReconAssumption
<1>4. \A x : Rank(x)' = Rank(x)
  BY <1>1, RankIn
<1>5. \A x \in PullRequests : hub[x].state # "open" => Rank(x) <= Rank(x)'
  BY <1>4, RankIn DEF World, HubTyped
<1>6. \A q : PlaceKept(q)
  BY <1>5 DEF PlaceKept
<1>7. (\A p \in PullRequests : Update(p)' = Update(p)) /\ Listed' = Listed
  BY <1>1 DEF Update, Listed
<1> QED
  BY <1>2, <1>3, <1>6, <1>7

\* The passes of the other pollers.
LEMMA OthersStay ==
  ASSUME ReconAssumption, World, Passes, Inside, failures' \in 0..MaxFailures,
         \A o \in Pollers : PassOf(o), NEW q \in Pollers,
         \A o \in Pollers \ {q} : Same(o), PassOf(q)'
  PROVE  \A o \in Pollers : PassOf(o)'
<1>1. ASSUME NEW o \in Pollers \ {q} PROVE PassOf(o)'
  <2>1. Grows /\ PlaceKept(o)
    BY InsideStep
  <2> QED
    BY <2>1, PassStays
<1> QED
  BY <1>1

LEMMA StoredStays ==
  ASSUME ReconAssumption, World, Stored, Grows, UNCHANGED cursor,
         history' \in [PullRequests -> Evidence \cup {NoRecord}],
         tracking' \in 0..branch', canonical' \in 0..branch'
  PROVE  Stored'
<1>1. cursor # NoCursor => cursor \in Cursors /\ StaysFine(cursor)
  BY CursorStays DEF Stored
<1>2. cursor # NoCursor => CursorFine(cursor)'
  BY <1>1 DEF StaysFine, CursorFine, MarkPassed, SeenDone
<1> QED
  BY <1>2 DEF Stored

LEMMA StartPassKeeps ==
  ASSUME ReconAssumption, ReconInd, NEW q \in Pollers, StartPass(q)
  PROVE  ReconInd'
<1> DEFINE c == IF cursor # NoCursor THEN cursor ELSE [started |-> clock, mark |-> clock, seen |-> {}]
<1>1. /\ ppc[q] = "idle" /\ cursor' = c /\ base' = [base EXCEPT ![q] = c]
      /\ evidence' = [evidence EXCEPT ![q].policy = policy] /\ Steps(q, "paging")
      /\ UNCHANGED <<hubState, failures, history, tracking, canonical, page, updates, todo, terminal,
                     newest, pinned, shifted>>
  BY DEF StartPass
<1>2. World /\ Stored /\ Passes /\ PassOf(q) /\ \A o \in Pollers : PassOf(o)
  BY DEF ReconInd
<1>3. Inside /\ failures' \in 0..MaxFailures
  BY <1>1, <1>2 DEF Inside, World
<1>4. World' /\ Grows
  BY <1>2, <1>3, InsideStep
<1>5. c \in Cursors /\ CursorFine(c)
  <2>1. CASE cursor # NoCursor
    BY <1>2, <2>1 DEF Stored
  <2>2. CASE cursor = NoCursor
    <3>1. c = [started |-> clock, mark |-> clock, seen |-> {}] /\ clock \in Times
      BY <1>2, <2>2 DEF World
    <3> HIDE DEF c
    <3>2. c \in Cursors /\ c.started = clock /\ c.mark = clock /\ c.seen = {}
      BY <3>1 DEF Cursors
    <3>3. \A p \in PullRequests : hub[p].at \in Nat /\ hub[p].updated \in Nat /\ hub[p].at <= hub[p].updated
      BY <1>2 DEF World, HubTyped, HubStates, Times, ReconAssumption
    <3>4. clock \in Nat
      BY <3>1 DEF Times, ReconAssumption
    <3>5. MarkPassed(c) /\ SeenDone(c)
      BY <3>2, <3>3, <3>4 DEF MarkPassed, SeenDone
    <3> QED
      BY <3>2, <3>4, <3>5 DEF CursorFine
  <2> QED
    BY <2>1, <2>2
<1> HIDE DEF c
<1>6. StaysFine(c)
  BY <1>2, <1>4, <1>5, CursorStays
<1>7. Stored'
  <2>1. cursor' = c /\ CursorFine(cursor)'
    BY <1>1, <1>6 DEF StaysFine, CursorFine, MarkPassed, SeenDone
  <2> QED
    BY <1>1, <1>2, <1>5, <2>1 DEF Stored, hubState
<1>8. Passes'
  <2>1. evidence' \in [Pollers -> Evidence]
    BY <1>1, <1>2 DEF Passes, Evidence, World
  <2> QED
    BY <1>1, <1>2, <1>5, <2>1 DEF Passes, Steps, PassPlaces
<1>9. PassOf(q)'
  <2>1. /\ ppc'[q] = "paging" /\ base'[q] = c /\ page'[q] = page[q] /\ updates'[q] = {}
        /\ todo'[q] = {} /\ terminal'[q] = {} /\ pinned'[q] = pinned[q] /\ branch' = branch
    BY <1>1, <1>2 DEF Passes, Steps, PassOf, hubState
  <2>2. CursorFine(base[q])'
    BY <1>6, <2>1 DEF StaysFine, CursorFine, MarkPassed, SeenDone
  <2>3. Paged(q)'
    BY <2>1 DEF Paged
  <2>4. IsFiniteSet({})
    BY FS_EmptySet
  <2> QED
    BY <1>2, <1>5, <2>1, <2>2, <2>3, <2>4 DEF PassOf
<1>10. \A o \in Pollers \ {q} : Same(o)
  BY <1>1, <1>2 DEF Passes, Steps, Same
<1> QED
  BY <1>2, <1>3, <1>4, <1>7, <1>8, <1>9, <1>10, OthersStay DEF ReconInd


\* What a pass has read once it has read its next page.
Reads(q) == updates[q] \cup {Update(p) : p \in OnPage(page[q])}

LEMMA ReadIs ==
  ASSUME ReconAssumption, World, Passes, NEW q \in Pollers, PassOf(q)
  PROVE  /\ Reads(q) \subseteq Updates /\ IsFiniteSet(Reads(q)) /\ updates[q] \subseteq Reads(q)
         /\ \A u \in Reads(q) :
              u.updated <= clock /\ (u.merged => hub[u.pr].state = "merged" /\ hub[u.pr].at = u.at)
         /\ \A u \in Reads(q) \ updates[q] : \E o \in OnPage(page[q]) : u = Update(o)
         /\ OnPage(page[q]) \subseteq Listed /\ \A o \in OnPage(page[q]) : Update(o) \in Reads(q)
<1> DEFINE P == OnPage(page[q])
           f == [o \in P |-> Update(o)]
           T == {Update(o) : o \in P}
<1>1. P \subseteq Listed /\ P \in SUBSET PullRequests /\ HubTyped
  BY DEF OnPage, Listed, World
<1>2. IsFiniteSet(T)
  <2>1. f \in Surjection(P, T)
    BY DEF Surjection
  <2>2. IsFiniteSet(P)
    BY <1>1, FS_Subset DEF ReconAssumption
  <2> HIDE DEF f, P, T
  <2> QED
    BY <2>1, <2>2, FS_Surjection
<1>3. IsFiniteSet(updates[q] \cup T)
  <2> HIDE DEF T
  <2> QED
    BY <1>2, FS_Union DEF PassOf
<1>4. \A o \in P : /\ Update(o) \in Updates /\ Update(o).updated <= clock
                   /\ Update(o).merged => hub[Update(o).pr].state = "merged" /\ hub[Update(o).pr].at = Update(o).at
  <2>1. TAKE o \in P
  <2>2. hub[o].updated <= clock
    BY <1>1 DEF World
  <2> QED
    BY <1>1, <2>2, UpdateIs
<1>5. updates[q] \subseteq Updates
  BY DEF Passes
<1>6. \A u \in T : \E o \in P : u = Update(o)
  OBVIOUS
<1>7. Reads(q) = updates[q] \cup T
  BY DEF Reads
<1>8. \A o \in P : Update(o) \in T
  OBVIOUS
<1> HIDE DEF P, T
<1>9. \A u \in updates[q] :
        u.updated <= clock /\ (u.merged => hub[u.pr].state = "merged" /\ hub[u.pr].at = u.at)
  BY DEF PassOf
<1> QED
  BY <1>1, <1>3, <1>4, <1>5, <1>6, <1>7, <1>8, <1>9 DEF P

LEMMA ReadAhead ==
  ASSUME ReconAssumption, World, Passes, NEW q \in Pollers, PassOf(q), Paged(q), NEW p \in Listed
  PROVE  \/ Update(p) \in Reads(q)
         \/ \A u \in Reads(q) : u.updated <= hub[p].updated
         \/ page[q] + 1 <= Rank(p)
<1>1. HubTyped /\ page[q] \in Nat \ {0} /\ p \in PullRequests /\ Rank(p) \in Nat
  BY RankCounts DEF World, Passes, ReconAssumption, Listed
<1>2. \/ Update(p) \in updates[q]
      \/ \A u \in updates[q] : u.updated <= hub[p].updated
      \/ page[q] <= Rank(p)
  BY DEF Paged
<1>3. CASE Rank(p) = page[q]
  BY <1>3, ReadIs DEF OnPage
<1>4. CASE Rank(p) > page[q]
  BY <1>1, <1>4
<1>5. CASE Rank(p) < page[q]
  <2>1. CASE Update(p) \in updates[q]
    BY <2>1, ReadIs
  <2>2. CASE \A u \in updates[q] : u.updated <= hub[p].updated
    <3>1. ASSUME NEW o \in OnPage(page[q]) PROVE hub[o].updated <= hub[p].updated
      <4>1. o \in Listed /\ Rank(o) = page[q]
        BY <3>1 DEF OnPage
      <4>2. ~(o \in Ahead(p) /\ o # p) /\ o # p
        BY <1>1, <1>5, <4>1, RankCounts
      <4>3. hub[o].updated \in Nat /\ hub[p].updated \in Nat
        BY <1>1, <4>1, FeedOrder
      <4> QED
        BY <4>1, <4>2, <4>3 DEF Ahead
    <3>2. \A o \in OnPage(page[q]) : Update(o).updated = hub[o].updated
      BY <1>1, UpdateIs DEF OnPage, Listed
    <3> QED
      BY <2>2, <3>1, <3>2, ReadIs
  <2> QED
    BY <1>1, <1>2, <1>5, <2>1, <2>2
<1> QED
  BY <1>1, <1>3, <1>4, <1>5

LastPage(q) == OnPage(page[q]) = {} \/ \E u \in Reads(q) : u.updated < base[q].mark

LEMMA LastPageRead ==
  ASSUME ReconAssumption, World, Passes, NEW q \in Pollers, PassOf(q), Paged(q), LastPage(q),
         ppc[q] = "paging", NEW p \in Listed
  PROVE  \/ Update(p) \in Reads(q)
         \/ \A u \in Reads(q) : u.updated <= hub[p].updated
         \/ hub[p].updated < base[q].mark
<1>1. HubTyped /\ page[q] \in Nat \ {0} /\ Rank(p) \in Nat
  BY RankCounts DEF World, Passes, ReconAssumption
<1> SUFFICES ASSUME page[q] + 1 <= Rank(p) PROVE hub[p].updated < base[q].mark
  BY ReadAhead
<1>2. OnPage(page[q]) # {}
  <2>1. page[q] <= Rank(p)
    BY <1>1
  <2> QED
    BY <1>1, <2>1, PagesAreFull
<1>3. PICK u \in Reads(q) : u.updated < base[q].mark
  BY <1>2 DEF LastPage
<1>4. base[q].mark \in Nat /\ \A v \in Updates : v.updated \in Nat
  BY DEF PassOf, Cursors, Updates, Times, ReconAssumption
<1>5. u \notin updates[q]
  BY <1>3, <1>4, ReadIs DEF PassOf
<1>6. PICK o \in OnPage(page[q]) : u = Update(o)
  BY <1>3, <1>5, ReadIs
<1>7. o \in Listed /\ Rank(o) = page[q] /\ o \in PullRequests
  BY <1>6 DEF OnPage, Listed
<1>8. ~(p \in Ahead(o) /\ p # o) /\ p # o
  BY <1>1, <1>7, RankCounts
<1>9. hub[o].updated \in Nat /\ hub[p].updated \in Nat
  BY <1>1, <1>7, FeedOrder
<1>10. hub[p].updated <= hub[o].updated
  BY <1>1, <1>7, <1>8, <1>9 DEF Ahead
<1>11. u.updated = hub[o].updated
  BY <1>1, <1>6, <1>7, UpdateIs
<1> QED
  BY <1>3, <1>4, <1>9, <1>10, <1>11

LEMMA ReadPageIs ==
  ASSUME NEW q \in Pollers, ReadPage(q)
  PROVE  /\ ppc[q] = "paging" /\ UNCHANGED <<hubState, failures, durable, shifted>>
         /\ \/ /\ LastPage(q)
               /\ updates' = [updates EXCEPT ![q] = Reads(q)]
               /\ todo' = [todo EXCEPT ![q] = Candidates(Reads(q), base[q])]
               /\ terminal' = [terminal EXCEPT ![q] = Historical(Reads(q), base[q])]
               /\ Steps(q, "picking") /\ UNCHANGED <<base, page, evidence, newest, pinned>>
            \/ PassEnds(q)
            \/ /\ ~LastPage(q) /\ page[q] # MaxPages
               /\ updates' = [updates EXCEPT ![q] = Reads(q)]
               /\ page' = [page EXCEPT ![q] = @ + 1]
               /\ UNCHANGED <<ppc, base, todo, terminal, evidence, newest, pinned>>
<1>1. CASE LastPage(q)
  BY <1>1, Zenon DEF ReadPage, LastPage, Reads
<1>2. CASE ~LastPage(q) /\ page[q] = MaxPages
  BY <1>2, Zenon DEF ReadPage, LastPage, Reads
<1>3. CASE ~LastPage(q) /\ page[q] # MaxPages
  BY <1>3, Zenon DEF ReadPage, LastPage, Reads
<1> QED
  BY <1>1, <1>2, <1>3


LEMMA BaseStays ==
  ASSUME ReconAssumption, World, Passes, Inside, failures' \in 0..MaxFailures,
         NEW q \in Pollers, PassOf(q), ppc[q] # "idle", base'[q] = base[q]
  PROVE  base[q] \in Cursors /\ CursorFine(base[q])'
<1>1. base[q] \in Cursors /\ CursorFine(base[q])
  BY DEF PassOf
<1>2. StaysFine(base[q])
  BY <1>1, InsideStep, CursorStays
<1> QED
  BY <1>1, <1>2 DEF StaysFine, CursorFine, MarkPassed, SeenDone

\* The records and the cursor stay, so the step only moves this pass.
LEMMA PassMoves ==
  ASSUME ReconAssumption, ReconInd, Inside, failures' \in 0..MaxFailures, NEW q \in Pollers,
         UNCHANGED cursor, history' \in [PullRequests -> Evidence \cup {NoRecord}],
         tracking' \in 0..branch, canonical' \in 0..branch,
         Passes', PassOf(q)', \A o \in Pollers \ {q} : Same(o)
  PROVE  ReconInd'
<1>1. World /\ Stored /\ Passes /\ \A o \in Pollers : PassOf(o)
  BY DEF ReconInd
<1>2. World' /\ Grows /\ branch' = branch
  BY <1>1, InsideStep DEF Inside, hubState
<1>3. Stored'
  BY <1>1, <1>2, StoredStays
<1>4. \A o \in Pollers : PassOf(o)'
  BY <1>1, OthersStay
<1> QED
  BY <1>2, <1>3, <1>4 DEF ReconInd

LEMMA OnlyThis ==
  ASSUME Passes, NEW q \in Pollers, PassEnds(q)
  PROVE  \A o \in Pollers \ {q} : Same(o)
BY DEF Passes, PassEnds, Steps, Same

LEMMA ReadPageKeeps ==
  ASSUME ReconAssumption, ReconInd, NEW q \in Pollers, ReadPage(q)
  PROVE  ReconInd'
<1>1. World /\ Stored /\ Passes /\ PassOf(q)
  BY DEF ReconInd
<1>2. /\ ppc[q] = "paging" /\ UNCHANGED <<hubState, failures, durable, shifted>>
      /\ hub' = hub /\ clock' = clock /\ branch' = branch
  BY ReadPageIs DEF hubState
<1>3. Inside /\ failures' \in 0..MaxFailures
  BY <1>1, <1>2 DEF Inside, World, durable
<1>4. World' /\ Listed' = Listed /\ (\A p \in PullRequests : Update(p)' = Update(p))
  BY <1>1, <1>3, InsideStep
<1>5. /\ UNCHANGED cursor /\ history' \in [PullRequests -> Evidence \cup {NoRecord}]
      /\ tracking' \in 0..branch /\ canonical' \in 0..branch
  BY <1>1, <1>2 DEF Stored, durable
<1>6. base[q] \in Cursors /\ (base'[q] = base[q] => CursorFine(base[q])')
  <2>1. base[q] \in Cursors
    BY <1>1, <1>2 DEF PassOf
  <2>2. ASSUME base'[q] = base[q] PROVE CursorFine(base[q])'
    BY <1>1, <1>2, <1>3, <2>2, BaseStays
  <2> QED
    BY <2>1, <2>2
<1>7. /\ Reads(q) \subseteq Updates /\ IsFiniteSet(Reads(q))
      /\ \A u \in Reads(q) :
           u.updated <= clock /\ (u.merged => hub[u.pr].state = "merged" /\ hub[u.pr].at = u.at)
  BY <1>1, ReadIs
<1>8. pinned[q][1] <= branch /\ page[q] \in 1..MaxPages
  BY <1>1 DEF PassOf, Passes
<1>9. CASE PassEnds(q)
  BY <1>1, <1>2, <1>3, <1>5, <1>9, EndedPass, OnlyThis, PassMoves
<1>10. CASE /\ LastPage(q)
            /\ updates' = [updates EXCEPT ![q] = Reads(q)]
            /\ todo' = [todo EXCEPT ![q] = Candidates(Reads(q), base[q])]
            /\ terminal' = [terminal EXCEPT ![q] = Historical(Reads(q), base[q])]
            /\ Steps(q, "picking") /\ UNCHANGED <<base, page, evidence, newest, pinned>>
  <2>1. Candidates(Reads(q), base[q]) \subseteq Reads(q) /\ Historical(Reads(q), base[q]) \subseteq Reads(q)
    BY DEF Candidates, Historical
  <2>2. Passes'
    BY <1>1, <1>7, <1>10, <2>1 DEF Passes, Steps, PassPlaces
  <2>3. /\ ppc'[q] = "picking" /\ updates'[q] = Reads(q) /\ base'[q] = base[q] /\ page'[q] = page[q]
        /\ todo'[q] = Candidates(Reads(q), base[q]) /\ terminal'[q] = Historical(Reads(q), base[q])
        /\ pinned'[q] = pinned[q]
    BY <1>1, <1>10 DEF Passes, Steps
  <2>4. \A o \in Pollers \ {q} : Same(o)
    BY <1>1, <1>10 DEF Passes, Steps, Same
  <2>5. ASSUME ~shifted' PROVE WasRead(q)'
    <3>1. Paged(q)
      BY <1>1, <1>2, <2>5 DEF PassOf
    <3>2. \A p \in Listed : \/ Update(p) \in Reads(q)
                            \/ \A u \in Reads(q) : u.updated <= hub[p].updated
                            \/ hub[p].updated < base[q].mark
      BY <1>1, <1>2, <1>10, <3>1, LastPageRead
    <3>3. Listed \subseteq PullRequests
      BY DEF Listed
    <3> QED
      BY <1>2, <1>4, <2>3, <3>2, <3>3 DEF WasRead
  <2>6. Handled(q)'
    <3>1. Candidates(updates[q], base[q])' = Candidates(Reads(q), base[q])
      BY <2>3 DEF Candidates, AfterCursor
    <3>2. \A u \in Candidates(Reads(q), base[q]) : u.merged
      BY DEF Candidates
    <3>3. \A u \in Historical(Reads(q), base[q]) : u.merged /\ u.at < base[q].started
      BY DEF Historical
    <3> QED
      BY <2>3, <3>1, <3>2, <3>3 DEF Handled
  <2>7. PassOf(q)'
    BY <1>2, <1>6, <1>7, <1>8, <2>1, <2>3, <2>5, <2>6 DEF PassOf
  <2> QED
    BY <1>3, <1>5, <2>2, <2>4, <2>7, PassMoves
<1>11. CASE /\ ~LastPage(q) /\ page[q] # MaxPages
            /\ updates' = [updates EXCEPT ![q] = Reads(q)]
            /\ page' = [page EXCEPT ![q] = @ + 1]
            /\ UNCHANGED <<ppc, base, todo, terminal, evidence, newest, pinned>>
  <2>1. page[q] + 1 \in 1..MaxPages
    BY <1>8, <1>11 DEF ReconAssumption
  <2>2. Passes'
    BY <1>1, <1>7, <1>11, <2>1 DEF Passes
  <2>3. /\ ppc'[q] = "paging" /\ updates'[q] = Reads(q) /\ base'[q] = base[q] /\ page'[q] = page[q] + 1
        /\ todo'[q] = todo[q] /\ terminal'[q] = terminal[q] /\ pinned'[q] = pinned[q]
    BY <1>1, <1>2, <1>11 DEF Passes
  <2>4. \A o \in Pollers \ {q} : Same(o)
    BY <1>1, <1>11 DEF Passes, Same
  <2>5. ASSUME ~shifted' PROVE Paged(q)'
    <3>1. Paged(q)
      BY <1>1, <1>2, <2>5 DEF PassOf
    <3>2. \A p \in Listed : \/ Update(p) \in Reads(q)
                            \/ \A u \in Reads(q) : u.updated <= hub[p].updated
                            \/ page[q] + 1 <= Rank(p)
      BY <1>1, <3>1, ReadAhead
    <3>3. Listed \subseteq PullRequests /\ \A p : Rank(p)' = Rank(p)
      BY <1>2, RankIn DEF Listed
    <3> QED
      BY <1>2, <1>4, <2>3, <3>2, <3>3 DEF Paged
  <2>6. \A u \in Reads(q) : base[q].mark <= u.updated
    <3>1. base[q].mark \in Nat /\ \A u \in Updates : u.updated \in Nat
      BY <1>6 DEF Cursors, Updates, Times, ReconAssumption
    <3> QED
      BY <1>7, <1>11, <3>1 DEF LastPage
  <2>7. todo[q] \subseteq Reads(q) /\ terminal[q] \subseteq Reads(q)
    BY <1>1, ReadIs DEF PassOf
  <2>8. PassOf(q)'
    BY <1>2, <1>6, <1>7, <1>8, <2>3, <2>5, <2>6, <2>7 DEF PassOf
  <2> QED
    BY <1>3, <1>5, <2>2, <2>4, <2>8, PassMoves
<1> QED
  BY <1>9, <1>10, <1>11, ReadPageIs


\* A step that leaves the reads of its pass and the records alone.
LEMMA ReadsStay ==
  ASSUME ReconAssumption, World, Passes, Inside, failures' \in 0..MaxFailures, NEW q \in Pollers, PassOf(q),
         ppc[q] \notin {"idle", "paging"}, ppc'[q] \in PassPlaces \ {"idle", "paging"},
         base'[q] = base[q], page'[q] = page[q], updates'[q] = updates[q], terminal'[q] \subseteq updates[q],
         todo'[q] \subseteq todo[q], pinned'[q][1] <= branch,
         \A u \in todo[q] : u \in todo'[q] \/ history'[u.pr] # NoRecord,
         \A u \in terminal'[q] : u \in terminal[q] \/ (u \in todo[q] /\ history'[u.pr] # NoRecord),
         ppc'[q] = "appending" => todo'[q] # {},
         ppc'[q] \in {"fetching", "advancing", "storing"} => todo'[q] = {}
  PROVE  PassOf(q)'
<1>1. /\ hub' = hub /\ clock' = clock /\ branch' = branch /\ shifted' = shifted /\ Listed' = Listed
      /\ \A p \in PullRequests : Update(p)' = Update(p)
  BY InsideStep DEF Inside, hubState
<1>2. base[q] \in Cursors /\ CursorFine(base[q])'
  BY BaseStays
<1>3. Handled(q) /\ (shifted \/ WasRead(q)) /\ updates[q] \subseteq Updates /\ todo[q] \subseteq updates[q]
      /\ terminal[q] \subseteq updates[q]
  BY DEF PassOf, Passes
<1>4. \A u \in Updates : u.pr \in PullRequests
  BY DEF Updates
<1>5. ASSUME ~shifted' PROVE WasRead(q)'
  <2>1. Listed \subseteq PullRequests
    BY DEF Listed
  <2> QED
    BY <1>1, <1>3, <1>5, <2>1 DEF WasRead
<1>6. Handled(q)'
  <2>1. Candidates(updates[q], base[q])' = Candidates(updates[q], base[q])
    BY DEF Candidates, AfterCursor
  <2>2. Candidates(updates[q], base[q]) \subseteq updates[q]
    BY DEF Candidates
  <2>3. \A u \in updates[q] : history[u.pr] # NoRecord => history'[u.pr] # NoRecord
    BY <1>3, <1>4 DEF Inside
  <2>4. \A u \in Candidates(updates[q], base[q]) : u \in todo'[q] \/ history'[u.pr] # NoRecord
    BY <1>3, <2>2, <2>3 DEF Handled
  <2>5. \A u \in terminal'[q] : u.merged /\ (history'[u.pr] # NoRecord \/ u.at < base[q].started)
    BY <1>3, <2>3 DEF Handled
  <2>6. \A u \in todo'[q] : u.merged
    BY <1>3 DEF Handled
  <2> QED
    BY <2>1, <2>4, <2>5, <2>6 DEF Handled
<1> QED
  BY <1>1, <1>2, <1>3, <1>5, <1>6 DEF PassOf

LEMMA PickKeeps ==
  ASSUME ReconAssumption, ReconInd, NEW q \in Pollers, Pick(q)
  PROVE  ReconInd'
<1>1. World /\ Stored /\ Passes /\ PassOf(q)
  BY DEF ReconInd
<1>2. /\ ppc[q] = "picking"
      /\ UNCHANGED <<hubState, failures, durable, base, page, updates, todo, terminal, newest, pinned, shifted>>
      /\ \/ /\ todo[q] = {} /\ UNCHANGED evidence
            /\ Steps(q, "storing") \/ Steps(q, "fetching")
         \/ /\ todo[q] # {} /\ Steps(q, "appending")
            /\ \E b \in BOOLEAN : evidence' = [evidence EXCEPT ![q].receipt = b]
  <2> DEFINE b == Earliest(todo[q]).pr \in receipted
  <2>1. b \in BOOLEAN
    OBVIOUS
  <2>2. CASE todo[q] = {}
    BY <2>2, Zenon DEF Pick
  <2>3. CASE todo[q] # {}
    BY <2>1, <2>3, Zenon DEF Pick
  <2> QED
    BY <2>2, <2>3, Zenon DEF Pick
<1>3. Inside /\ failures' \in 0..MaxFailures
  BY <1>1, <1>2 DEF Inside, World, durable
<1>4. /\ UNCHANGED cursor /\ history' \in [PullRequests -> Evidence \cup {NoRecord}]
      /\ tracking' \in 0..branch /\ canonical' \in 0..branch
  BY <1>1, <1>2 DEF Stored, durable
<1>5. Passes'
  <2>1. evidence' \in [Pollers -> Evidence]
    <3>1. ASSUME NEW b \in BOOLEAN, evidence' = [evidence EXCEPT ![q].receipt = b]
          PROVE  evidence' \in [Pollers -> Evidence]
      BY <1>1, <3>1 DEF Passes, Evidence
    <3>2. evidence \in [Pollers -> Evidence]
      BY <1>1 DEF Passes
    <3> QED
      BY <1>2, <3>1, <3>2
  <2> QED
    BY <1>1, <1>2, <2>1 DEF Passes, Steps, PassPlaces
<1>6. /\ ppc'[q] \in PassPlaces \ {"idle", "paging"}
      /\ ppc'[q] = "appending" => todo[q] # {}
      /\ ppc'[q] \in {"fetching", "advancing", "storing"} => todo[q] = {}
  BY <1>1, <1>2 DEF Passes, Steps, PassPlaces
<1>7. PassOf(q)'
  <2>1. /\ base'[q] = base[q] /\ page'[q] = page[q] /\ updates'[q] = updates[q] /\ terminal'[q] = terminal[q]
        /\ todo'[q] = todo[q] /\ pinned'[q] = pinned[q] /\ pinned[q][1] <= branch
        /\ terminal[q] \subseteq updates[q]
    BY <1>1, <1>2 DEF PassOf
  <2> QED
    BY <1>1, <1>2, <1>3, <1>6, <2>1, ReadsStay
<1>8. \A o \in Pollers \ {q} : Same(o)
  BY <1>1, <1>2 DEF Passes, Steps, Same
<1> QED
  BY <1>3, <1>4, <1>5, <1>7, <1>8, PassMoves


LEMMA AppendRecordKeeps ==
  ASSUME ReconAssumption, ReconInd, NEW q \in Pollers, AppendRecord(q)
  PROVE  ReconInd'
<1> DEFINE u == Earliest(todo[q])
           e == evidence[q]
<1>1. World /\ Stored /\ Passes /\ PassOf(q)
  BY DEF ReconInd
<1>2. /\ ppc[q] = "appending" /\ UNCHANGED <<hubState, failures, cursor, tracking, canonical, shifted>>
      /\ \/ PassEnds(q) /\ UNCHANGED history
         \/ /\ history' = [history EXCEPT ![u.pr] = e]
            /\ todo' = [todo EXCEPT ![q] = @ \ {u}] /\ terminal' = [terminal EXCEPT ![q] = @ \cup {u}]
            /\ newest' \in {[newest EXCEPT ![q] = u.commit], newest}
            /\ Steps(q, "picking") /\ UNCHANGED <<base, page, updates, evidence, pinned>>
  <2>1. ppc[q] = "appending" /\ UNCHANGED <<hubState, failures, cursor, tracking, canonical, shifted>>
    BY DEF AppendRecord
  <2>2. CASE Conflicts(u.pr, e)
    BY <2>1, <2>2, Zenon DEF AppendRecord
  <2>3. CASE ~Conflicts(u.pr, e)
    <3>1. /\ history' = [history EXCEPT ![u.pr] = e]
          /\ todo' = [todo EXCEPT ![q] = @ \ {u}] /\ terminal' = [terminal EXCEPT ![q] = @ \cup {u}]
          /\ newest' = IF e.receipt /\ \A v \in updates[q] : v.commit = newest[q] => v.at <= u.at
                         THEN [newest EXCEPT ![q] = u.commit] ELSE newest
          /\ Steps(q, "picking") /\ UNCHANGED <<base, page, updates, evidence, pinned>>
      BY <2>3, Zenon DEF AppendRecord
    <3>2. newest' \in {[newest EXCEPT ![q] = u.commit], newest}
      BY <3>1, Zenon
    <3> QED
      BY <2>1, <3>1, <3>2
  <2> QED
    BY <2>2, <2>3
<1> HIDE DEF u, e
<1>3. u \in todo[q] /\ u \in updates[q] /\ u \in Updates /\ u.pr \in PullRequests /\ u.commit \in Commits
  <2>1. todo[q] # {} /\ todo[q] \subseteq Updates /\ todo[q] \subseteq updates[q] /\ IsFiniteSet(todo[q])
    BY <1>1, <1>2, FS_Subset DEF PassOf, Passes
  <2>2. u \in todo[q]
    BY <2>1, EarliestIsThere DEF u
  <2> QED
    BY <2>1, <2>2 DEF Updates
<1>4. e \in Evidence /\ e # NoRecord
  BY <1>1 DEF e, Passes, ReconAssumption
<1>5. /\ Inside /\ failures' \in 0..MaxFailures
      /\ UNCHANGED cursor /\ history' \in [PullRequests -> Evidence \cup {NoRecord}]
      /\ tracking' \in 0..branch /\ canonical' \in 0..branch /\ branch' = branch
  <2>1. /\ history' \in [PullRequests -> Evidence \cup {NoRecord}]
        /\ \A x \in PullRequests : history[x] # NoRecord => history'[x] # NoRecord
    BY <1>1, <1>2, <1>3, <1>4 DEF Stored
  <2> QED
    BY <1>1, <1>2, <2>1 DEF Inside, World, Stored, hubState
<1>6. CASE PassEnds(q)
  BY <1>1, <1>5, <1>6, EndedPass, OnlyThis, PassMoves
<1>7. CASE /\ history' = [history EXCEPT ![u.pr] = e]
           /\ todo' = [todo EXCEPT ![q] = @ \ {u}] /\ terminal' = [terminal EXCEPT ![q] = @ \cup {u}]
           /\ newest' \in {[newest EXCEPT ![q] = u.commit], newest}
           /\ Steps(q, "picking") /\ UNCHANGED <<base, page, updates, evidence, pinned>>
  <2>1. newest' \in [Pollers -> Commits]
    BY <1>1, <1>3, <1>7 DEF Passes
  <2>2. /\ todo' \in [Pollers -> SUBSET Updates] /\ terminal' \in [Pollers -> SUBSET Updates]
        /\ todo'[q] = todo[q] \ {u} /\ terminal'[q] = terminal[q] \cup {u}
    BY <1>1, <1>3, <1>7 DEF Passes
  <2>3. Passes'
    BY <1>1, <1>7, <2>1, <2>2 DEF Passes, Steps, PassPlaces
  <2>4. /\ ppc'[q] = "picking" /\ base'[q] = base[q] /\ page'[q] = page[q] /\ updates'[q] = updates[q]
        /\ pinned'[q] = pinned[q] /\ pinned[q][1] <= branch
    BY <1>1, <1>7 DEF Passes, Steps, PassOf
  <2>5. history'[u.pr] # NoRecord
    BY <1>1, <1>3, <1>4, <1>7 DEF Stored
  <2>6. terminal[q] \subseteq updates[q]
    BY <1>1 DEF PassOf
  <2>7. PassOf(q)'
    <3>1. ppc'[q] \in PassPlaces \ {"idle", "paging"}
      BY <2>4 DEF PassPlaces
    <3>2. /\ \A x \in todo[q] : x \in todo'[q] \/ history'[x.pr] # NoRecord
          /\ \A x \in terminal'[q] : x \in terminal[q] \/ (x \in todo[q] /\ history'[x.pr] # NoRecord)
          /\ todo'[q] \subseteq todo[q] /\ terminal'[q] \subseteq updates[q]
      BY <1>3, <2>2, <2>5, <2>6
    <3> QED
      BY <1>1, <1>2, <1>5, <2>4, <3>1, <3>2, ReadsStay
  <2>8. \A o \in Pollers \ {q} : Same(o)
    BY <1>1, <1>7 DEF Passes, Steps, Same
  <2> QED
    BY <1>5, <2>3, <2>7, <2>8, PassMoves
<1> QED
  BY <1>2, <1>6, <1>7

LEMMA FetchKeeps ==
  ASSUME ReconAssumption, ReconInd, NEW q \in Pollers, Fetch(q)
  PROVE  ReconInd'
<1>1. World /\ Stored /\ Passes /\ PassOf(q)
  BY DEF ReconInd
<1>2. /\ ppc[q] = "fetching"
      /\ UNCHANGED <<hubState, cursor, history, canonical, base, page, updates, todo, terminal, evidence,
                     newest, shifted>>
      /\ \/ /\ tracking' = branch /\ pinned' = [pinned EXCEPT ![q] = <<branch, canonical>>]
            /\ Steps(q, "advancing") /\ UNCHANGED failures
         \/ /\ failures < MaxFailures /\ failures' = failures + 1
            /\ Steps(q, "storing") /\ UNCHANGED <<tracking, pinned>>
  BY DEF Fetch
<1>3. branch \in Commits /\ canonical \in Commits /\ branch \in Nat /\ branch' = branch
  <2>1. branch \in Commits /\ branch \in Nat /\ branch' = branch /\ canonical \in 0..branch
    BY <1>1, <1>2, BranchInCommits DEF Stored, hubState
  <2> QED
    BY <2>1, FS_CardinalityType DEF Commits, ReconAssumption
<1>4. Inside /\ failures' \in 0..MaxFailures
  BY <1>1, <1>2 DEF Inside, World, ReconAssumption
<1>5. /\ UNCHANGED cursor /\ history' \in [PullRequests -> Evidence \cup {NoRecord}]
      /\ tracking' \in 0..branch /\ canonical' \in 0..branch
  BY <1>1, <1>2, <1>3 DEF Stored
<1>6. pinned' \in [Pollers -> Commits \X Commits] /\ pinned'[q][1] <= branch
  BY <1>1, <1>2, <1>3 DEF Passes, PassOf
<1>7. Passes'
  BY <1>1, <1>2, <1>6 DEF Passes, Steps, PassPlaces
<1>8. PassOf(q)'
  <2>1. /\ base'[q] = base[q] /\ page'[q] = page[q] /\ updates'[q] = updates[q] /\ terminal'[q] = terminal[q]
        /\ todo'[q] = todo[q] /\ todo[q] = {} /\ terminal[q] \subseteq updates[q]
        /\ ppc'[q] \in {"advancing", "storing"}
    BY <1>1, <1>2 DEF PassOf, Passes, Steps
  <2> QED
    BY <1>1, <1>2, <1>4, <1>6, <2>1, ReadsStay DEF PassPlaces
<1>9. \A o \in Pollers \ {q} : Same(o)
  BY <1>1, <1>2 DEF Passes, Steps, Same
<1> QED
  BY <1>4, <1>5, <1>7, <1>8, <1>9, PassMoves

LEMMA AdvanceKeeps ==
  ASSUME ReconAssumption, ReconInd, NEW q \in Pollers, Advance(q)
  PROVE  ReconInd'
<1>1. World /\ Stored /\ Passes /\ PassOf(q)
  BY DEF ReconInd
<1>2. /\ ppc[q] = "advancing" /\ Steps(q, "storing")
      /\ canonical' \in {pinned[q][1], canonical}
      /\ UNCHANGED <<hubState, failures, cursor, history, tracking, passVars, shifted>>
  BY DEF Advance
<1>3. Inside /\ failures' \in 0..MaxFailures
  BY <1>1, <1>2 DEF Inside, World
<1>4. /\ UNCHANGED cursor /\ history' \in [PullRequests -> Evidence \cup {NoRecord}]
      /\ tracking' \in 0..branch /\ canonical' \in 0..branch
  <2>1. branch \in Nat /\ pinned[q][1] \in Nat /\ pinned[q][1] <= branch
    BY <1>1, BranchInCommits DEF Passes, PassOf
  <2> QED
    BY <1>1, <1>2, <2>1 DEF Stored
<1>5. Passes'
  BY <1>1, <1>2 DEF Passes, Steps, PassPlaces, passVars
<1>6. PassOf(q)'
  <2>1. /\ base'[q] = base[q] /\ page'[q] = page[q] /\ updates'[q] = updates[q] /\ terminal'[q] = terminal[q]
        /\ todo'[q] = todo[q] /\ todo[q] = {} /\ terminal[q] \subseteq updates[q]
        /\ ppc'[q] = "storing" /\ pinned'[q] = pinned[q] /\ pinned[q][1] <= branch
    BY <1>1, <1>2 DEF PassOf, Passes, Steps, passVars
  <2> QED
    BY <1>1, <1>2, <1>3, <2>1, ReadsStay DEF PassPlaces
<1>7. \A o \in Pollers \ {q} : Same(o)
  BY <1>1, <1>2 DEF Passes, Steps, Same, passVars
<1> QED
  BY <1>3, <1>4, <1>5, <1>6, <1>7, PassMoves

LEMMA PassFailsKeeps ==
  ASSUME ReconAssumption, ReconInd, NEW q \in Pollers, PassFails(q)
  PROVE  ReconInd'
<1>1. World /\ Stored /\ Passes /\ PassOf(q)
  BY DEF ReconInd
<1>2. /\ failures < MaxFailures /\ failures' = failures + 1 /\ PassEnds(q)
      /\ UNCHANGED <<hubState, durable, shifted>> /\ branch' = branch
  BY DEF PassFails, hubState
<1>3. Inside /\ failures' \in 0..MaxFailures
  BY <1>1, <1>2 DEF Inside, World, durable, ReconAssumption
<1>4. /\ UNCHANGED cursor /\ history' \in [PullRequests -> Evidence \cup {NoRecord}]
      /\ tracking' \in 0..branch /\ canonical' \in 0..branch
  BY <1>1, <1>2 DEF Stored, durable
<1> QED
  BY <1>1, <1>2, <1>3, <1>4, EndedPass, OnlyThis, PassMoves


\* The cursor a finished pass stores passes nothing by.
LEMMA NextCursorFine ==
  ASSUME ReconAssumption, World, Stored, Passes, NEW q \in Pollers, PassOf(q), ppc[q] = "storing"
  PROVE  NextCursor(q) \in Cursors /\ CursorFine(NextCursor(q))
<1> DEFINE W == Watermark(q)
           b == base[q]
           c == NextCursor(q)
<1>1. /\ b \in Cursors /\ CursorFine(b) /\ todo[q] = {} /\ Handled(q) /\ (shifted \/ WasRead(q))
      /\ updates[q] \subseteq Updates /\ terminal[q] \subseteq updates[q]
      /\ \A u \in updates[q] :
           u.updated <= clock /\ (u.merged => hub[u.pr].state = "merged" /\ hub[u.pr].at = u.at)
  BY DEF PassOf, Passes
<1>2. b.started \in Nat /\ b.mark \in Nat /\ b.seen \subseteq PullRequests /\ b.started \in Times
  BY <1>1 DEF Cursors, Times, ReconAssumption
<1>3. /\ W \in Times /\ b.mark <= W /\ W <= clock
      /\ W # b.mark => \E u \in updates[q] : u.updated = W
      /\ \A u \in updates[q] : u.updated <= W
  BY <1>1, WatermarkIs DEF World, CursorFine
<1>4. W \in Nat /\ clock \in Nat /\ \A u \in Updates : u.updated \in Nat /\ u.pr \in PullRequests
  BY <1>3 DEF World, Updates, Times, ReconAssumption
<1> DEFINE S == (IF W = b.mark THEN b.seen ELSE {}) \cup {u.pr : u \in {v \in terminal[q] : v.updated = W}}
<1>5. c = [started |-> b.started, mark |-> W, seen |-> S]
  BY DEF NextCursor
<1>6. /\ \A p \in S : p \in b.seen \/ \E u \in terminal[q] : u.pr = p
      /\ S \subseteq PullRequests
  BY <1>1, <1>2, <1>4
<1> HIDE DEF S, W, c, b
<1>7. c.started = b.started /\ c.mark = W /\ c.seen = S /\ c \in Cursors
  BY <1>2, <1>3, <1>5, <1>6 DEF Cursors
<1>8. ASSUME ~shifted PROVE MarkPassed(c)
  <2> SUFFICES ASSUME NEW p \in PullRequests, hub[p].state = "merged", b.started <= hub[p].at, hub[p].updated < W
               PROVE  history[p] # NoRecord
    BY <1>7 DEF MarkPassed
  <2>1. HubTyped /\ hub[p].updated \in Nat /\ MarkPassed(b) /\ SeenDone(b) /\ p \in Listed
    BY <1>1, <1>8 DEF World, HubTyped, HubStates, Times, ReconAssumption, CursorFine, Listed
  <2>2. CASE hub[p].updated < b.mark
    BY <2>1, <2>2 DEF MarkPassed
  <2>3. CASE p \in b.seen
    BY <2>1, <2>3 DEF SeenDone
  <2>4. CASE Update(p) \in updates[q] /\ ~(hub[p].updated < b.mark) /\ p \notin b.seen
    <3>1. /\ Update(p).pr = p /\ Update(p).updated = hub[p].updated /\ Update(p).at = hub[p].at
          /\ Update(p).merged
      BY <2>1, UpdateIs
    <3>2. AfterCursor(Update(p), b)
      BY <1>2, <2>1, <2>4, <3>1 DEF AfterCursor
    <3>3. Update(p).at >= b.started
      BY <1>2, <2>1, <3>1 DEF HubTyped, HubStates, Times, ReconAssumption
    <3>4. Update(p) \in Candidates(updates[q], b)
      BY <2>4, <3>1, <3>2, <3>3 DEF Candidates
    <3> QED
      BY <1>1, <3>1, <3>4 DEF Handled, b
  <2>5. CASE \A u \in updates[q] : u.updated <= hub[p].updated
    <3>1. W = b.mark
      BY <1>1, <1>3, <1>4, <2>1, <2>5
    <3> QED
      BY <2>2, <3>1
  <2>6. \/ Update(p) \in updates[q]
        \/ \A u \in updates[q] : u.updated <= hub[p].updated
        \/ hub[p].updated < b.mark
    BY <1>1, <1>8, <2>1 DEF WasRead, b
  <2> QED
    BY <2>2, <2>3, <2>4, <2>5, <2>6
<1>9. ASSUME ~shifted PROVE SeenDone(c)
  <2> SUFFICES ASSUME NEW p \in S
               PROVE  hub[p].state = "merged" /\ (b.started <= hub[p].at => history[p] # NoRecord)
    BY <1>7 DEF SeenDone
  <2>1. CASE p \in b.seen
    BY <1>1, <1>9, <2>1 DEF CursorFine, SeenDone
  <2>2. CASE \E u \in terminal[q] : u.pr = p
    <3>1. PICK u \in terminal[q] : u.pr = p
      BY <2>2
    <3>2. /\ u.merged /\ (history[p] # NoRecord \/ u.at < b.started)
          /\ hub[p].state = "merged" /\ hub[p].at = u.at
      BY <1>1, <3>1 DEF Handled, b
    <3>3. u.at \in Nat
      BY <1>1, <3>1 DEF Updates, Times, ReconAssumption
    <3> QED
      BY <1>2, <3>2, <3>3
  <2> QED
    BY <1>6, <2>1, <2>2
<1>10. b.started <= W
  BY <1>1, <1>2, <1>3, <1>4 DEF CursorFine
<1> QED
  BY <1>3, <1>7, <1>8, <1>9, <1>10 DEF CursorFine, c

LEMMA StoreKeeps ==
  ASSUME ReconAssumption, ReconInd, NEW q \in Pollers, Store(q)
  PROVE  ReconInd'
<1>1. World /\ Stored /\ Passes /\ PassOf(q) /\ \A o \in Pollers : PassOf(o)
  BY DEF ReconInd
<1>2. /\ ppc[q] = "storing" /\ cursor' \in {cursor, NextCursor(q)} /\ PassEnds(q)
      /\ UNCHANGED <<hubState, failures, history, tracking, canonical, shifted>> /\ branch' = branch
  BY DEF Store, hubState
<1>3. Inside /\ failures' \in 0..MaxFailures
  BY <1>1, <1>2 DEF Inside, World
<1>4. World' /\ Grows
  BY <1>1, <1>3, InsideStep
<1>5. NextCursor(q) \in Cursors /\ StaysFine(NextCursor(q))
  BY <1>1, <1>2, <1>4, NextCursorFine, CursorStays
<1>6. cursor # NoCursor => cursor \in Cursors /\ StaysFine(cursor)
  BY <1>1, <1>4, CursorStays DEF Stored
<1>7. cursor' \in Cursors \cup {NoCursor} /\ (cursor' # NoCursor => CursorFine(cursor)')
  <2>1. CASE cursor' = NextCursor(q)
    <3> DEFINE n == NextCursor(q)
    <3>1. cursor' = n /\ n \in Cursors /\ StaysFine(n)
      BY <1>5, <2>1
    <3> HIDE DEF n
    <3> QED
      BY <3>1 DEF StaysFine, CursorFine, MarkPassed, SeenDone
  <2>2. CASE cursor' = cursor
    BY <1>1, <1>6, <2>2 DEF Stored, StaysFine, CursorFine, MarkPassed, SeenDone
  <2> QED
    BY <1>2, <2>1, <2>2
<1>8. Stored'
  BY <1>1, <1>2, <1>7 DEF Stored
<1>9. Passes' /\ PassOf(q)'
  BY <1>1, <1>2, EndedPass
<1>10. \A o \in Pollers : PassOf(o)'
  BY <1>1, <1>2, <1>3, <1>9, OnlyThis, OthersStay
<1> QED
  BY <1>4, <1>8, <1>9, <1>10 DEF ReconInd

-----------------------------------------------------------------------------
(* The steps of the world outside.                                         *)

\* A step of no poller.
LEMMA OutsideStep ==
  ASSUME ReconAssumption, ReconInd, World', Grows, UNCHANGED <<cursor, tracking, canonical, ppc, passVars>>,
         history' \in [PullRequests -> Evidence \cup {NoRecord}],
         \A q \in Pollers : ppc[q] = "paging" => PlaceKept(q)
  PROVE  ReconInd'
<1>1. World /\ Stored /\ Passes /\ \A q \in Pollers : PassOf(q)
  BY DEF ReconInd
<1>2. Passes'
  BY <1>1 DEF Passes, passVars
<1>3. ASSUME NEW q \in Pollers PROVE PassOf(q)'
  <2>1. Same(q)
    BY DEF Same, passVars
  <2> QED
    BY <1>1, <2>1, PassStays
<1>4. Stored'
  <2>1. branch \in Nat /\ branch' \in Nat /\ branch <= branch'
    BY <1>1, BranchInCommits DEF Grows
  <2>2. tracking' \in 0..branch' /\ canonical' \in 0..branch'
    BY <1>1, <2>1 DEF Stored
  <2> QED
    BY <1>1, <2>2, StoredStays
<1> QED
  BY <1>2, <1>3, <1>4 DEF ReconInd

LEMMA MergeReconcileKeeps ==
  ASSUME ReconAssumption, ReconInd, NEW p \in PullRequests, NEW named \in BOOLEAN, MergeReconcile(p, named)
  PROVE  ReconInd'
<1>1. World /\ Stored
  BY DEF ReconInd
<1>2. /\ UNCHANGED <<hubState, failures, cursor, tracking, canonical, ppc, passVars, shifted>>
      /\ \E r \in BOOLEAN : history' = [history EXCEPT ![p] = [receipt |-> r, policy |-> policy]]
  <2> DEFINE r == named /\ p \in receipted
  <2>1. r \in BOOLEAN
    OBVIOUS
  <2> QED
    BY <2>1, Zenon DEF MergeReconcile
<1>3. PICK r \in BOOLEAN : history' = [history EXCEPT ![p] = [receipt |-> r, policy |-> policy]]
  BY <1>2
<1> DEFINE e == [receipt |-> r, policy |-> policy]
<1>4. e \in Evidence /\ e # NoRecord
  <2>1. policy \in {1, 2}
    BY <1>1 DEF World
  <2>2. e \in Evidence
    BY <2>1 DEF Evidence
  <2> QED
    BY <2>2 DEF ReconAssumption
<1> HIDE DEF e
<1>5. history' = [history EXCEPT ![p] = e]
  BY <1>3 DEF e
<1>6. /\ history' \in [PullRequests -> Evidence \cup {NoRecord}]
      /\ Inside /\ failures' \in 0..MaxFailures
  BY <1>1, <1>2, <1>4, <1>5 DEF Stored, Inside, World
<1>7. World' /\ Grows /\ \A q : PlaceKept(q)
  BY <1>1, <1>6, InsideStep DEF ReconInd
<1> QED
  BY <1>2, <1>6, <1>7, OutsideStep


LEMMA HubEventIs ==
  ASSUME NEW p \in PullRequests, HubEvent(p)
  PROVE  /\ hubEvents < MaxHubEvents /\ hubEvents' = hubEvents + 1 /\ UNCHANGED <<clock, failures, durable, ppc, passVars>>
         /\ \/ /\ hub[p].state = "open" /\ branch' = branch + 1
               /\ hub' = [hub EXCEPT ![p] = [state |-> "merged", updated |-> clock, at |-> clock,
                                             commit |-> branch + 1]]
               /\ UNCHANGED <<receipted, policy, shifted>>
            \/ /\ hub[p].state = "open"
               /\ hub' = [hub EXCEPT ![p] = [@ EXCEPT !.state = "closed", !.updated = clock]]
               /\ UNCHANGED <<branch, receipted, policy, shifted>>
            \/ /\ hub[p].state = "closed" /\ hub' = [hub EXCEPT ![p] = [@ EXCEPT !.state = "open"]]
               /\ shifted' \in BOOLEAN /\ (shifted => shifted')
               /\ \A q \in Pollers : ppc[q] = "paging" /\ page[q] > 1 => shifted'
               /\ UNCHANGED <<branch, receipted, policy>>
            \/ /\ hub[p].state # "open" /\ hub' = [hub EXCEPT ![p].updated = clock]
               /\ UNCHANGED <<branch, receipted, policy, shifted>>
            \/ /\ receipted' = receipted \cup {p} /\ UNCHANGED <<hub, branch, policy, shifted>>
<1>1. hubEvents < MaxHubEvents /\ hubEvents' = hubEvents + 1 /\ UNCHANGED <<clock, failures, durable, ppc, passVars>>
  BY DEF HubEvent, Happens
<1>2. CASE /\ hub[p].state = "closed" /\ hub' = [hub EXCEPT ![p] = [@ EXCEPT !.state = "open"]]
           /\ shifted' = (shifted \/ \E q \in Pollers : ppc[q] = "paging" /\ page[q] > 1)
           /\ UNCHANGED <<branch, receipted, policy>>
  <2> DEFINE moved == \E q \in Pollers : ppc[q] = "paging" /\ page[q] > 1
  <2>1. shifted' = (shifted \/ moved)
    BY <1>2
  <2>2. \A q \in Pollers : ppc[q] = "paging" /\ page[q] > 1 => moved
    OBVIOUS
  <2> HIDE DEF moved
  <2>3. shifted' \in BOOLEAN /\ (shifted => shifted') /\ (moved => shifted')
    BY <2>1, Zenon
  <2> QED
    BY <1>1, <1>2, <2>2, <2>3
<1> QED
  BY <1>1, <1>2, Zenon DEF HubEvent

\* A pull request that is updated comes first in the feed: no other one moves up.
LEMMA UpdatedComesFirst ==
  ASSUME ReconAssumption, World, HubTyped', NEW p \in PullRequests,
         \A x \in PullRequests \ {p} : hub'[x] = hub[x],
         (hub'[p].state # "open" /\ hub'[p].updated = clock) \/ hub'[p] = hub[p]
  PROVE  \A q : PlaceKept(q)
<1> SUFFICES ASSUME NEW x \in PullRequests, hub[x].state # "open", hub'[x] = hub[x]
             PROVE  Rank(x) <= Rank(x)'
  BY DEF PlaceKept
<1>1. \A o \in PullRequests : hub[o].updated \in Nat /\ hub[o].updated <= clock
  BY DEF World, HubTyped, HubStates, Times, ReconAssumption
<1>2. clock \in Nat
  BY DEF World, Times, ReconAssumption
<1>3. AheadIn(hub, x) \subseteq AheadIn(hub', x)
  BY <1>1, <1>2 DEF AheadIn
<1>4. IsFiniteSet(AheadIn(hub', x))
  BY RankIn DEF HubTyped
<1>5. Cardinality(AheadIn(hub, x)) <= Cardinality(AheadIn(hub', x))
  BY <1>3, <1>4, FS_Subset
<1> QED
  BY <1>5, RankIn

\* What an event makes of the pull request.
LEMMA PullRequestMoves ==
  ASSUME ReconAssumption, ReconInd, NEW p \in PullRequests, NEW r \in HubStates,
         hub' = [hub EXCEPT ![p] = r],
         r.at <= r.updated, r.updated <= clock,
         r.state = "merged" <=> hub[p].state = "merged" \/ branch' = branch + 1,
         branch' = branch \/ (branch' = branch + 1 /\ hub[p].state # "merged"),
         (r.state = "open" /\ hub[p].state # "merged") \/ r.updated = clock,
         hub[p].state = "merged" => r.at = hub[p].at,
         hubEvents < MaxHubEvents, hubEvents' = hubEvents + 1, shifted' \in BOOLEAN, shifted => shifted',
         UNCHANGED <<clock, failures, durable, receipted, policy>>
  PROVE  /\ World' /\ Grows /\ hub'[p] = r /\ \A x \in PullRequests \ {p} : hub'[x] = hub[x]
         /\ history' \in [PullRequests -> Evidence \cup {NoRecord}]
<1>1. World /\ Stored /\ branch \in Nat
  BY BranchInCommits DEF ReconInd
<1>2. HubTyped' /\ hub'[p] = r /\ \A x \in PullRequests \ {p} : hub'[x] = hub[x]
  BY <1>1 DEF World, HubTyped
<1>3. branch' = Cardinality(MergedOnes')
  <2>1. IsFiniteSet(MergedOnes) /\ branch = Cardinality(MergedOnes)
    <3>1. MergedOnes \in SUBSET PullRequests
      BY DEF MergedOnes
    <3> QED
      BY <1>1, <3>1, FS_Subset DEF World, ReconAssumption
  <2>2. CASE branch' = branch
    <3>1. r.state = "merged" <=> hub[p].state = "merged"
      BY <1>1, <2>2
    <3>2. MergedOnes' = MergedOnes
      BY <1>2, <3>1 DEF MergedOnes
    <3> QED
      BY <2>1, <2>2, <3>2
  <2>3. CASE branch' = branch + 1 /\ hub[p].state # "merged"
    <3>1. MergedOnes' = MergedOnes \cup {p} /\ p \notin MergedOnes
      BY <1>2, <2>3 DEF MergedOnes
    <3> QED
      BY <2>1, <2>3, <3>1, FS_AddElement
  <2> QED
    BY <2>2, <2>3
<1>4. \A x \in PullRequests : hub'[x].at <= hub'[x].updated /\ hub'[x].updated <= clock
  BY <1>1, <1>2 DEF World
<1>5. World'
  BY <1>1, <1>2, <1>3, <1>4 DEF World, ReconAssumption
<1>6. \A x \in PullRequests : Moved(x)
  BY <1>1, <1>2 DEF Moved
<1>7. Grows
  BY <1>1, <1>2, <1>6 DEF Grows, World, Times, ReconAssumption, durable
<1> QED
  BY <1>1, <1>2, <1>5, <1>7 DEF Stored, durable

LEMMA HubEventKeeps ==
  ASSUME ReconAssumption, ReconInd, NEW p \in PullRequests, HubEvent(p)
  PROVE  ReconInd'
<1>1. World /\ Stored /\ Passes /\ branch \in Nat
  BY BranchInCommits DEF ReconInd
<1>2. hub[p] \in HubStates /\ hub[p].at <= hub[p].updated /\ hub[p].updated <= clock /\ clock \in Times
      /\ clock \in Nat /\ hub[p].at \in Nat /\ hub[p].updated \in Nat
  BY <1>1 DEF World, HubTyped, HubStates, Times, ReconAssumption
<1>3. /\ hubEvents < MaxHubEvents /\ hubEvents' = hubEvents + 1 /\ UNCHANGED <<clock, failures, durable, ppc, passVars>>
      /\ UNCHANGED <<cursor, tracking, canonical, ppc, passVars>>
  BY HubEventIs DEF durable
<1>4. shifted \in BOOLEAN
  BY <1>1 DEF World
<1>5. CASE /\ hub[p].state = "open" /\ branch' = branch + 1
           /\ hub' = [hub EXCEPT ![p] = [state |-> "merged", updated |-> clock, at |-> clock,
                                         commit |-> branch + 1]]
           /\ UNCHANGED <<receipted, policy, shifted>>
  <2> DEFINE r == [state |-> "merged", updated |-> clock, at |-> clock, commit |-> branch + 1]
  <2>1. branch + 1 \in Commits
    <3>1. MergedOnes \in SUBSET PullRequests /\ p \notin MergedOnes
      BY <1>5 DEF MergedOnes
    <3>2. IsFiniteSet(MergedOnes)
      BY <3>1, FS_Subset DEF ReconAssumption
    <3>3. Cardinality(MergedOnes \cup {p}) = branch + 1
      BY <1>1, <3>1, <3>2, FS_AddElement DEF World
    <3>4. Cardinality(MergedOnes \cup {p}) <= Cardinality(PullRequests)
      <4>1. MergedOnes \cup {p} \in SUBSET PullRequests
        BY <3>1
      <4> QED
        BY <4>1, FS_Subset DEF ReconAssumption
    <3> QED
      BY <1>1, <3>3, <3>4, FS_CardinalityType DEF Commits, ReconAssumption
  <2>2. /\ r \in HubStates /\ r.at <= r.updated /\ r.updated <= clock /\ r.state = "merged" /\ r.updated = clock
    BY <1>2, <2>1 DEF HubStates
  <2>3. hub' = [hub EXCEPT ![p] = r]
    BY <1>5
  <2> HIDE DEF r
  <2>4. /\ World' /\ Grows /\ hub'[p] = r /\ \A x \in PullRequests \ {p} : hub'[x] = hub[x]
        /\ history' \in [PullRequests -> Evidence \cup {NoRecord}]
    BY <1>3, <1>4, <1>5, <2>2, <2>3, PullRequestMoves
  <2>5. \A q : PlaceKept(q)
    BY <1>1, <2>2, <2>4, UpdatedComesFirst DEF Grows
  <2> QED
    BY <1>3, <2>4, <2>5, OutsideStep
<1>6. CASE /\ hub[p].state = "open"
           /\ hub' = [hub EXCEPT ![p] = [@ EXCEPT !.state = "closed", !.updated = clock]]
           /\ UNCHANGED <<branch, receipted, policy, shifted>>
  <2> DEFINE r == [hub[p] EXCEPT !.state = "closed", !.updated = clock]
  <2>1. /\ r \in HubStates /\ r.at <= r.updated /\ r.updated <= clock /\ r.state = "closed" /\ r.updated = clock
    <3> DEFINE h == [hub[p] EXCEPT !.state = "closed"]
    <3>1. h \in HubStates /\ h.at = hub[p].at /\ h.state = "closed"
      BY <1>2 DEF HubStates
    <3> HIDE DEF h
    <3>2. r = [h EXCEPT !.updated = clock]
      BY DEF h
    <3> HIDE DEF r
    <3>3. r \in HubStates /\ r.at = h.at /\ r.state = h.state /\ r.updated = clock
      BY <1>2, <3>1, <3>2 DEF HubStates
    <3> QED
      BY <1>2, <3>1, <3>3
  <2>2. hub' = [hub EXCEPT ![p] = r]
    BY <1>1, <1>6 DEF World, HubTyped
  <2> HIDE DEF r
  <2>3. /\ World' /\ Grows /\ hub'[p] = r /\ \A x \in PullRequests \ {p} : hub'[x] = hub[x]
        /\ history' \in [PullRequests -> Evidence \cup {NoRecord}]
    <3>1. branch' = branch /\ (r.state = "merged" <=> hub[p].state = "merged" \/ branch' = branch + 1)
      BY <1>1, <1>6, <2>1
    <3>2. /\ (r.state = "open" /\ hub[p].state # "merged") \/ r.updated = clock
          /\ hub[p].state = "merged" => r.at = hub[p].at
      BY <1>6, <2>1
    <3>3. shifted' \in BOOLEAN /\ (shifted => shifted')
      BY <1>4, <1>6
    <3> QED
      BY <1>3, <1>6, <2>1, <2>2, <3>1, <3>2, <3>3, PullRequestMoves
  <2>4. \A q : PlaceKept(q)
    BY <1>1, <2>1, <2>3, UpdatedComesFirst DEF Grows
  <2> QED
    BY <1>3, <2>3, <2>4, OutsideStep
<1>7. CASE /\ hub[p].state = "closed" /\ hub' = [hub EXCEPT ![p] = [@ EXCEPT !.state = "open"]]
           /\ shifted' \in BOOLEAN /\ (shifted => shifted')
           /\ \A q \in Pollers : ppc[q] = "paging" /\ page[q] > 1 => shifted'
           /\ UNCHANGED <<branch, receipted, policy>>
  <2> DEFINE r == [hub[p] EXCEPT !.state = "open"]
  <2>1. r \in HubStates /\ r.at <= r.updated /\ r.updated <= clock /\ r.state = "open"
    BY <1>2 DEF HubStates
  <2>2. hub' = [hub EXCEPT ![p] = r]
    BY <1>1, <1>7 DEF World, HubTyped
  <2> HIDE DEF r
  <2>3. /\ World' /\ Grows /\ history' \in [PullRequests -> Evidence \cup {NoRecord}]
    <3>1. branch' = branch /\ (r.state = "merged" <=> hub[p].state = "merged" \/ branch' = branch + 1)
      BY <1>1, <1>7, <2>1
    <3>2. /\ (r.state = "open" /\ hub[p].state # "merged") \/ r.updated = clock
          /\ hub[p].state = "merged" => r.at = hub[p].at
      BY <1>7, <2>1
    <3>3. shifted' \in BOOLEAN /\ (shifted => shifted')
      BY <1>7
    <3> QED
      BY <1>3, <1>7, <2>1, <2>2, <3>1, <3>2, <3>3, PullRequestMoves
  <2>4. ASSUME NEW q \in Pollers, ppc[q] = "paging" PROVE PlaceKept(q)
    <3>1. page[q] = 1 \/ page[q] > 1
      BY <1>1 DEF Passes, ReconAssumption
    <3> QED
      BY <1>7, <2>4, <3>1 DEF PlaceKept
  <2> QED
    BY <1>3, <2>3, <2>4, OutsideStep
<1>8. CASE /\ hub[p].state # "open" /\ hub' = [hub EXCEPT ![p].updated = clock]
           /\ UNCHANGED <<branch, receipted, policy, shifted>>
  <2> DEFINE r == [hub[p] EXCEPT !.updated = clock]
  <2>1. /\ r \in HubStates /\ r.at <= r.updated /\ r.updated <= clock /\ r.updated = clock
        /\ r.state = hub[p].state /\ r.at = hub[p].at
    BY <1>2 DEF HubStates
  <2>2. hub' = [hub EXCEPT ![p] = r]
    BY <1>1, <1>8 DEF World, HubTyped
  <2> HIDE DEF r
  <2>3. /\ World' /\ Grows /\ hub'[p] = r /\ \A x \in PullRequests \ {p} : hub'[x] = hub[x]
        /\ history' \in [PullRequests -> Evidence \cup {NoRecord}]
    <3>1. branch' = branch /\ (r.state = "merged" <=> hub[p].state = "merged" \/ branch' = branch + 1)
      BY <1>1, <1>8, <2>1
    <3>2. /\ (r.state = "open" /\ hub[p].state # "merged") \/ r.updated = clock
          /\ hub[p].state = "merged" => r.at = hub[p].at
      BY <1>8, <2>1
    <3>3. shifted' \in BOOLEAN /\ (shifted => shifted')
      BY <1>4, <1>8
    <3> QED
      BY <1>3, <1>8, <2>1, <2>2, <3>1, <3>2, <3>3, PullRequestMoves
  <2>4. \A q : PlaceKept(q)
    BY <1>1, <1>8, <2>1, <2>3, UpdatedComesFirst DEF Grows
  <2> QED
    BY <1>3, <2>3, <2>4, OutsideStep
<1>9. CASE receipted' = receipted \cup {p} /\ UNCHANGED <<hub, branch, policy, shifted>>
  <2>1. World'
    BY <1>1, <1>3, <1>9 DEF World, HubTyped, MergedOnes, ReconAssumption
  <2>2. Grows
    BY <1>1, <1>2, <1>3, <1>9 DEF Grows, Moved, World, HubTyped, durable
  <2>3. \A q : PlaceKept(q)
    BY <1>1, <1>9, <2>2, UpdatedComesFirst DEF Grows
  <2> QED
    BY <1>1, <1>3, <2>1, <2>2, <2>3, OutsideStep DEF Stored, durable
<1> QED
  BY <1>5, <1>6, <1>7, <1>8, <1>9, HubEventIs


LEMMA OtherwiseKeeps ==
  ASSUME ReconAssumption, ReconInd, EditPolicy \/ Tick \/ UNCHANGED reconVars
  PROVE  ReconInd'
<1>1. World /\ Stored /\ Passes /\ branch \in Nat /\ clock \in Nat
  BY BranchInCommits DEF ReconInd, World, Times, ReconAssumption
<1>2. /\ UNCHANGED <<hub, branch, receipted, failures, durable, ppc, passVars, shifted>>
      /\ clock' \in Times /\ clock <= clock' /\ hubEvents' \in 0..MaxHubEvents /\ policy' \in {1, 2}
  <2>1. CASE EditPolicy
    BY <1>1, <2>1 DEF EditPolicy, Happens, World, ReconAssumption
  <2>2. CASE Tick
    BY <1>1, <2>2 DEF Tick, World, Times, ReconAssumption
  <2>3. CASE UNCHANGED reconVars
    BY <1>1, <2>3 DEF reconVars, durable, passVars, World
  <2> QED
    BY <2>1, <2>2, <2>3
<1>3. \A x \in PullRequests : hub[x].updated <= clock'
  <2>1. \A x \in PullRequests : hub[x].updated \in Nat /\ hub[x].updated <= clock
    BY <1>1 DEF World, HubTyped, HubStates, Times, ReconAssumption
  <2>2. clock' \in Nat
    BY <1>2 DEF Times, ReconAssumption
  <2> QED
    BY <1>1, <1>2, <2>1, <2>2
<1>4. World'
  BY <1>1, <1>2, <1>3 DEF World, HubTyped, MergedOnes
<1>5. Grows
  BY <1>1, <1>2 DEF Grows, Moved, World, HubTyped, durable
<1>6. \A q : PlaceKept(q)
  <2>1. \A x : Rank(x)' = Rank(x)
    BY <1>2, RankIn
  <2>2. \A x \in PullRequests : hub[x].state # "open" => Rank(x) <= Rank(x)'
    BY <1>1, <2>1, RankIn DEF World, HubTyped
  <2> QED
    BY <2>2 DEF PlaceKept
<1> QED
  BY <1>1, <1>2, <1>4, <1>5, <1>6, OutsideStep DEF Stored, durable

LEMMA ReconInvariant ==
  ASSUME ReconAssumption
  PROVE  ReconSpec => []ReconInd
<1>1. ReconInit => ReconInd
  <2> SUFFICES ASSUME ReconInit PROVE ReconInd
    OBVIOUS
  <2> DEFINE h == [state |-> "open", updated |-> 0, at |-> 0, commit |-> 0]
  <2>1. 0 \in Times /\ 0 \in Commits /\ 1 \in 1..MaxPages /\ NoEvidence \in Evidence
    <3>1. NoEvidence \in Evidence
      BY DEF NoEvidence, Evidence
    <3> QED
      BY <3>1, FS_CardinalityType DEF Times, Commits, ReconAssumption
  <2>2. h \in HubStates /\ hub = [p \in PullRequests |-> h]
    BY <2>1 DEF HubStates, ReconInit
  <2>3. \A p \in PullRequests : hub[p].state = "open" /\ hub[p].at = 0 /\ hub[p].updated = 0
    BY <2>2
  <2>4. MergedOnes = {} /\ branch = Cardinality(MergedOnes)
    BY <2>3, FS_EmptySet DEF MergedOnes, ReconInit
  <2> HIDE DEF h
  <2>5. HubTyped
    BY <2>2 DEF HubTyped
  <2>6. World
    <3>1. clock = 0 /\ hubEvents = 0 /\ failures = 0 /\ receipted = {} /\ policy = 1 /\ shifted \in BOOLEAN
      BY DEF ReconInit
    <3>2. hubEvents \in 0..MaxHubEvents /\ failures \in 0..MaxFailures
      BY <3>1 DEF ReconAssumption
    <3> QED
      BY <2>1, <2>3, <2>4, <2>5, <3>1, <3>2 DEF World
  <2>7. Stored
    BY DEF Stored, ReconInit
  <2>8. Passes
    BY <2>1 DEF Passes, PassPlaces, ReconInit
  <2>9. ASSUME NEW q \in Pollers PROVE PassOf(q)
    <3>1. ppc[q] = "idle" /\ updates[q] = {} /\ page[q] = 1 /\ todo[q] = {} /\ terminal[q] = {}
          /\ pinned[q][1] = 0 /\ branch = 0
      BY DEF ReconInit
    <3>2. IsFiniteSet({})
      BY FS_EmptySet
    <3> QED
      BY <3>1, <3>2 DEF PassOf
  <2> QED
    BY <2>6, <2>7, <2>8, <2>9 DEF ReconInd
<1>2. ReconInd /\ [ReconNext]_reconVars => ReconInd'
  <2> SUFFICES ASSUME ReconInd, [ReconNext]_reconVars PROVE ReconInd'
    OBVIOUS
  <2>1. ASSUME NEW q \in Pollers, PollStep(q) PROVE ReconInd'
    BY <2>1, StartPassKeeps, ReadPageKeeps, PickKeeps, AppendRecordKeeps, FetchKeeps, AdvanceKeeps, StoreKeeps
       DEF PollStep
  <2>2. ASSUME NEW q \in Pollers, PassFails(q) PROVE ReconInd'
    BY <2>2, PassFailsKeeps
  <2>3. ASSUME NEW p \in PullRequests, HubEvent(p) PROVE ReconInd'
    BY <2>3, HubEventKeeps
  <2>4. ASSUME NEW p \in PullRequests, NEW named \in BOOLEAN, MergeReconcile(p, named) PROVE ReconInd'
    BY <2>4, MergeReconcileKeeps
  <2> QED
    BY <2>1, <2>2, <2>3, <2>4, OtherwiseKeeps DEF ReconNext
<1> QED
  BY <1>1, <1>2, PTL DEF ReconSpec

(* The reconciliation is well typed, its canonical ref and its checkout    *)
(* never name a commit the branch does not have.                           *)
LEMMA ReconTypes ==
  ASSUME ReconAssumption, ReconInd
  PROVE  ReconTypeOK
<1>1. World /\ Stored /\ Passes /\ \A q \in Pollers : PassOf(q)
  BY DEF ReconInd
<1>2. branch \in Commits
  BY <1>1, BranchInCommits
<1>3. page \in [Pollers -> 1..MaxPages + 1]
  <2>1. 1..MaxPages \subseteq 1..MaxPages + 1
    BY DEF ReconAssumption
  <2> QED
    BY <1>1, <2>1 DEF Passes
<1>4. cursor # NoCursor => cursor.started <= cursor.mark
  BY <1>1 DEF Stored, CursorFine
<1>5. \A q \in Pollers : updates[q] \subseteq Updates /\ todo[q] \subseteq updates[q]
                         /\ terminal[q] \subseteq updates[q]
  BY <1>1 DEF Passes, PassOf
<1> QED
  BY <1>1, <1>2, <1>3, <1>4, <1>5 DEF ReconTypeOK, World, HubTyped, Stored, Passes, PassPlaces

(* The durable cursor passes no merge of its epoch by, for any number of   *)
(* pollers, pull requests and pages, whatever fails, unless a reopened     *)
(* pull request pulled the pages up under a pass (reconcileRepository and  *)
(* advanceCursor of the poller).                                           *)
THEOREM MergesAreNotSkipped ==
  ASSUME ReconAssumption
  PROVE  ReconSpec => [](ReconTypeOK /\ NoMergeSkipped)
<1>1. ReconInd => ReconTypeOK /\ NoMergeSkipped
  <2> SUFFICES ASSUME ReconInd PROVE ReconTypeOK /\ NoMergeSkipped
    OBVIOUS
  <2>1. World /\ Stored
    BY DEF ReconInd
  <2>2. NoMergeSkipped
    <3> SUFFICES ASSUME ~shifted, NEW p \in PullRequests, Due(p), ~AfterCursor(Update(p), cursor)
                 PROVE  history[p] # NoRecord
      BY DEF NoMergeSkipped
    <3>1. /\ cursor \in Cursors /\ MarkPassed(cursor) /\ SeenDone(cursor)
          /\ hub[p].state = "merged" /\ hub[p].at >= cursor.started
      BY <2>1 DEF Due, Stored, CursorFine
    <3>2. Update(p).pr = p /\ Update(p).updated = hub[p].updated
      BY <2>1, UpdateIs DEF World
    <3>3. /\ hub[p].updated \in Nat /\ hub[p].at \in Nat /\ cursor.mark \in Nat /\ cursor.started \in Nat
      BY <2>1, <3>1 DEF World, HubTyped, HubStates, Cursors, Times, ReconAssumption
    <3>4. hub[p].updated < cursor.mark \/ p \in cursor.seen
      BY <3>2, <3>3 DEF AfterCursor
    <3> QED
      BY <3>1, <3>3, <3>4 DEF MarkPassed, SeenDone
  <2> QED
    BY <2>2, ReconTypes
<1> QED
  BY <1>1, ReconInvariant, PTL
=============================================================================
