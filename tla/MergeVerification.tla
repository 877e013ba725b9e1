--------------------------- MODULE MergeVerification ---------------------------
(***************************************************************************)
(* Exact-head verification of one pull request and the guarded merge that  *)
(* spends its receipt: merge-verification-runner.ts, the attempt and       *)
(* receipt tables of packages/storage, evaluateMergeEvidence() and         *)
(* GuardedMergeService.  A runner is one merge_verification_run call, in   *)
(* the process ProcessOf gives it; every await of run() and verify() that  *)
(* another runner, the author or a crash can come between is a step.       *)
(*                                                                         *)
(* A terminal attempt row has no effect on any later call, so only the     *)
(* row of each head the partial unique index covers is kept.  The age of a *)
(* heartbeat is abstracted to `fresh`, younger than ATTEMPT_STALE_AFTER_MS.*)
(***************************************************************************)
EXTENDS Naturals, FiniteSets

CONSTANTS Runners, NoRow,
          ProcessOf,     \* runner -> the process whose admission it asks
          AttemptIds,    \* enough ids for one to be unused
          Heads, FirstHead, Bases, FirstBase,
          LocalGates, CheckGates,  \* the policy's requiredGates by source
          PassesOn,      \* gate -> the heads whose content it passes on
          MaxMoves,      \* bound: pushes, base moves, checkouts, CI reports
          MaxReceipts,   \* bound: receipts
          MayDie         \* bound: the runners that may die or be suspended

VARIABLES
  attempt,    \* head -> its queued or running row, or NoRow
  vpc,        \* runner -> where it is in run()
  subject,    \* runner -> the [head, base] it observed
  attemptId,  \* runner -> the attempt it means to insert, claim or owns
  admitted,   \* runners holding a verification_heavy lease
  passed,     \* runner -> the gates with a passed receipt so far
  ran,        \* runner -> the local gates run so far
  receipts,   \* the merge_verification_receipts table
  prHead, prBase, checkRuns,   \* GitHub: the pull request and the finished checks
  checkout,   \* HEAD of the registered workspace
  sent,       \* heads for which a provider merge is under way
  merged,     \* the head GitHub merged, or NoRow
  moves,      \* bound: what the outside did so far
  late,       \* ghost: runners whose own row grew stale while they ran
  misread     \* ghost: runners a gate of which read another head's content, with
              \* the workspace not back on their head since

attemptVars == <<attempt, late>>
runnerVars == <<vpc, subject, attemptId, admitted, passed, ran>>
hubVars == <<prHead, prBase, checkRuns, merged>>
verifyVars == <<attempt, vpc, subject, attemptId, admitted, passed, ran, receipts, prHead,
                prBase, checkRuns, checkout, sent, merged, moves, late, misread>>

Gates == LocalGates \cup CheckGates
Subjects == [head : Heads, base : Bases]
Rows == [id : AttemptIds, status : {"queued", "running"}, fresh : BOOLEAN]
Receipts == [head : Heads, base : Bases, passed : SUBSET Gates, approved : BOOLEAN, sound : BOOLEAN]
Verifying == {"inspecting", "gating", "ran", "finishing"}

\* An id for every runner and every row, and one to spare: ids are unique.
VerifyAssumption ==
  /\ NoRow \notin Heads /\ NoRow \notin AttemptIds /\ NoRow \notin Rows
  /\ FirstHead \in Heads /\ FirstBase \in Bases
  /\ IsFiniteSet(Runners) /\ IsFiniteSet(Heads)
  /\ IsFiniteSet(AttemptIds) => Cardinality(AttemptIds) > Cardinality(Runners) + Cardinality(Heads)
  /\ MaxMoves \in Nat

VerifyTypeOK ==
  /\ attempt \in [Heads -> Rows \cup {NoRow}]
  /\ vpc \in [Runners -> {"idle", "reusing", "reaping", "looking", "beginning", "queueing",
                          "claiming", "dead"} \cup Verifying]
  /\ subject \in [Runners -> Subjects]
  /\ attemptId \in [Runners -> AttemptIds \cup {NoRow}]
  /\ admitted = {r \in Runners : vpc[r] \in {"beginning", "claiming"} \cup Verifying}
  /\ \A r, s \in admitted : ProcessOf[r] = ProcessOf[s] => r = s
  /\ passed \in [Runners -> SUBSET Gates]
  /\ ran \in [Runners -> SUBSET LocalGates]
  /\ receipts \subseteq Receipts
  /\ prHead \in Heads /\ prBase \in Bases /\ checkout \in Heads
  /\ checkRuns \subseteq CheckGates \X Heads
  /\ sent \subseteq Heads /\ merged \in Heads \cup {NoRow}
  /\ moves \in 0..MaxMoves
  /\ late \cup misread \subseteq Runners

VerifyInit ==
  /\ attempt = [h \in Heads |-> NoRow]
  /\ vpc = [r \in Runners |-> "idle"]
  /\ subject = [r \in Runners |-> [head |-> FirstHead, base |-> FirstBase]]
  /\ attemptId = [r \in Runners |-> NoRow]
  /\ admitted = {}
  /\ passed = [r \in Runners |-> {}]
  /\ ran = [r \in Runners |-> {}]
  /\ receipts = {}
  /\ prHead = FirstHead /\ prBase = FirstBase /\ checkRuns = {}
  /\ checkout = FirstHead
  /\ sent = {} /\ merged = NoRow /\ moves = 0
  /\ late = {} /\ misread = {}

------------------------------------------------------------------------------
(* The evidence.                                                           *)

\* evaluateMergeEvidence(): base is NoRow when the caller names none.
Allows(receipt, head, base) ==
  /\ Gates # {}
  /\ receipt.head = head
  /\ base # NoRow => receipt.base = base
  /\ receipt.passed = Gates
  /\ receipt.approved

\* reusePersistedVerdict() returns an allowing receipt of the same head and base.
Reusable(r) ==
  \E receipt \in receipts :
    receipt.base = subject[r].base /\ Allows(receipt, subject[r].head, subject[r].base)

Unused == AttemptIds \ ({attemptId[r] : r \in Runners}
                         \cup {attempt[h].id : h \in {g \in Heads : attempt[g] # NoRow}})
FreshId == CHOOSE i \in Unused : TRUE

Row(r) == attempt[subject[r].head]
Owns(r) == Row(r) # NoRow /\ Row(r).id = attemptId[r] /\ Row(r).status = "running"

Goes(r, to) == vpc' = [vpc EXCEPT ![r] = to]

\* run() returns; its finally block releases the lease.
Returns(r) ==
  /\ Goes(r, "idle")
  /\ admitted' = admitted \ {r}
  /\ attemptId' = [attemptId EXCEPT ![r] = NoRow]
  /\ passed' = [passed EXCEPT ![r] = {}]
  /\ ran' = [ran EXCEPT ![r] = {}]
  /\ misread' = misread \ {r}
  /\ subject' = [subject EXCEPT ![r] = [head |-> FirstHead, base |-> FirstBase]]

Elsewhere == UNCHANGED <<receipts, prHead, prBase, checkRuns, checkout, sent, merged, moves>>

------------------------------------------------------------------------------
(* run(): from the observation of the pull request to a claimed attempt.   *)

\* observeOpenPullRequest().
ObserveHead(r) ==
  /\ vpc[r] = "idle"
  /\ merged = NoRow
  /\ subject' = [subject EXCEPT ![r] = [head |-> prHead, base |-> prBase]]
  /\ Goes(r, "reusing")
  /\ UNCHANGED <<attemptId, admitted, passed, ran>>
  /\ UNCHANGED <<attemptVars, misread>> /\ Elsewhere

Reuse(r) ==
  /\ vpc[r] = "reusing"
  /\ IF Reusable(r)
       THEN Returns(r)
       ELSE /\ Goes(r, "reaping")
            /\ UNCHANGED <<subject, attemptId, admitted, passed, ran, misread>>
  /\ UNCHANGED attemptVars /\ Elsewhere

\* Mutant of Reaped: whatever runs is taken for dead.
ReapedAnyway(h) == attempt[h] # NoRow /\ attempt[h].status = "running"

\* reapStale(): the running rows whose heartbeat fell behind the cutoff.
Reaped(h) == attempt[h] # NoRow /\ attempt[h].status = "running" /\ ~attempt[h].fresh

Reap(r) ==
  /\ vpc[r] = "reaping"
  /\ attempt' = [h \in Heads |-> IF Reaped(h) THEN NoRow ELSE attempt[h]]
  /\ Goes(r, "looking")
  /\ UNCHANGED <<subject, attemptId, admitted, passed, ran, late, misread>> /\ Elsewhere

\* decideVerificationAdmission(): one verification per process, and other
\* heavy work may be in the way at any time.
Room(r) == \A s \in admitted : ProcessOf[s] # ProcessOf[r]

\* findActive(), and the admission that follows it.
Look(r) ==
  /\ vpc[r] = "looking"
  /\ LET row == Row(r)
         queued == row # NoRow /\ row.status = "queued"
         id == IF queued THEN row.id ELSE FreshId
     IN \/ /\ row # NoRow /\ row.status = "running" /\ row.fresh
           /\ Returns(r)
        \/ /\ queued
           /\ Returns(r)                                  \* pressure: still queued
        \/ /\ ~(row # NoRow /\ row.status = "running" /\ row.fresh)
           /\ \/ /\ Room(r)
                 /\ admitted' = admitted \cup {r}
                 /\ Goes(r, IF queued THEN "claiming" ELSE "beginning")
              \/ /\ ~queued
                 /\ Goes(r, "queueing")
                 /\ UNCHANGED admitted
           /\ attemptId' = [attemptId EXCEPT ![r] = id]
           /\ UNCHANGED <<subject, passed, ran, misread>>
  /\ UNCHANGED attemptVars /\ Elsewhere

\* enqueue(): INSERT OR IGNORE under the partial unique index.
Enqueue(r) ==
  /\ vpc[r] = "queueing"
  /\ attempt' = IF Row(r) # NoRow THEN attempt
                ELSE [attempt EXCEPT ![subject[r].head] =
                        [id |-> attemptId[r], status |-> "queued", fresh |-> TRUE]]
  /\ Returns(r)
  /\ UNCHANGED late /\ Elsewhere

\* The row becomes running and its heartbeat starts.
Runs(r, id) ==
  /\ attempt' = [attempt EXCEPT ![subject[r].head] = [id |-> id, status |-> "running", fresh |-> TRUE]]
  /\ late' = late \ {r}
  /\ Goes(r, "inspecting")
  /\ UNCHANGED <<subject, attemptId, admitted, passed, ran, misread>>

\* begin(); a lost race adopts a queued row and gives way to a running one.
BeginAttempt(r) ==
  /\ vpc[r] = "beginning"
  /\ \/ Row(r) = NoRow /\ Runs(r, attemptId[r])
     \/ /\ Row(r) # NoRow /\ Row(r).status = "queued"
        /\ attemptId' = [attemptId EXCEPT ![r] = Row(r).id]
        /\ Goes(r, "claiming")
        /\ UNCHANGED <<subject, admitted, passed, ran, attemptVars, misread>>
     \/ /\ Row(r) # NoRow /\ Row(r).status = "running"
        /\ Returns(r)
        /\ UNCHANGED attemptVars
  /\ Elsewhere

\* claimQueued(): UPDATE ... WHERE attempt_id = ? AND status = 'queued'.
StillQueued(r) == Row(r) # NoRow /\ Row(r).id = attemptId[r] /\ Row(r).status = "queued"

ClaimQueued(r) ==
  /\ vpc[r] = "claiming"
  /\ \/ StillQueued(r) /\ Runs(r, attemptId[r])
     \/ ~StillQueued(r) /\ Returns(r) /\ UNCHANGED attemptVars
  /\ Elsewhere

------------------------------------------------------------------------------
(* verify(), for a claimed attempt.                                        *)

\* inspect(): HEAD is the exact head, the tree clean; then the workflow runs
\* of the head are read, once, for every github_check gate.
Inspect(r) ==
  /\ vpc[r] = "inspecting"
  /\ IF checkout = subject[r].head
       THEN /\ passed' = [passed EXCEPT ![r] =
                 {g \in CheckGates : <<g, subject[r].head>> \in checkRuns
                                       /\ subject[r].head \in PassesOn[g]}]
            /\ Goes(r, "gating")
       ELSE Goes(r, "finishing") /\ UNCHANGED passed
  /\ UNCHANGED <<subject, attemptId, admitted, ran, attemptVars, misread>> /\ Elsewhere

\* runLocalGate(): the command reads what is checked out now; its heartbeat
\* refreshes the row if the row still runs.
RunGate(r, g) ==
  /\ vpc[r] = "gating"
  /\ g \in LocalGates \ ran[r]
  /\ ran' = [ran EXCEPT ![r] = @ \cup {g}]
  /\ passed' = IF checkout \in PassesOn[g] THEN [passed EXCEPT ![r] = @ \cup {g}] ELSE passed
  /\ misread' = IF checkout # subject[r].head THEN misread \cup {r} ELSE misread
  /\ attempt' = IF Owns(r) THEN [attempt EXCEPT ![subject[r].head].fresh = TRUE] ELSE attempt
  /\ Goes(r, "ran")
  /\ UNCHANGED <<subject, attemptId, admitted, late>> /\ Elsewhere

\* Mutant of Recheck: the workspace is inspected once, before the gates.
RecheckNothing(r) ==
  /\ vpc[r] = "ran"
  /\ Goes(r, "gating")
  /\ UNCHANGED <<subject, attemptId, admitted, passed, ran, attemptVars, misread>> /\ Elsewhere

Recheck(r) ==
  /\ vpc[r] = "ran"
  /\ Goes(r, IF checkout = subject[r].head THEN "gating" ELSE "finishing")
  /\ UNCHANGED <<subject, attemptId, admitted, passed, ran, attemptVars, misread>> /\ Elsewhere

\* resolveReviewReceipt() and append(): the receipt is durable.  A review that
\* cannot be resolved, or a store that fails, ends the attempt without one.
Append(r) ==
  /\ vpc[r] = "gating"
  /\ ran[r] = LocalGates
  /\ \/ \E approved \in BOOLEAN :
          /\ Cardinality(receipts) < MaxReceipts
          /\ receipts' = receipts \cup
               {[head |-> subject[r].head, base |-> subject[r].base, passed |-> passed[r],
                 approved |-> approved, sound |-> r \notin misread]}
     \/ UNCHANGED receipts
  /\ Goes(r, "finishing")
  /\ UNCHANGED <<subject, attemptId, admitted, passed, ran, attemptVars, misread>>
  /\ UNCHANGED <<hubVars, checkout, sent, moves>>

\* finish(), or markInterrupted() when verify() threw: only a running row of
\* this attempt is closed.
FinishAttempt(r) ==
  /\ vpc[r] = "finishing"
  /\ attempt' = IF Owns(r) THEN [attempt EXCEPT ![subject[r].head] = NoRow] ELSE attempt
  /\ Returns(r)
  /\ UNCHANGED late /\ Elsewhere

------------------------------------------------------------------------------
(* The guarded merge and the world outside.                                *)

\* GuardedMergeService.dispatch(): head, base and receipt come with the call.
Dispatch(h) ==
  /\ merged = NoRow
  /\ \E receipt \in receipts, base \in Bases \cup {NoRow} : Allows(receipt, h, base)
  /\ sent' = sent \cup {h}
  /\ UNCHANGED <<attemptVars, runnerVars, misread, receipts, hubVars, checkout, moves>>

\* The merge API with sha=head: GitHub merges only the head it is given.
HubMerges(h) ==
  /\ h \in sent
  /\ sent' = sent \ {h}
  /\ merged' = IF merged = NoRow /\ prHead = h THEN h ELSE merged
  /\ UNCHANGED <<attemptVars, runnerVars, misread, receipts, prHead, prBase, checkRuns,
                 checkout, moves>>

Moves == moves < MaxMoves /\ moves' = moves + 1

\* The author pushes, the base branch moves, a workflow completes.
HubMoves ==
  /\ merged = NoRow
  /\ Moves
  /\ \/ prHead' \in Heads \ {prHead} /\ UNCHANGED <<prBase, checkRuns>>
     \/ prBase' \in Bases \ {prBase} /\ UNCHANGED <<prHead, checkRuns>>
     \/ /\ \E g \in CheckGates, h \in Heads : checkRuns' = checkRuns \cup {<<g, h>>}
        /\ UNCHANGED <<prHead, prBase>>
  /\ UNCHANGED <<attemptVars, runnerVars, misread, receipts, checkout, sent, merged>>

\* Somebody checks another commit out in the registered workspace.
CheckOut(h) ==
  /\ h # checkout
  /\ Moves
  /\ checkout' = h
  /\ misread' = {r \in misread : subject[r].head # h}
  /\ UNCHANGED <<attemptVars, runnerVars, receipts, hubVars, sent>>

\* No beat for ATTEMPT_STALE_AFTER_MS: the runner is dead or suspended.
HeartbeatExpires(h) ==
  /\ attempt[h] # NoRow
  /\ attempt[h].status = "running"
  /\ attempt[h].fresh
  /\ \A r \in Runners : vpc[r] \in Verifying /\ subject[r].head = h /\ Owns(r) => r \in MayDie
  /\ attempt' = [attempt EXCEPT ![h].fresh = FALSE]
  /\ late' = late \cup {r \in Runners : vpc[r] \in Verifying /\ subject[r].head = h /\ Owns(r)}
  /\ UNCHANGED <<runnerVars, misread>> /\ Elsewhere

\* A process dies with its runner; its in-memory lease dies with it.
Dies(r) ==
  /\ r \in MayDie
  /\ vpc[r] \notin {"idle", "dead"}
  /\ Goes(r, "dead")
  /\ admitted' = admitted \ {r}
  /\ attemptId' = [attemptId EXCEPT ![r] = NoRow]
  /\ passed' = [passed EXCEPT ![r] = {}]
  /\ ran' = [ran EXCEPT ![r] = {}]
  /\ misread' = misread \ {r}
  /\ UNCHANGED <<subject, attemptVars>> /\ Elsewhere

VerifyNext ==
  \/ \E r \in Runners :
       \/ ObserveHead(r) \/ Reuse(r) \/ Reap(r) \/ Look(r) \/ Enqueue(r)
       \/ BeginAttempt(r) \/ ClaimQueued(r)
       \/ Inspect(r) \/ (\E g \in LocalGates : RunGate(r, g)) \/ Recheck(r)
       \/ Append(r) \/ FinishAttempt(r) \/ Dies(r)
  \/ \E h \in Heads : Dispatch(h) \/ HubMerges(h) \/ CheckOut(h) \/ HeartbeatExpires(h)
  \/ HubMoves

VerifySpec == VerifyInit /\ [][VerifyNext]_verifyVars

------------------------------------------------------------------------------
(* What the verification promises.                                         *)

(* Two runners verify the same head at the same time only when one of them *)
(* went ATTEMPT_STALE_AFTER_MS without a beat: the partial unique index,   *)
(* claimQueued() and finish() keep attempts apart across processes.        *)
OneRunPerHead ==
  \A r, s \in Runners :
    r # s /\ vpc[r] \in Verifying /\ vpc[s] \in Verifying /\ subject[r].head = subject[s].head
      => r \in late \/ s \in late

(* What GitHub merged through guarded_pr_merge was verified: every gate    *)
(* passed and read exactly the merged head, or the workspace left that     *)
(* head and came back within one gate, which the two inspections around    *)
(* the gate cannot see.  A push, a base move or another receipt in between *)
(* makes no difference.                                                    *)
MergedWasVerified ==
  merged # NoRow =>
    \E receipt \in receipts : Allows(receipt, merged, NoRow) /\ receipt.sound
=============================================================================
