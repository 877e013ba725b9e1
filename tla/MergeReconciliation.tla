-------------------------- MODULE MergeReconciliation --------------------------
(***************************************************************************)
(* Post-merge reconciliation of one repository                             *)
(* (github-merge-reconciliation-poller.ts, merge-reconciliation-service.ts *)
(* and their tables): a poller pages through the closed pull requests that *)
(* changed since its durable cursor, records immutable evidence for every  *)
(* merge, advances the canonical ref once and only then moves the cursor.  *)
(*                                                                         *)
(* Time is in seconds, the resolution of GitHub's timestamps.  A page      *)
(* holds one pull request.  Merge number n of the default branch is commit *)
(* n; the canonical ref and the checkout's remote-tracking ref name the    *)
(* newest commit they contain.                                             *)
(***************************************************************************)
EXTENDS Naturals, FiniteSets

CONSTANTS PullRequests, NoCursor, NoRecord,
          Pollers,
          ManualCalls,   \* merge_reconcile calls, by whether they name the receipt
          MaxPages,
          MaxClock, MaxHubEvents, MaxFailures   \* bounds

VARIABLES
  clock, hubEvents, failures,
  hub,        \* pull request -> its state on GitHub
  branch,     \* commits on the default branch
  receipted,  \* pull requests with an allowing exact-head receipt
  policy,     \* version of the repository's merge policy
  cursor,     \* the durable poll cursor
  history,    \* merge_reconciliation_records: pull request -> evidence
  tracking,   \* refs/remotes/origin/<branch> of the checkout
  canonical,  \* the canonical ref
  ppc,        \* poller -> where its pass is
  base,       \* poller -> the cursor its pass started from
  page,       \* poller -> the next page
  updates,    \* poller -> what it read of the feed
  todo,       \* poller -> candidates not reconciled yet
  terminal,   \* poller -> the updates marked terminal
  evidence,   \* poller -> the policy of its pass and the evidence about to be appended
  newest,     \* poller -> the newest reconciled merge commit, 0 for none
  pinned,     \* poller -> the commit the ancestry check approved, with the
              \* canonical state its advance read
  shifted     \* ghost: a reopened pull request moved the pages under a pass

hubState == <<clock, hubEvents, hub, branch, receipted, policy>>
durable == <<cursor, history, tracking, canonical>>
passVars == <<base, page, updates, todo, terminal, evidence, newest, pinned>>
reconVars == <<clock, hubEvents, failures, hub, branch, receipted, policy, cursor, history, tracking,
               canonical, ppc, base, page, updates, todo, terminal, evidence, newest, pinned, shifted>>

Times == 0..MaxClock
Commits == 0..Cardinality(PullRequests)
HubStates == [state : {"open", "closed", "merged"}, updated : Times, at : Times, commit : Commits]
Cursors == [started : Times, mark : Times, seen : SUBSET PullRequests]
Evidence == [receipt : BOOLEAN, policy : {1, 2}]
Updates == [pr : PullRequests, updated : Times, merged : BOOLEAN, at : Times, commit : Commits]
NoEvidence == [receipt |-> FALSE, policy |-> 1]

\* Pull requests are numbered, and a page number is at least one.
ReconAssumption ==
  /\ PullRequests \subseteq Nat /\ IsFiniteSet(PullRequests)
  /\ MaxPages \in Nat \ {0}
  /\ {MaxClock, MaxHubEvents, MaxFailures} \subseteq Nat
  /\ NoCursor \notin Cursors /\ NoRecord \notin Evidence

ReconTypeOK ==
  /\ clock \in Times /\ hubEvents \in 0..MaxHubEvents /\ failures \in 0..MaxFailures
  /\ hub \in [PullRequests -> HubStates]
  /\ branch \in Commits
  /\ receipted \subseteq PullRequests
  /\ policy \in {1, 2}
  /\ cursor \in Cursors \cup {NoCursor}
  /\ cursor # NoCursor => cursor.started <= cursor.mark
  /\ history \in [PullRequests -> Evidence \cup {NoRecord}]
  /\ tracking \in 0..branch /\ canonical \in 0..branch
  /\ ppc \in [Pollers -> {"idle", "paging", "picking", "appending", "fetching", "advancing", "storing"}]
  /\ base \in [Pollers -> Cursors \cup {NoCursor}]
  /\ page \in [Pollers -> 1..MaxPages + 1]
  /\ \A q \in Pollers : updates[q] \subseteq Updates /\ todo[q] \subseteq updates[q]
                        /\ terminal[q] \subseteq updates[q]
  /\ evidence \in [Pollers -> Evidence]
  /\ newest \in [Pollers -> Commits]
  /\ pinned \in [Pollers -> Commits \X Commits]
  /\ shifted \in BOOLEAN

ReconInit ==
  /\ clock = 0 /\ hubEvents = 0 /\ failures = 0
  /\ hub = [p \in PullRequests |-> [state |-> "open", updated |-> 0, at |-> 0, commit |-> 0]]
  /\ branch = 0
  /\ receipted = {}
  /\ policy = 1
  /\ cursor = NoCursor
  /\ history = [p \in PullRequests |-> NoRecord]
  /\ tracking = 0 /\ canonical = 0
  /\ ppc = [q \in Pollers |-> "idle"]
  /\ base = [q \in Pollers |-> NoCursor]
  /\ page = [q \in Pollers |-> 1]
  /\ updates = [q \in Pollers |-> {}]
  /\ todo = [q \in Pollers |-> {}]
  /\ terminal = [q \in Pollers |-> {}]
  /\ evidence = [q \in Pollers |-> NoEvidence]
  /\ newest = [q \in Pollers |-> 0]
  /\ pinned = [q \in Pollers |-> <<0, 0>>]
  /\ shifted = FALSE

Steps(q, to) == ppc' = [ppc EXCEPT ![q] = to]

\* The pass is over, however it ended; what it held in memory is gone.
PassEnds(q) ==
  /\ Steps(q, "idle")
  /\ base' = [base EXCEPT ![q] = NoCursor]
  /\ page' = [page EXCEPT ![q] = 1]
  /\ updates' = [updates EXCEPT ![q] = {}]
  /\ todo' = [todo EXCEPT ![q] = {}]
  /\ terminal' = [terminal EXCEPT ![q] = {}]
  /\ evidence' = [evidence EXCEPT ![q] = NoEvidence]
  /\ newest' = [newest EXCEPT ![q] = 0]
  /\ pinned' = [pinned EXCEPT ![q] = <<0, 0>>]

------------------------------------------------------------------------------
(* reconcileRepository().                                                  *)

\* The policies are read once per pass; then the stored cursor, or a new epoch
\* that starts now and is stored first.
StartPass(q) ==
  LET c == IF cursor # NoCursor THEN cursor ELSE [started |-> clock, mark |-> clock, seen |-> {}]
  IN /\ ppc[q] = "idle"
     /\ cursor' = c
     /\ base' = [base EXCEPT ![q] = c]
     /\ evidence' = [evidence EXCEPT ![q].policy = policy]
     /\ Steps(q, "paging")
     /\ UNCHANGED <<hubState, failures, history, tracking, canonical, page, updates, todo, terminal,
                    newest, pinned, shifted>>

\* The feed: closed pull requests, latest update first.
Listed == {p \in PullRequests : hub[p].state # "open"}
Rank(p) == Cardinality({o \in Listed : hub[o].updated > hub[p].updated
                                         \/ (hub[o].updated = hub[p].updated /\ o >= p)})
OnPage(n) == {p \in Listed : Rank(p) = n}
Update(p) == [pr |-> p, updated |-> hub[p].updated, merged |-> hub[p].state = "merged",
              at |-> hub[p].at, commit |-> hub[p].commit]

\* Mutant of AfterCursor: the second of the watermark counts as done.
AfterMark(u, c) == u.updated > c.mark

\* isAfterCursor().
AfterCursor(u, c) == u.updated > c.mark \/ (u.updated = c.mark /\ u.pr \notin c.seen)

\* The candidates: merged since the epoch began, and after the cursor.
Candidates(us, c) == {u \in us : AfterCursor(u, c) /\ u.merged /\ u.at >= c.started}
Historical(us, c) == {u \in us : AfterCursor(u, c) /\ u.merged /\ u.at < c.started}

\* listUpdatedClosed() reads a page; an empty page, or one that crosses the
\* watermark, is the last.  A feed longer than MaxPages is given up.
ReadPage(q) ==
  /\ ppc[q] = "paging"
  /\ LET us == updates[q] \cup {Update(p) : p \in OnPage(page[q])}
         last == OnPage(page[q]) = {} \/ \E u \in us : u.updated < base[q].mark
     IN IF last
          THEN /\ updates' = [updates EXCEPT ![q] = us]
               /\ todo' = [todo EXCEPT ![q] = Candidates(us, base[q])]
               /\ terminal' = [terminal EXCEPT ![q] = Historical(us, base[q])]
               /\ Steps(q, "picking")
               /\ UNCHANGED <<base, page, evidence, newest, pinned>>
          ELSE IF page[q] = MaxPages
                 THEN PassEnds(q)
                 ELSE /\ updates' = [updates EXCEPT ![q] = us]
                      /\ page' = [page EXCEPT ![q] = @ + 1]
                      /\ UNCHANGED <<ppc, base, todo, terminal, evidence, newest, pinned>>
  /\ UNCHANGED <<hubState, failures, durable, shifted>>

\* compareUpdatesAscending().
Earliest(us) == CHOOSE u \in us : \A v \in us : u.updated < v.updated \/ (u.updated = v.updated /\ u.pr <= v.pr)

\* AutomaticMergeReconciliationService selects the receipt of the observed head.
Pick(q) ==
  /\ ppc[q] = "picking"
  /\ IF todo[q] = {}
       THEN Steps(q, IF newest[q] = 0 THEN "storing" ELSE "fetching") /\ UNCHANGED evidence
       ELSE /\ evidence' = [evidence EXCEPT ![q].receipt = Earliest(todo[q]).pr \in receipted]
            /\ Steps(q, "appending")
  /\ UNCHANGED <<hubState, failures, durable, base, page, updates, todo, terminal, newest, pinned, shifted>>

\* Mutant of Conflicts: a record that is there already is a conflict.
ConflictsAlways(p, e) == history[p] # NoRecord

\* append(): a record is immutable; other evidence under its ref is a conflict.
Conflicts(p, e) == history[p] # NoRecord /\ history[p] # e

AppendRecord(q) ==
  /\ ppc[q] = "appending"
  /\ LET u == Earliest(todo[q])
         e == evidence[q]
     IN IF Conflicts(u.pr, e)
          THEN PassEnds(q) /\ UNCHANGED history                  \* inspect_required
          ELSE /\ history' = [history EXCEPT ![u.pr] = e]
               /\ todo' = [todo EXCEPT ![q] = @ \ {u}]
               /\ terminal' = [terminal EXCEPT ![q] = @ \cup {u}]
               /\ newest' = IF e.receipt /\ \A v \in updates[q] : v.commit = newest[q] => v.at <= u.at
                              THEN [newest EXCEPT ![q] = u.commit] ELSE newest
               /\ Steps(q, "picking")
               /\ UNCHANGED <<base, page, updates, evidence, pinned>>
  /\ UNCHANGED <<hubState, failures, cursor, tracking, canonical, shifted>>

------------------------------------------------------------------------------
(* canonical-merge-advance.ts.                                             *)

\* git fetch, the ancestry check, and the ref state the advance starts from;
\* whatever goes wrong is a refusal, and the pass goes on.
Fetch(q) ==
  /\ ppc[q] = "fetching"
  /\ \/ /\ newest[q] <= branch
        /\ tracking' = branch
        /\ pinned' = [pinned EXCEPT ![q] = <<branch, canonical>>]
        /\ Steps(q, "advancing")
        /\ UNCHANGED failures
     \/ /\ failures < MaxFailures
        /\ failures' = failures + 1
        /\ Steps(q, "storing")
        /\ UNCHANGED <<tracking, pinned>>
  /\ UNCHANGED <<hubState, cursor, history, canonical, base, page, updates, todo, terminal, evidence,
                 newest, shifted>>

\* advanceRevisionFromGit(): refused when the tracking ref moved off the pinned
\* commit, a conflict when another promotion moved the canonical ref.
Advance(q) ==
  /\ ppc[q] = "advancing"
  /\ canonical' = IF tracking = pinned[q][1] /\ canonical = pinned[q][2] THEN pinned[q][1] ELSE canonical
  /\ Steps(q, "storing")
  /\ UNCHANGED <<hubState, failures, cursor, history, tracking, passVars, shifted>>

\* advanceCursor().
Watermark(q) ==
  CHOOSE t \in Times : /\ t = base[q].mark \/ \E u \in updates[q] : u.updated = t
                       /\ t >= base[q].mark /\ \A u \in updates[q] : u.updated <= t
NextCursor(q) ==
  [started |-> base[q].started, mark |-> Watermark(q),
   seen |-> (IF Watermark(q) = base[q].mark THEN base[q].seen ELSE {})
              \cup {u.pr : u \in {v \in terminal[q] : v.updated = Watermark(q)}}]

\* An unchanged cursor is not written.
Store(q) ==
  /\ ppc[q] = "storing"
  /\ cursor' = IF NextCursor(q) = base[q] THEN cursor ELSE NextCursor(q)
  /\ PassEnds(q)
  /\ UNCHANGED <<hubState, failures, history, tracking, canonical, shifted>>

\* The provider, a store or the process fails: the pass ends where it is.
PassFails(q) ==
  /\ ppc[q] # "idle"
  /\ failures < MaxFailures
  /\ failures' = failures + 1
  /\ PassEnds(q)
  /\ UNCHANGED <<hubState, durable, shifted>>

------------------------------------------------------------------------------
(* merge_reconcile, and the world outside.                                 *)

\* An agent reconciles one pull request, naming a receipt or none.
MergeReconcile(p, named) ==
  LET e == [receipt |-> named /\ p \in receipted, policy |-> policy]
  IN /\ hub[p].state = "merged"
     /\ named \in ManualCalls
     /\ history[p] = NoRecord
     /\ history' = [history EXCEPT ![p] = e]
     /\ UNCHANGED <<hubState, failures, cursor, tracking, canonical, ppc, passVars, shifted>>

Happens == hubEvents < MaxHubEvents /\ hubEvents' = hubEvents + 1

HubEvent(p) ==
  /\ Happens
  /\ \/ /\ hub[p].state = "open"
        /\ \/ /\ hub' = [hub EXCEPT ![p] = [state |-> "merged", updated |-> clock, at |-> clock,
                                            commit |-> branch + 1]]
              /\ branch' = branch + 1
           \/ /\ hub' = [hub EXCEPT ![p] = [@ EXCEPT !.state = "closed", !.updated = clock]]
              /\ UNCHANGED branch
        /\ UNCHANGED <<receipted, policy, shifted>>
     \/ /\ hub[p].state = "closed"
        /\ hub' = [hub EXCEPT ![p] = [@ EXCEPT !.state = "open"]]
        /\ shifted' = (shifted \/ \E q \in Pollers : ppc[q] = "paging" /\ page[q] > 1)
        /\ UNCHANGED <<branch, receipted, policy>>
     \/ /\ hub[p].state # "open"
        /\ hub' = [hub EXCEPT ![p].updated = clock]
        /\ UNCHANGED <<branch, receipted, policy, shifted>>
     \/ /\ receipted' = receipted \cup {p}
        /\ UNCHANGED <<hub, branch, policy, shifted>>
  /\ UNCHANGED <<clock, failures, durable, ppc, passVars>>

EditPolicy ==
  /\ Happens
  /\ policy = 1
  /\ policy' = 2
  /\ UNCHANGED <<clock, hub, branch, receipted, failures, durable, ppc, passVars, shifted>>

Tick ==
  /\ clock < MaxClock
  /\ clock' = clock + 1
  /\ UNCHANGED <<hubEvents, hub, branch, receipted, policy, failures, durable, ppc, passVars, shifted>>

PollStep(q) ==
  \/ StartPass(q) \/ ReadPage(q) \/ Pick(q) \/ AppendRecord(q) \/ Fetch(q) \/ Advance(q) \/ Store(q)

ReconNext ==
  \/ \E q \in Pollers : PollStep(q) \/ PassFails(q)
  \/ \E p \in PullRequests : HubEvent(p) \/ \E named \in BOOLEAN : MergeReconcile(p, named)
  \/ EditPolicy
  \/ Tick

ReconSpec == ReconInit /\ [][ReconNext]_reconVars
ReconFairSpec == ReconSpec /\ \A q \in Pollers : WF_reconVars(PollStep(q))

------------------------------------------------------------------------------
(* What the reconciliation promises.                                       *)

\* A merge of the poller's epoch.
Due(p) == cursor # NoCursor /\ hub[p].state = "merged" /\ hub[p].at >= cursor.started

\* A recorded merge whose evidence would read differently today.
Disputed(p) ==
  history[p] # NoRecord /\ history[p] # [receipt |-> p \in receipted, policy |-> policy]

(* The cursor passes no merge by: a merge of the epoch that a later pass   *)
(* would not look at has its record, whatever crashed or was updated in    *)
(* the watermark's own second, unless a reopened pull request pulled the   *)
(* pages up under a pass.                                                  *)
NoMergeSkipped ==
  shifted \/ \A p \in PullRequests :
    Due(p) /\ ~AfterCursor(Update(p), cursor) => history[p] # NoRecord

\* What closed or changed since the watermark fills every page: each pass gives up.
FeedTruncated ==
  cursor # NoCursor /\ Cardinality({p \in Listed : hub[p].updated >= cursor.mark}) >= MaxPages

(* Every merge of the epoch is recorded in the end, unless the evidence of *)
(* some record would read differently today, a conflict that ends every    *)
(* pass, or more pull requests changed since the watermark than the pages  *)
(* of a pass hold: such a feed is given up, and the cursor stays.          *)
MergesRecorded ==
  []<>(shifted \/ FeedTruncated \/ \A p \in PullRequests :
         Due(p) => history[p] # NoRecord \/ \E o \in PullRequests : Disputed(o))

(* The same without the exception: a recorded merge does not conflict with *)
(* its own re-observation and stall the cursor for every other merge.      *)
CursorNotStalled == []<>(shifted \/ \A p \in PullRequests : Due(p) => history[p] # NoRecord)
=============================================================================
