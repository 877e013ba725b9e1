----------------------------- MODULE CanonicalRefs -----------------------------
(***************************************************************************)
(* The durable compare-and-swap of one canonical ref                       *)
(* (workspace/canonical-ref-store.ts): promoters, each in a process of its *)
(* own, serialise on a lock file next to the ref.  Every step that touches *)
(* the lock file or the ref file is an action; POSIX has no                *)
(* compare-and-delete, so removing a lock is to rename it aside, to look   *)
(* at what was taken and to link it back when it was another's.            *)
(*                                                                         *)
(* A lock file is named by the promoter whose token it holds (the token is *)
(* written as the file is created).  Its mtime is abstracted to staleLock: *)
(* older than LOCK_STALE_MS.  The holder touches the file every 15 s, but  *)
(* the touch swallows its failures and needs a process that runs: a live   *)
(* holder that is suspended, or cannot write, is reclaimed like a dead one *)
(* and finds out when it reads its lock back before the write.             *)
(***************************************************************************)
CONSTANTS Promoters, Unset,
          TargetOf,    \* promoter -> the state it promotes the ref to
          Verified,    \* the promoters whose target was verified
          MayCrash,    \* bound: the promoters that may die
          MayStall     \* bound: the promoters whose heartbeat may fail while they live

\* No promoter is mistaken for the absence of one.
RefAssumption == Unset \notin Promoters

VARIABLES
  lock,       \* the promoter whose token is in the lock file, Unset for no file
  staleLock,  \* the lock's heartbeat is older than LOCK_STALE_MS
  aside,      \* promoter -> the token in the file it moved aside
  rpc,        \* promoter -> where it is in promote()
  seen,       \* promoter -> the token reclaimStaleLock() observed as stale
  expected,   \* promoter -> expectedCurrent
  head,       \* the state in the ref file
  verdict,    \* promoter -> what promote() is going to answer
  replaced    \* ghost: promoters that could still write when another one locked

refVars == <<lock, staleLock, aside, rpc, seen, expected, head, verdict, replaced>>

States == {TargetOf[p] : p \in Promoters}
Waiting == {"locking", "observed", "claimed"}
Holding == {"locked", "decided", "verified"}
Releasing == {"releasing", "freeing", "freed"}
Ended == {"done", "crashed"}

RefTypeOK ==
  /\ lock \in Promoters \cup {Unset}
  /\ staleLock \in BOOLEAN
  /\ staleLock => lock # Unset
  /\ aside \in [Promoters -> Promoters \cup {Unset}]
  /\ rpc \in [Promoters -> {"idle"} \cup Waiting \cup Holding \cup Releasing \cup Ended]
  /\ seen \in [Promoters -> Promoters \cup {Unset}]
  /\ expected \in [Promoters -> States \cup {Unset}]
  /\ head \in States \cup {Unset}
  /\ verdict \in [Promoters -> {"none", "promote", "noop", "conflict", "unverified",
                                "lost", "locked_out"}]
  /\ replaced \subseteq Promoters

RefInit ==
  /\ lock = Unset
  /\ staleLock = FALSE
  /\ aside = [p \in Promoters |-> Unset]
  /\ rpc = [p \in Promoters |-> "idle"]
  /\ seen = [p \in Promoters |-> Unset]
  /\ expected = [p \in Promoters |-> Unset]
  /\ head = Unset
  /\ verdict = [p \in Promoters |-> "none"]
  /\ replaced = {}

MovesTo(p, to) == rpc' = [rpc EXCEPT ![p] = to]
Answers(p, v) == verdict' = [verdict EXCEPT ![p] = v]

------------------------------------------------------------------------------
(* acquireRefLock().                                                       *)

\* The caller reads the ref and asks for a promotion from what it read.
Begin(p) ==
  /\ rpc[p] = "idle"
  /\ expected' = [expected EXCEPT ![p] = head]
  /\ MovesTo(p, "locking")
  /\ UNCHANGED <<lock, staleLock, aside, seen, head, verdict, replaced>>

\* The lock of q was moved aside by a promoter that will try to put it back.
Returnable(q) ==
  \E r \in Promoters :
    /\ aside[r] = q
    /\ \/ rpc[r] = "claimed" /\ seen[r] # q
       \/ rpc[r] = "freed" /\ r # q

\* Without a lock file a promoter writes still when it has read its lock back
\* already, or when its lock comes back before it reads it.
WritesStill(q) == rpc[q] = "verified" \/ (rpc[q] \in Holding /\ Returnable(q))

\* createLockFile(): open with 'wx' and write the token.
CreateLock(p) ==
  /\ rpc[p] = "locking"
  /\ lock = Unset
  /\ lock' = p
  /\ replaced' = replaced \cup {q \in Promoters : WritesStill(q)}
  /\ MovesTo(p, "locked")
  /\ UNCHANGED <<staleLock, aside, seen, expected, head, verdict>>

\* The lock exists: observeLock() reads its token and age; a lock that is not
\* stale is left alone, and the promoter sleeps and tries again.
ObserveLock(p) ==
  /\ rpc[p] = "locking"
  /\ lock # Unset
  /\ staleLock
  /\ seen' = [seen EXCEPT ![p] = lock]
  /\ MovesTo(p, "observed")
  /\ UNCHANGED <<lock, staleLock, aside, expected, head, verdict, replaced>>

\* LOCK_WAIT_MS have passed: promote() throws.
TimesOut(p) ==
  /\ rpc[p] = "locking"
  /\ lock # Unset
  /\ ~staleLock
  /\ Answers(p, "locked_out")
  /\ MovesTo(p, "done")
  /\ UNCHANGED <<lock, staleLock, aside, seen, expected, head, replaced>>

\* claimLockFile(): whatever lock is there now is renamed aside.
TakeAside(p, next) ==
  /\ aside' = [aside EXCEPT ![p] = lock]
  /\ lock' = Unset
  /\ staleLock' = FALSE
  /\ MovesTo(p, next)

\* reclaimStaleLock() claims; nothing there means retry now.
ClaimLock(p) ==
  /\ rpc[p] = "observed"
  /\ \/ lock # Unset /\ TakeAside(p, "claimed")
     \/ lock = Unset /\ MovesTo(p, "locking") /\ UNCHANGED <<lock, staleLock, aside>>
  /\ UNCHANGED <<seen, expected, head, verdict, replaced>>

\* Mutant of PutBack: the claimed file is linked back whatever is in it.
PutBackAlways(p, mine) ==
  /\ IF lock = Unset
       THEN lock' = aside[p] /\ staleLock' = FALSE
       ELSE UNCHANGED <<lock, staleLock>>
  /\ aside' = [aside EXCEPT ![p] = Unset]

\* The claimed file is removed when it is the one meant, and otherwise linked
\* back (restoreClaimedLock()); the link fails when there is a lock again, and
\* then the claimed one is dropped.
PutBack(p, mine) ==
  /\ IF aside[p] # mine /\ lock = Unset
       THEN lock' = aside[p] /\ staleLock' = FALSE
       ELSE UNCHANGED <<lock, staleLock>>
  /\ aside' = [aside EXCEPT ![p] = Unset]

SettleClaim(p) ==
  /\ rpc[p] = "claimed"
  /\ PutBack(p, seen[p])
  /\ seen' = [seen EXCEPT ![p] = Unset]
  /\ MovesTo(p, "locking")
  /\ UNCHANGED <<expected, head, verdict, replaced>>

------------------------------------------------------------------------------
(* promoteLocked().                                                        *)

\* The first-ever branch, and decideCanonicalAdvancement() otherwise.
Decision(p) ==
  IF head = Unset
  THEN IF p \notin Verified THEN "unverified"
       ELSE IF expected[p] # Unset THEN "conflict" ELSE "promote"
  ELSE IF expected[p] # head THEN "conflict"
       ELSE IF head = TargetOf[p] THEN "noop"
       ELSE IF p \in Verified THEN "promote" ELSE "unverified"

Decide(p) ==
  /\ rpc[p] = "locked"
  /\ Answers(p, Decision(p))
  /\ MovesTo(p, IF Decision(p) = "promote" THEN "decided" ELSE "releasing")
  /\ UNCHANGED <<lock, staleLock, aside, seen, expected, head, replaced>>

\* Mutant of VerifyLock: the lock is not read back before the write.
VerifyUnread(p) ==
  /\ rpc[p] = "decided"
  /\ MovesTo(p, "verified")
  /\ UNCHANGED <<lock, staleLock, aside, seen, expected, head, verdict, replaced>>

\* writeRefState() reads the lock back; a lock lost is a refusal.
VerifyLock(p) ==
  /\ rpc[p] = "decided"
  /\ \/ lock = p /\ MovesTo(p, "verified") /\ UNCHANGED verdict
     \/ lock # p /\ MovesTo(p, "releasing") /\ Answers(p, "lost")
  /\ UNCHANGED <<lock, staleLock, aside, seen, expected, head, replaced>>

\* ... and renames the new state over the ref.
RenameRef(p) ==
  /\ rpc[p] = "verified"
  /\ head' = TargetOf[p]
  /\ MovesTo(p, "releasing")
  /\ UNCHANGED <<lock, staleLock, aside, seen, expected, verdict, replaced>>

------------------------------------------------------------------------------
(* release().                                                              *)

ObserveOwn(p) ==
  /\ rpc[p] = "releasing"
  /\ MovesTo(p, IF lock = p THEN "freeing" ELSE "done")
  /\ UNCHANGED <<lock, staleLock, aside, seen, expected, head, verdict, replaced>>

ClaimOwn(p) ==
  /\ rpc[p] = "freeing"
  /\ \/ lock # Unset /\ TakeAside(p, "freed")
     \/ lock = Unset /\ MovesTo(p, "done") /\ UNCHANGED <<lock, staleLock, aside>>
  /\ UNCHANGED <<seen, expected, head, verdict, replaced>>

SettleOwn(p) ==
  /\ rpc[p] = "freed"
  /\ PutBack(p, p)
  /\ MovesTo(p, "done")
  /\ UNCHANGED <<seen, expected, head, verdict, replaced>>

------------------------------------------------------------------------------
\* A promoter dies; what it left on disk stays.
CrashPromoter(p) ==
  /\ p \in MayCrash
  /\ rpc[p] \notin Ended \cup {"idle"}
  /\ MovesTo(p, "crashed")
  /\ UNCHANGED <<lock, staleLock, aside, seen, expected, head, verdict, replaced>>

\* The lock of a promoter that has ended reaches LOCK_STALE_MS.
LockAges ==
  /\ lock # Unset
  /\ ~staleLock
  /\ rpc[lock] \in Ended
  /\ staleLock' = TRUE
  /\ UNCHANGED <<lock, aside, rpc, seen, expected, head, verdict, replaced>>

\* So does that of a live one whose touches fail, or that is suspended.
LockLapses(p) ==
  /\ p \in MayStall
  /\ lock = p
  /\ ~staleLock
  /\ rpc[p] \notin Ended
  /\ staleLock' = TRUE
  /\ UNCHANGED <<lock, aside, rpc, seen, expected, head, verdict, replaced>>

\* touchLock(): the holder's timer, which release() clears, beats again.
Beat(p) ==
  /\ lock = p
  /\ staleLock
  /\ rpc[p] \in Holding
  /\ staleLock' = FALSE
  /\ UNCHANGED <<lock, aside, rpc, seen, expected, head, verdict, replaced>>

PromoterStep(p) ==
  \/ CreateLock(p) \/ ObserveLock(p) \/ ClaimLock(p) \/ SettleClaim(p)
  \/ Decide(p) \/ VerifyLock(p) \/ RenameRef(p)
  \/ ObserveOwn(p) \/ ClaimOwn(p) \/ SettleOwn(p)

RefNext ==
  \/ \E p \in Promoters :
       Begin(p) \/ PromoterStep(p) \/ TimesOut(p) \/ CrashPromoter(p) \/ LockLapses(p) \/ Beat(p)
  \/ LockAges

RefSpec == RefInit /\ [][RefNext]_refVars
\* Time passes and the promoters' sleeps end; nobody has to give up or to beat.
RefFairness == WF_refVars(LockAges) /\ \A p \in Promoters : WF_refVars(PromoterStep(p))
RefFairSpec == RefSpec /\ RefFairness

------------------------------------------------------------------------------
(* What the store promises.                                                *)

(* A promotion never overwrites a state its promoter did not expect: read, *)
(* decide and write are one critical section, also when the lock of a dead *)
(* or a live promoter is reclaimed, unless another promoter locks while a  *)
(* reclaimed one is between reading its lock back and the rename, or while *)
(* a lock that was moved aside by mistake is on its way back.              *)
PromotionsChain ==
  [][replaced = {} => \A p \in Promoters : RenameRef(p) => head = expected[p]]_refVars

\* What the caller of promote() knows: a call that has not written is pending.
Told(p) ==
  CASE rpc[p] = "idle" -> "idle"
    [] rpc[p] = "crashed" -> "died"
    [] rpc[p] \in Waiting \cup Holding -> "pending"
    [] OTHER -> verdict[p]

Register == INSTANCE CanonicalRegister WITH
  ref <- head, expects <- expected,
  answer <- [p \in Promoters |-> Told(p)], whole <- (replaced = {})

(* promote() is one atomic compare-and-swap: a caller told of a promotion, *)
(* a conflict or a state already there was told what the ref held at one   *)
(* step of its call, a promotion takes effect once and only from the state *)
(* its promoter expected, and a call that throws wrote nothing; all that   *)
(* under the exception PromotionsChain names.                              *)
RegisterImplemented == Register!Spec

(* A dead or silent promoter's lock keeps nobody out: every promotion that *)
(* was asked for ends, though nobody gives up waiting.                     *)
LockFreed == <>[](\A p \in Promoters : rpc[p] \in Ended \cup {"idle"})
=============================================================================
