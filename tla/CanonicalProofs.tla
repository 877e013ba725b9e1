---------------------------- MODULE CanonicalProofs ----------------------------
(***************************************************************************)
(* The canonical store: the promotions of a ref chain, then the fence of   *)
(* the destructive passes that collect what no root names.                 *)
(***************************************************************************)
EXTENDS CanonicalGc, CanonicalRefs, TLAPS

-----------------------------------------------------------------------------
(***************************************************************************)
(* Promotions of a canonical ref chain, for any number of promoters of     *)
(* which any may die at any step and any live one may lose its lock to a   *)
(* silent heartbeat, as long as nobody locks beside a promoter that could  *)
(* still write (the ghost `replaced`, the two gaps CanonicalRefs names).   *)
(*                                                                         *)
(* A promoter is live when nothing that is there stops its write: its lock *)
(* is in place, or is on its way back, or it has read it back already.     *)
(* Being live is lost and never regained: a promoter becomes live only by  *)
(* creating the lock file (LiveStep), and whoever is live then is counted  *)
(* in `replaced`.  So one promoter is live at a time (OneWriter), and what *)
(* a live one decided still holds when the ref is renamed (DecisionStands).*)
(***************************************************************************)

\* Nothing that is there stops the write of p.
Live(p) == rpc[p] \in Holding /\ (lock = p \/ WritesStill(p))

\* One promoter at a time can write.
OneWriter == replaced = {} => \A p, q \in Promoters : Live(p) /\ Live(q) => p = q

\* The state a live promoter decided on is still the state of the ref.
DecisionStands ==
  replaced = {} => \A p \in Promoters : Live(p) /\ rpc[p] \in {"decided", "verified"}
                                           => head = expected[p]

\* A promoter has a file aside while it looks at what it took; one that dies
\* there leaves it.
AsideHeld ==
  \A p \in Promoters :
    /\ rpc[p] \in {"claimed", "freed"} => aside[p] \in Promoters
    /\ rpc[p] \notin {"claimed", "freed", "crashed"} => aside[p] = Unset

RefInd ==
  /\ RefTypeOK
  /\ AsideHeld
  /\ OneWriter
  /\ DecisionStands

-----------------------------------------------------------------------------
LEMMA RefInitInd == RefInit => RefInd
BY DEF RefInit, RefInd, RefTypeOK, AsideHeld, OneWriter, DecisionStands, Live, Holding, Waiting,
   Releasing, Ended, States

(* A lock that is moved or put back is not stale.                          *)
LEMMA StaleMoves ==
  ASSUME RefTypeOK, staleLock' = FALSE \/ (staleLock' = staleLock /\ lock' = lock)
  PROVE  staleLock' \in BOOLEAN /\ (staleLock' => lock' # Unset)
<1>0. staleLock \in BOOLEAN /\ (staleLock => lock # Unset)
  BY DEF RefTypeOK
<1>1. CASE staleLock' = FALSE
  BY <1>1
<1>2. CASE staleLock' = staleLock /\ lock' = lock
  BY <1>0, <1>2
<1> QED
  BY <1>1, <1>2

(* Every step of a promoter keeps the types.                               *)
LEMMA PromoterTypes ==
  ASSUME RefAssumption, RefTypeOK, AsideHeld, NEW p \in Promoters,
         Begin(p) \/ PromoterStep(p) \/ TimesOut(p) \/ CrashPromoter(p)
  PROVE  RefTypeOK'
<1> USE DEF MovesTo, Answers, Holding, Waiting, Releasing, Ended, States, RefAssumption
<1>1. CASE Begin(p)
  BY <1>1 DEF Begin, RefTypeOK
<1>2. CASE CreateLock(p)
  BY <1>2 DEF CreateLock, RefTypeOK
<1>3. CASE ObserveLock(p)
  BY <1>3 DEF ObserveLock, RefTypeOK
<1>4. CASE TimesOut(p)
  BY <1>4 DEF TimesOut, RefTypeOK
<1>5. CASE ClaimLock(p)
  <2>1. lock' \in Promoters \cup {Unset} /\ aside' \in [Promoters -> Promoters \cup {Unset}]
    BY <1>5 DEF ClaimLock, TakeAside, RefTypeOK
  <2>2. staleLock' \in BOOLEAN /\ (staleLock' => lock' # Unset)
    <3>1. staleLock' = FALSE \/ (staleLock' = staleLock /\ lock' = lock)
      BY <1>5, Zenon DEF ClaimLock, TakeAside
    <3> QED
      BY <3>1, StaleMoves
  <2>3. replaced' \subseteq Promoters
    BY <1>5 DEF ClaimLock, TakeAside, RefTypeOK
  <2> QED
    BY <1>5, <2>1, <2>2, <2>3 DEF ClaimLock, TakeAside, RefTypeOK
<1>6. CASE SettleClaim(p)
  <2>1. lock' \in Promoters \cup {Unset} /\ aside' \in [Promoters -> Promoters \cup {Unset}]
    BY <1>6 DEF SettleClaim, PutBack, RefTypeOK
  <2>2. staleLock' \in BOOLEAN /\ (staleLock' => lock' # Unset)
    <3>1. staleLock' = FALSE \/ (staleLock' = staleLock /\ lock' = lock)
      BY <1>6, Zenon DEF SettleClaim, PutBack
    <3> QED
      BY <3>1, StaleMoves
  <2>3. replaced' \subseteq Promoters
    BY <1>6 DEF SettleClaim, RefTypeOK
  <2> QED
    BY <1>6, <2>1, <2>2, <2>3 DEF SettleClaim, PutBack, RefTypeOK
<1>7. CASE Decide(p)
  BY <1>7 DEF Decide, Decision, RefTypeOK
<1>8. CASE VerifyLock(p)
  BY <1>8 DEF VerifyLock, RefTypeOK
<1>9. CASE RenameRef(p)
  BY <1>9 DEF RenameRef, RefTypeOK
<1>10. CASE ObserveOwn(p)
  BY <1>10 DEF ObserveOwn, RefTypeOK
<1>11. CASE ClaimOwn(p)
  <2>1. lock' \in Promoters \cup {Unset} /\ aside' \in [Promoters -> Promoters \cup {Unset}]
    BY <1>11 DEF ClaimOwn, TakeAside, RefTypeOK
  <2>2. staleLock' \in BOOLEAN /\ (staleLock' => lock' # Unset)
    <3>1. staleLock' = FALSE \/ (staleLock' = staleLock /\ lock' = lock)
      BY <1>11, Zenon DEF ClaimOwn, TakeAside
    <3> QED
      BY <3>1, StaleMoves
  <2>3. replaced' \subseteq Promoters
    BY <1>11 DEF ClaimOwn, TakeAside, RefTypeOK
  <2> QED
    BY <1>11, <2>1, <2>2, <2>3 DEF ClaimOwn, TakeAside, RefTypeOK
<1>12. CASE SettleOwn(p)
  <2>1. lock' \in Promoters \cup {Unset} /\ aside' \in [Promoters -> Promoters \cup {Unset}]
    BY <1>12 DEF SettleOwn, PutBack, RefTypeOK
  <2>2. staleLock' \in BOOLEAN /\ (staleLock' => lock' # Unset)
    <3>1. staleLock' = FALSE \/ (staleLock' = staleLock /\ lock' = lock)
      BY <1>12, Zenon DEF SettleOwn, PutBack
    <3> QED
      BY <3>1, StaleMoves
  <2>3. replaced' \subseteq Promoters
    BY <1>12 DEF SettleOwn, RefTypeOK
  <2> QED
    BY <1>12, <2>1, <2>2, <2>3 DEF SettleOwn, PutBack, RefTypeOK
<1>13. CASE CrashPromoter(p)
  BY <1>13 DEF CrashPromoter, RefTypeOK
<1> QED
  BY <1>1, <1>2, <1>3, <1>4, <1>5, <1>6, <1>7, <1>8, <1>9, <1>10, <1>11, <1>12, <1>13 DEF PromoterStep

-----------------------------------------------------------------------------
(* What every step of a promoter leaves alone: the others' positions, files *)
(* and observations.  A promoter that has ended takes no step.              *)
LEMMA OthersKept ==
  ASSUME RefTypeOK, NEW p \in Promoters,
         Begin(p) \/ PromoterStep(p) \/ TimesOut(p) \/ CrashPromoter(p)
  PROVE  /\ rpc[p] \notin Ended
         /\ rpc' \in [Promoters -> {"idle"} \cup Waiting \cup Holding \cup Releasing \cup Ended]
         /\ \A x \in Promoters \ {p} : rpc'[x] = rpc[x] /\ aside'[x] = aside[x] /\ seen'[x] = seen[x]
         /\ replaced \subseteq replaced'
<1> USE DEF MovesTo, Holding, Waiting, Releasing, Ended, RefTypeOK
<1>1. CASE Begin(p)
  BY <1>1 DEF Begin
<1>2. CASE CreateLock(p)
  BY <1>2 DEF CreateLock
<1>3. CASE ObserveLock(p)
  BY <1>3 DEF ObserveLock
<1>4. CASE TimesOut(p)
  BY <1>4 DEF TimesOut
<1>5. CASE ClaimLock(p)
  BY <1>5 DEF ClaimLock, TakeAside
<1>6. CASE SettleClaim(p)
  BY <1>6 DEF SettleClaim, PutBack
<1>7. CASE Decide(p)
  BY <1>7 DEF Decide
<1>8. CASE VerifyLock(p)
  BY <1>8 DEF VerifyLock
<1>9. CASE RenameRef(p)
  BY <1>9 DEF RenameRef
<1>10. CASE ObserveOwn(p)
  BY <1>10 DEF ObserveOwn
<1>11. CASE ClaimOwn(p)
  BY <1>11 DEF ClaimOwn, TakeAside
<1>12. CASE SettleOwn(p)
  BY <1>12 DEF SettleOwn, PutBack
<1>13. CASE CrashPromoter(p)
  BY <1>13 DEF CrashPromoter
<1> QED
  BY <1>1, <1>2, <1>3, <1>4, <1>5, <1>6, <1>7, <1>8, <1>9, <1>10, <1>11, <1>12, <1>13 DEF PromoterStep

(* A file is aside exactly while it is looked at.                          *)
LEMMA AsideStep ==
  ASSUME RefAssumption, RefTypeOK, AsideHeld, NEW p \in Promoters,
         Begin(p) \/ PromoterStep(p) \/ TimesOut(p) \/ CrashPromoter(p)
  PROVE  AsideHeld'
<1> USE DEF MovesTo, Holding, Waiting, Releasing, Ended, RefTypeOK, AsideHeld
<1>0. \A x \in Promoters \ {p} : rpc'[x] = rpc[x] /\ aside'[x] = aside[x]
  BY OthersKept
<1> SUFFICES /\ rpc'[p] \in {"claimed", "freed"} => aside'[p] \in Promoters
             /\ rpc'[p] \notin {"claimed", "freed", "crashed"} => aside'[p] = Unset
  BY <1>0
<1>1. CASE Begin(p)
  BY <1>1 DEF Begin
<1>2. CASE CreateLock(p)
  BY <1>2 DEF CreateLock
<1>3. CASE ObserveLock(p)
  BY <1>3 DEF ObserveLock
<1>4. CASE TimesOut(p)
  BY <1>4 DEF TimesOut
<1>5. CASE ClaimLock(p)
  BY <1>5 DEF ClaimLock, TakeAside
<1>6. CASE SettleClaim(p)
  BY <1>6 DEF SettleClaim, PutBack
<1>7. CASE Decide(p)
  BY <1>7 DEF Decide
<1>8. CASE VerifyLock(p)
  BY <1>8 DEF VerifyLock
<1>9. CASE RenameRef(p)
  BY <1>9 DEF RenameRef
<1>10. CASE ObserveOwn(p)
  BY <1>10 DEF ObserveOwn
<1>11. CASE ClaimOwn(p)
  BY <1>11 DEF ClaimOwn, TakeAside
<1>12. CASE SettleOwn(p)
  BY <1>12 DEF SettleOwn, PutBack
<1>13. CASE CrashPromoter(p)
  BY <1>13 DEF CrashPromoter
<1> QED
  BY <1>1, <1>2, <1>3, <1>4, <1>5, <1>6, <1>7, <1>8, <1>9, <1>10, <1>11, <1>12, <1>13 DEF PromoterStep

(* A promoter comes to mean to write only by creating the lock.            *)
LEMMA HoldingFrom ==
  ASSUME RefTypeOK, NEW p \in Promoters,
         Begin(p) \/ PromoterStep(p) \/ TimesOut(p) \/ CrashPromoter(p)
  PROVE  CreateLock(p) \/ \A x \in Promoters : rpc'[x] \in Holding => rpc[x] \in Holding
<1> USE DEF MovesTo, Holding, Waiting, Releasing, Ended, RefTypeOK
<1>0. \A x \in Promoters \ {p} : rpc'[x] = rpc[x]
  BY OthersKept
<1>1. CASE Begin(p) \/ ObserveLock(p) \/ TimesOut(p) \/ CrashPromoter(p) \/ ObserveOwn(p)
  <2>1. rpc'[p] \notin Holding
    BY <1>1 DEF Begin, ObserveLock, TimesOut, CrashPromoter, ObserveOwn
  <2> QED
    BY <2>1, <1>0
<1>2. CASE ClaimLock(p) \/ SettleClaim(p) \/ ClaimOwn(p) \/ SettleOwn(p) \/ RenameRef(p)
  <2>1. rpc'[p] \notin Holding
    BY <1>2 DEF ClaimLock, SettleClaim, ClaimOwn, SettleOwn, TakeAside, RenameRef
  <2> QED
    BY <2>1, <1>0
<1>3. CASE Decide(p) \/ VerifyLock(p)
  <2>1. rpc[p] \in Holding
    BY <1>3 DEF Decide, VerifyLock
  <2> QED
    BY <2>1, <1>0
<1> QED
  BY <1>1, <1>2, <1>3 DEF PromoterStep

(* No step but the creation of the lock makes a promoter live: a lock that *)
(* is put back, or read back, was in place or on its way back before.      *)
LEMMA LiveStep ==
  ASSUME RefAssumption, RefTypeOK, NEW p \in Promoters,
         Begin(p) \/ PromoterStep(p) \/ TimesOut(p) \/ CrashPromoter(p)
  PROVE  CreateLock(p) \/ \A x \in Promoters : Live(x)' => Live(x)
<1> SUFFICES ASSUME ~CreateLock(p), NEW x \in Promoters, Live(x)'
             PROVE  Live(x)
  OBVIOUS
<1>1. rpc[x] \in Holding
  BY HoldingFrom DEF Live
<1>2. CASE lock' = x
  <2>1. CASE SettleClaim(p) /\ lock # x
    BY <1>1, <1>2, <2>1 DEF SettleClaim, PutBack, Live, WritesStill, Returnable
  <2>2. CASE SettleOwn(p) /\ lock # x
    BY <1>1, <1>2, <2>2 DEF SettleOwn, PutBack, Live, WritesStill, Returnable
  <2>3. CASE ClaimLock(p) \/ ClaimOwn(p)
    BY <1>1, <1>2, <2>3 DEF ClaimLock, ClaimOwn, TakeAside, Live, RefAssumption
  <2>4. CASE lock = x
    BY <1>1, <2>4 DEF Live
  <2>5. ClaimLock(p) \/ ClaimOwn(p) \/ SettleClaim(p) \/ SettleOwn(p) \/ UNCHANGED lock
    BY Zenon DEF PromoterStep, Begin, ObserveLock, TimesOut, Decide, VerifyLock, RenameRef,
       ObserveOwn, CrashPromoter
  <2> QED
    BY <1>2, <2>1, <2>2, <2>3, <2>4, <2>5
<1>3. CASE rpc'[x] = "verified"
  <2>1. CASE rpc[x] = "verified"
    BY <2>1, <1>1 DEF Live, WritesStill
  <2>2. CASE x # p
    BY <2>1, <2>2, <1>3, OthersKept
  <2>3. CASE VerifyLock(p) /\ x = p
    BY <2>3, <1>1, <1>3 DEF VerifyLock, MovesTo, RefTypeOK, Live
  <2>4. VerifyLock(p) \/ rpc'[p] # "verified"
    <3> USE DEF MovesTo, TakeAside, RefTypeOK
    <3>1. CASE Begin(p) \/ ObserveLock(p) \/ TimesOut(p) \/ CrashPromoter(p) \/ Decide(p)
      BY <3>1 DEF Begin, ObserveLock, TimesOut, CrashPromoter, Decide
    <3>2. CASE ClaimLock(p) \/ SettleClaim(p) \/ ClaimOwn(p) \/ SettleOwn(p)
      BY <3>2 DEF ClaimLock, SettleClaim, ClaimOwn, SettleOwn
    <3>3. CASE RenameRef(p) \/ ObserveOwn(p)
      BY <3>3 DEF RenameRef, ObserveOwn
    <3> QED
      BY <3>1, <3>2, <3>3 DEF PromoterStep
  <2> QED
    BY <1>3, <2>1, <2>2, <2>3, <2>4
<1>4. CASE Returnable(x)'
  <2>1. PICK r \in Promoters : /\ aside'[r] = x
                               /\ \/ rpc'[r] = "claimed" /\ seen'[r] # x
                                  \/ rpc'[r] = "freed" /\ r # x
    BY <1>4, Zenon DEF Returnable
  <2>2. CASE r # p
    <3>1. rpc'[r] = rpc[r] /\ aside'[r] = aside[r] /\ seen'[r] = seen[r]
      BY <2>2, OthersKept
    <3>2. Returnable(x)
      BY <2>1, <3>1 DEF Returnable
    <3> QED
      BY <3>2, <1>1 DEF Live, WritesStill
  <2>3. CASE r = p
    <3>1. ClaimLock(p) \/ ClaimOwn(p)
      <4> USE DEF MovesTo, RefTypeOK
      <4>1. CASE Begin(p) \/ ObserveLock(p) \/ TimesOut(p) \/ CrashPromoter(p) \/ Decide(p)
        BY <4>1, <2>1, <2>3 DEF Begin, ObserveLock, TimesOut, CrashPromoter, Decide
      <4>2. CASE SettleClaim(p) \/ SettleOwn(p) \/ RenameRef(p) \/ ObserveOwn(p) \/ VerifyLock(p)
        BY <4>2, <2>1, <2>3 DEF SettleClaim, SettleOwn, RenameRef, ObserveOwn, VerifyLock
      <4> QED
        BY <4>1, <4>2 DEF PromoterStep
    <3>2. lock # Unset /\ aside' = [aside EXCEPT ![p] = lock]
      BY <3>1, <2>1, <2>3 DEF ClaimLock, ClaimOwn, TakeAside, MovesTo, RefTypeOK
    <3>3. lock = x
      BY <3>2, <2>1, <2>3 DEF RefTypeOK
    <3> QED
      BY <3>3, <1>1 DEF Live
  <2> QED
    BY <2>2, <2>3
<1> QED
  BY <1>2, <1>3, <1>4 DEF Live, WritesStill

(* A promoter that locks finds no lock, so another one that is live is one *)
(* that still writes, and `replaced` counts it.                            *)
LEMMA LocksAlone ==
  ASSUME RefAssumption, RefTypeOK, NEW p \in Promoters, CreateLock(p), replaced' = {},
         NEW x \in Promoters, Live(x)'
  PROVE  x = p
<1> SUFFICES ASSUME x # p
             PROVE  FALSE
  OBVIOUS
<1>1. /\ UNCHANGED <<aside, seen>>
      /\ lock' = p
      /\ \A q \in Promoters \ {p} : rpc'[q] = rpc[q]
      /\ rpc'[p] = "locked"
  BY DEF CreateLock, MovesTo, RefTypeOK
<1>2. WritesStill(x)' /\ rpc[x] \in Holding
  BY <1>1 DEF Live
<1>3. CASE rpc'[x] = "verified"
  BY <1>1, <1>3 DEF CreateLock, WritesStill
<1>4. CASE Returnable(x)'
  <2>1. PICK r \in Promoters : /\ aside'[r] = x
                               /\ \/ rpc'[r] = "claimed" /\ seen'[r] # x
                                  \/ rpc'[r] = "freed" /\ r # x
    BY <1>4, Zenon DEF Returnable
  <2>2. r # p
    BY <2>1, <1>1
  <2>3. Returnable(x)
    BY <2>1, <2>2, <1>1 DEF Returnable
  <2>4. WritesStill(x)
    BY <2>3, <1>2 DEF WritesStill
  <2> QED
    BY <2>4 DEF CreateLock
<1> QED
  BY <1>2, <1>3, <1>4 DEF WritesStill

(* Two promoters are never live at once.                                   *)
LEMMA OneWriterStep ==
  ASSUME RefAssumption, RefTypeOK, OneWriter, NEW p \in Promoters,
         Begin(p) \/ PromoterStep(p) \/ TimesOut(p) \/ CrashPromoter(p)
  PROVE  OneWriter'
<1> SUFFICES ASSUME replaced' = {},
                    NEW x \in Promoters, NEW y \in Promoters, Live(x)', Live(y)'
             PROVE  x = y
  BY Zenon DEF OneWriter
<1>1. CASE CreateLock(p)
  BY <1>1, LocksAlone
<1>2. CASE \A z \in Promoters : Live(z)' => Live(z)
  <2>1. replaced = {}
    BY OthersKept
  <2> QED
    BY <1>2, <2>1 DEF OneWriter
<1> QED
  BY <1>1, <1>2, LiveStep

(* What was decided under the lock still holds when the ref is written.    *)
LEMMA DecisionStep ==
  ASSUME RefAssumption, RefTypeOK, OneWriter, DecisionStands, NEW p \in Promoters,
         Begin(p) \/ PromoterStep(p) \/ TimesOut(p) \/ CrashPromoter(p)
  PROVE  DecisionStands'
<1> USE DEF MovesTo, RefTypeOK
<1> SUFFICES ASSUME replaced' = {}, NEW x \in Promoters, Live(x)',
                    rpc'[x] \in {"decided", "verified"}
             PROVE  head' = expected'[x]
  BY Zenon DEF DecisionStands
<1>0. replaced = {} /\ (x # p => rpc'[x] = rpc[x])
  BY OthersKept
<1>1. CASE CreateLock(p)
  <2>1. x = p
    BY <1>1, LocksAlone
  <2> QED
    BY <2>1, <1>1 DEF CreateLock
<1>2. CASE Live(x) /\ RenameRef(p)
  <2>1. x # p
    BY <1>2 DEF RenameRef
  <2>2. Live(p)
    BY <1>2 DEF RenameRef, Live, WritesStill, Holding
  <2> QED
    BY <2>1, <2>2, <1>0, <1>2 DEF OneWriter
<1>3. CASE Live(x) /\ Decide(p)
  <2>1. CASE x # p
    BY <2>1, <1>0, <1>3 DEF Decide, DecisionStands
  <2>2. CASE x = p
    <3>1. Decision(p) = "promote"
      BY <2>2, <1>3 DEF Decide
    <3>2. head = expected[p]
      BY <3>1 DEF Decision
    <3> QED
      BY <3>2, <2>2, <1>3 DEF Decide
  <2> QED
    BY <2>1, <2>2
<1>4. CASE Live(x) /\ VerifyLock(p)
  BY <1>0, <1>4 DEF VerifyLock, DecisionStands
<1>5. CASE Live(x) /\ (Begin(p) \/ ObserveLock(p) \/ TimesOut(p) \/ ObserveOwn(p) \/ CrashPromoter(p))
  BY <1>0, <1>5 DEF Begin, ObserveLock, TimesOut, ObserveOwn, CrashPromoter, DecisionStands
<1>6. CASE Live(x) /\ (ClaimLock(p) \/ SettleClaim(p) \/ ClaimOwn(p) \/ SettleOwn(p))
  <2>1. rpc'[p] \notin {"decided", "verified"} /\ UNCHANGED <<head, expected>>
    BY <1>6 DEF ClaimLock, SettleClaim, ClaimOwn, SettleOwn, TakeAside
  <2> QED
    BY <2>1, <1>0, <1>6 DEF DecisionStands
<1> QED
  BY <1>1, <1>2, <1>3, <1>4, <1>5, <1>6, LiveStep DEF PromoterStep

(* The age of a lock, and the heartbeat, change nothing else.              *)
LEMMA TimeStep ==
  ASSUME RefAssumption, LockAges \/ \E p \in Promoters : LockLapses(p) \/ Beat(p)
  PROVE  /\ UNCHANGED <<lock, aside, rpc, seen, expected, head, verdict, replaced>>
         /\ staleLock' \in BOOLEAN
         /\ lock # Unset
<1>1. CASE LockAges
  BY <1>1 DEF LockAges
<1>2. ASSUME NEW p \in Promoters, LockLapses(p) \/ Beat(p)
      PROVE  /\ UNCHANGED <<lock, aside, rpc, seen, expected, head, verdict, replaced>>
             /\ staleLock' \in BOOLEAN
             /\ lock = p
  BY <1>2 DEF LockLapses, Beat
<1> QED
  BY <1>1, <1>2 DEF RefAssumption

LEMMA RefStep ==
  ASSUME RefAssumption
  PROVE  RefInd /\ [RefNext]_refVars => RefInd'
<1> SUFFICES ASSUME RefInd, [RefNext]_refVars
             PROVE  RefInd'
  OBVIOUS
<1>1. ASSUME NEW p \in Promoters, Begin(p) \/ PromoterStep(p) \/ TimesOut(p) \/ CrashPromoter(p)
      PROVE  RefInd'
  BY <1>1, PromoterTypes, AsideStep, OneWriterStep, DecisionStep DEF RefInd
<1>2. ASSUME UNCHANGED <<lock, aside, rpc, seen, expected, head, verdict, replaced>>,
             staleLock' \in BOOLEAN, staleLock' => lock # Unset
      PROVE  RefInd'
  <2>1. RefTypeOK'
    BY <1>2 DEF RefInd, RefTypeOK
  <2>2. AsideHeld'
    BY <1>2 DEF RefInd, AsideHeld
  <2>3. OneWriter' /\ DecisionStands'
    BY <1>2 DEF RefInd, OneWriter, DecisionStands, Live, WritesStill, Returnable
  <2> QED
    BY <2>1, <2>2, <2>3 DEF RefInd
<1>3. CASE LockAges \/ \E p \in Promoters : LockLapses(p) \/ Beat(p)
  BY <1>2, <1>3, TimeStep
<1>4. CASE UNCHANGED refVars
  <2>1. UNCHANGED <<lock, staleLock, aside, rpc, seen, expected, head, verdict, replaced>>
    BY <1>4 DEF refVars
  <2>2. staleLock' \in BOOLEAN /\ (staleLock' => lock # Unset)
    BY <2>1 DEF RefInd, RefTypeOK
  <2> QED
    BY <1>2, <2>1, <2>2
<1> QED
  BY <1>1, <1>3, <1>4 DEF RefNext

(* The state of the promoters keeps its types, and together with them the  *)
(* lock protocol keeps its invariant: whoever dies and whichever heartbeat *)
(* is lost, one promoter at a time can still write, unless one locked in   *)
(* the gap of another.                                                     *)
THEOREM RefsMutex ==
  ASSUME RefAssumption
  PROVE  RefSpec => [](RefTypeOK /\ OneWriter)
<1>1. RefInit => RefInd
  BY RefInitInd
<1>2. RefInd /\ [RefNext]_refVars => RefInd'
  BY RefStep
<1>3. RefInd => RefTypeOK /\ OneWriter
  BY DEF RefInd
<1> QED
  BY <1>1, <1>2, <1>3, PTL DEF RefSpec

(* A promotion overwrites only the state its promoter expected             *)
(* (promoteLocked() and writeRefState() are one critical section).         *)
THEOREM PromotionsAreChained ==
  ASSUME RefAssumption
  PROVE  RefSpec => PromotionsChain
<1>1. RefInit => RefInd
  BY RefInitInd
<1>2. RefInd /\ [RefNext]_refVars => RefInd'
  BY RefStep
<1>3. RefInd => (replaced = {} => \A p \in Promoters : RenameRef(p) => head = expected[p])
  BY DEF RefInd, DecisionStands, RenameRef, Live, WritesStill, Holding
<1> QED
  BY <1>1, <1>2, <1>3, PTL DEF RefSpec, PromotionsChain

-----------------------------------------------------------------------------
(***************************************************************************)
(* The refs implement CanonicalRegister: RenameRef is where a promotion    *)
(* takes effect and Decide where any other answer does; between them a     *)
(* promoter keeps what it decided (PromotionMeant), and what it decided on *)
(* is still so when it renames (DecisionStands).                           *)
(***************************************************************************)

\* A promoter that is about to write was told to promote: its state is verified,
\* and another one than the state it expects to replace.
PromotionMeant ==
  \A p \in Promoters : rpc[p] \in {"decided", "verified"} =>
    /\ verdict[p] = "promote"
    /\ p \in Verified
    /\ expected[p] # Unset => expected[p] # TargetOf[p]

(* Nobody is told anything, or changes what it expects, by the step of     *)
(* another promoter.                                                       *)
LEMMA OthersUntold ==
  ASSUME RefTypeOK, NEW p \in Promoters,
         Begin(p) \/ PromoterStep(p) \/ TimesOut(p) \/ CrashPromoter(p)
  PROVE  \A x \in Promoters \ {p} : verdict'[x] = verdict[x] /\ expected'[x] = expected[x]
<1>1. CASE Begin(p)
  BY <1>1 DEF Begin, RefTypeOK
<1>2. CASE TimesOut(p) \/ Decide(p) \/ VerifyLock(p)
  BY <1>2 DEF TimesOut, Decide, VerifyLock, Answers, RefTypeOK
<1>3. CASE UNCHANGED <<verdict, expected>>
  BY <1>3
<1>4. Begin(p) \/ TimesOut(p) \/ Decide(p) \/ VerifyLock(p) \/ UNCHANGED <<verdict, expected>>
  BY Zenon DEF PromoterStep, CreateLock, ObserveLock, ClaimLock, SettleClaim, RenameRef, ObserveOwn,
     ClaimOwn, SettleOwn, CrashPromoter
<1> QED
  BY <1>1, <1>2, <1>3, <1>4

(* What a promoter decided it keeps until it has written.                  *)
LEMMA MeantStep ==
  ASSUME RefTypeOK, PromotionMeant, NEW p \in Promoters,
         Begin(p) \/ PromoterStep(p) \/ TimesOut(p) \/ CrashPromoter(p)
  PROVE  PromotionMeant'
<1> SUFFICES ASSUME NEW x \in Promoters, rpc'[x] \in {"decided", "verified"}
             PROVE  /\ verdict'[x] = "promote"
                    /\ x \in Verified
                    /\ expected'[x] # Unset => expected'[x] # TargetOf[x]
  BY DEF PromotionMeant
<1>1. CASE x # p
  <2>1. rpc'[x] = rpc[x] /\ verdict'[x] = verdict[x] /\ expected'[x] = expected[x]
    BY <1>1, OthersKept, OthersUntold
  <2> QED
    BY <2>1 DEF PromotionMeant
<1>2. CASE x = p /\ Decide(p)
  <2>1. Decision(p) = "promote" /\ verdict'[p] = "promote" /\ UNCHANGED expected
    BY <1>2 DEF Decide, MovesTo, Answers, RefTypeOK
  <2>2. p \in Verified /\ (expected[p] # Unset => expected[p] # TargetOf[p])
    BY <2>1 DEF Decision
  <2> QED
    BY <1>2, <2>1, <2>2
<1>3. CASE x = p /\ VerifyLock(p)
  <2>1. rpc[p] = "decided" /\ UNCHANGED <<verdict, expected>>
    BY <1>3 DEF VerifyLock, MovesTo, RefTypeOK
  <2> QED
    BY <1>3, <2>1 DEF PromotionMeant
<1>4. Decide(p) \/ VerifyLock(p) \/ rpc'[p] \notin {"decided", "verified"}
  <2> USE DEF MovesTo, TakeAside, RefTypeOK
  <2>1. CASE Begin(p) \/ CreateLock(p) \/ ObserveLock(p) \/ TimesOut(p) \/ CrashPromoter(p)
    BY <2>1 DEF Begin, CreateLock, ObserveLock, TimesOut, CrashPromoter
  <2>2. CASE ClaimLock(p) \/ SettleClaim(p) \/ ClaimOwn(p) \/ SettleOwn(p)
    BY <2>2 DEF ClaimLock, SettleClaim, ClaimOwn, SettleOwn
  <2>3. CASE RenameRef(p) \/ ObserveOwn(p)
    BY <2>3 DEF RenameRef, ObserveOwn
  <2> QED
    BY <2>1, <2>2, <2>3 DEF PromoterStep
<1> QED
  BY <1>1, <1>2, <1>3, <1>4

(* The invariant of the refinement.                                        *)
LEMMA MeantInvariant ==
  ASSUME RefAssumption
  PROVE  RefSpec => [](RefInd /\ PromotionMeant)
<1>1. RefInit => RefInd /\ PromotionMeant
  BY RefInitInd DEF RefInit, PromotionMeant
<1>2. RefInd /\ PromotionMeant /\ [RefNext]_refVars => (RefInd /\ PromotionMeant)'
  <2> SUFFICES ASSUME RefInd, PromotionMeant, [RefNext]_refVars
               PROVE  PromotionMeant'
    BY RefStep
  <2>1. ASSUME NEW p \in Promoters, Begin(p) \/ PromoterStep(p) \/ TimesOut(p) \/ CrashPromoter(p)
        PROVE  PromotionMeant'
    BY <2>1, MeantStep DEF RefInd
  <2>2. CASE LockAges \/ \E p \in Promoters : LockLapses(p) \/ Beat(p)
    BY <2>2, TimeStep DEF PromotionMeant
  <2>3. CASE UNCHANGED refVars
    BY <2>3 DEF refVars, PromotionMeant
  <2> QED
    BY <2>1, <2>2, <2>3 DEF RefNext
<1> QED
  BY <1>1, <1>2, PTL DEF RefSpec

\* What every promoter was told, as the register sees it.
AllTold == [p \in Promoters |-> Told(p)]
\* A step of the register, or one it does not see.
RegisterStep == [Register!Next]_<<head, expected, AllTold, replaced = {}>>

(* A step that tells one promoter something tells no other anything.       *)
LEMMA TellsOne ==
  ASSUME RefTypeOK, NEW p \in Promoters,
         Begin(p) \/ PromoterStep(p) \/ TimesOut(p) \/ CrashPromoter(p),
         NEW a, Told(p)' = a
  PROVE  AllTold' = [AllTold EXCEPT ![p] = a]
<1>1. \A x \in Promoters \ {p} : rpc'[x] = rpc[x] /\ verdict'[x] = verdict[x]
  BY OthersKept, OthersUntold
<1>2. \A x \in Promoters \ {p} : Told(x)' = Told(x)
  BY <1>1 DEF Told
<1> QED
  BY <1>2 DEF AllTold

(* A step that tells its promoter nothing and writes nothing is one the    *)
(* register does not see, or the one that costs the exclusion.             *)
LEMMA QuietStep ==
  ASSUME RefTypeOK, NEW p \in Promoters,
         Begin(p) \/ PromoterStep(p) \/ TimesOut(p) \/ CrashPromoter(p),
         Told(p)' = Told(p), UNCHANGED <<head, expected>>
  PROVE  RegisterStep
<1>1. AllTold' = AllTold
  <2>1. AllTold' = [AllTold EXCEPT ![p] = Told(p)]
    BY TellsOne
  <2> QED
    BY <2>1 DEF AllTold
<1>2. CASE replaced' = {}
  <2>1. replaced = {}
    BY <1>2, OthersKept
  <2> QED
    BY <1>1, <1>2, <2>1 DEF RegisterStep
<1>3. CASE replaced' # {}
  <2>1. Register!LoseExclusion
    BY <1>1, <1>3 DEF Register!LoseExclusion, AllTold
  <2> QED
    BY <2>1 DEF RegisterStep, Register!Next
<1> QED
  BY <1>2, <1>3

(* What a promoter was told follows from where it is, before and after.    *)
LEMMA ToldBy ==
  ASSUME NEW p \in Promoters
  PROVE  /\ rpc[p] = "idle" => Told(p) = "idle"
         /\ rpc[p] = "crashed" => Told(p) = "died"
         /\ rpc[p] \in Waiting \cup Holding => Told(p) = "pending"
         /\ rpc[p] \in Releasing \cup {"done"} => Told(p) = verdict[p]
         /\ rpc'[p] = "idle" => Told(p)' = "idle"
         /\ rpc'[p] = "crashed" => Told(p)' = "died"
         /\ rpc'[p] \in Waiting \cup Holding => Told(p)' = "pending"
         /\ rpc'[p] \in Releasing \cup {"done"} => Told(p)' = verdict'[p]
BY DEF Told, Waiting, Holding, Releasing

(* A step of the register that tells p something.                          *)
LEMMA TellingStep ==
  ASSUME NEW p \in Promoters, AllTold'[p] # AllTold[p],
         \/ Register!Ask(p) \/ Register!Swap(p) \/ Register!Keep(p)
         \/ Register!Refuse(p) \/ Register!Throw(p) \/ Register!Die(p)
  PROVE  RegisterStep
BY DEF RegisterStep, Register!Next, AllTold

(* Every step of a promoter is a step of the register, or none.            *)
LEMMA StepRefines ==
  ASSUME RefAssumption, RefInd, PromotionMeant, NEW p \in Promoters,
         Begin(p) \/ PromoterStep(p) \/ TimesOut(p) \/ CrashPromoter(p)
  PROVE  RegisterStep
<1> USE DEF MovesTo, Answers, Waiting, Holding, Releasing
<1>0. RefTypeOK /\ DecisionStands
  BY DEF RefInd
<1>1. CASE Begin(p)
  <2>1. Told(p) = "idle" /\ Told(p)' = "pending"
    BY <1>0, <1>1, ToldBy DEF Begin, RefTypeOK
  <2>2. /\ AllTold' = [AllTold EXCEPT ![p] = "pending"]
        /\ AllTold[p] = "idle" /\ AllTold'[p] = "pending"
    BY <1>0, <2>1, TellsOne DEF AllTold
  <2>3. Register!Ask(p)
    BY <1>1, <2>2 DEF Begin, Register!Ask, Register!Tell, AllTold
  <2> QED
    BY <2>2, <2>3, TellingStep
<1>2. CASE TimesOut(p)
  <2>1. Told(p) = "pending" /\ Told(p)' = "locked_out"
    BY <1>0, <1>2, ToldBy DEF TimesOut, RefTypeOK
  <2>2. /\ AllTold' = [AllTold EXCEPT ![p] = "locked_out"]
        /\ AllTold[p] = "pending" /\ AllTold'[p] = "locked_out"
    BY <1>0, <2>1, TellsOne DEF AllTold
  <2>3. Register!Throw(p)
    BY <1>2, <2>2 DEF TimesOut, Register!Throw, Register!Tell, AllTold
  <2> QED
    BY <2>2, <2>3, TellingStep
<1>3. CASE Decide(p) /\ Decision(p) # "promote"
  <2>1. rpc[p] = "locked" /\ rpc'[p] = "releasing" /\ verdict'[p] = Decision(p)
    BY <1>0, <1>3 DEF Decide, RefTypeOK
  <2>2. Told(p) = "pending" /\ Told(p)' = Decision(p)
    BY <2>1, ToldBy
  <2>3. Decision(p) \in {"unverified", "conflict", "noop"}
    BY <1>3 DEF Decision
  <2>4. /\ AllTold' = [AllTold EXCEPT ![p] = Decision(p)]
        /\ AllTold[p] = "pending" /\ AllTold'[p] = Decision(p)
    BY <1>0, <2>2, TellsOne DEF AllTold
  <2>5. CASE Decision(p) = "unverified"
    <3>1. p \notin Verified
      BY <2>5 DEF Decision
    <3>2. Register!Refuse(p)
      BY <1>3, <2>4, <2>5, <3>1 DEF Decide, Register!Refuse, Register!Tell, AllTold
    <3> QED
      BY <2>4, <2>5, <3>2, TellingStep
  <2>6. CASE Decision(p) = "conflict"
    <3>1. head # expected[p]
      BY <2>6 DEF Decision
    <3>2. Register!Refuse(p)
      BY <1>3, <2>4, <2>6, <3>1 DEF Decide, Register!Refuse, Register!Tell, AllTold
    <3> QED
      BY <2>4, <2>6, <3>2, TellingStep
  <2>7. CASE Decision(p) = "noop"
    <3>1. head = expected[p] /\ head = TargetOf[p]
      BY <2>7 DEF Decision
    <3>2. Register!Keep(p)
      BY <1>3, <2>4, <2>7, <3>1 DEF Decide, Register!Keep, Register!Tell, AllTold
    <3> QED
      BY <2>4, <2>7, <3>2, TellingStep
  <2> QED
    BY <2>3, <2>5, <2>6, <2>7
<1>4. CASE VerifyLock(p) /\ lock # p
  <2>1. Told(p) = "pending" /\ Told(p)' = "lost"
    BY <1>0, <1>4, ToldBy DEF VerifyLock, RefTypeOK
  <2>2. /\ AllTold' = [AllTold EXCEPT ![p] = "lost"]
        /\ AllTold[p] = "pending" /\ AllTold'[p] = "lost"
    BY <1>0, <2>1, TellsOne DEF AllTold
  <2>3. Register!Throw(p)
    BY <1>4, <2>2 DEF VerifyLock, Register!Throw, Register!Tell, AllTold
  <2> QED
    BY <2>2, <2>3, TellingStep
<1>5. CASE RenameRef(p)
  <2>1. verdict[p] = "promote" /\ p \in Verified /\ (expected[p] # Unset => expected[p] # TargetOf[p])
    BY <1>5 DEF RenameRef, PromotionMeant
  <2>2. replaced = {} => head = expected[p]
    BY <1>0, <1>5 DEF RenameRef, DecisionStands, Live, WritesStill
  <2>3. Told(p) = "pending" /\ Told(p)' = "promote"
    BY <1>0, <1>5, <2>1, ToldBy DEF RenameRef, RefTypeOK
  <2>4. /\ AllTold' = [AllTold EXCEPT ![p] = "promote"]
        /\ AllTold[p] = "pending" /\ AllTold'[p] = "promote"
    BY <1>0, <2>3, TellsOne DEF AllTold
  <2>5. Register!Swap(p)
    BY <1>5, <2>1, <2>2, <2>4 DEF RenameRef, Register!Swap, Register!Tell, AllTold
  <2> QED
    BY <2>4, <2>5, TellingStep
<1>6. CASE CrashPromoter(p)
  <2>1. Told(p)' = "died"
    BY <1>0, <1>6, ToldBy DEF CrashPromoter, RefTypeOK
  <2>2. Told(p) \notin {"idle", "died"}
    <3>1. rpc[p] \in Waiting \cup Holding \cup Releasing
      BY <1>0, <1>6 DEF CrashPromoter, Ended, RefTypeOK
    <3>2. verdict[p] \notin {"idle", "died"}
      BY <1>0 DEF RefTypeOK
    <3> QED
      BY <3>1, <3>2, ToldBy
  <2>3. /\ AllTold' = [AllTold EXCEPT ![p] = "died"]
        /\ AllTold[p] = Told(p) /\ AllTold'[p] = "died"
    BY <1>0, <2>1, TellsOne DEF AllTold
  <2>4. Register!Die(p)
    BY <1>6, <2>2, <2>3 DEF CrashPromoter, Register!Die, Register!Tell, AllTold
  <2> QED
    BY <2>2, <2>3, <2>4, TellingStep
<1>7. CASE \/ CreateLock(p) \/ ObserveLock(p) \/ ClaimLock(p) \/ SettleClaim(p)
           \/ Decide(p) /\ Decision(p) = "promote"
           \/ VerifyLock(p) /\ lock = p
  <2>1. rpc[p] \in Waiting \cup Holding /\ rpc'[p] \in Waiting \cup Holding
    BY <1>0, <1>7 DEF CreateLock, ObserveLock, ClaimLock, TakeAside, SettleClaim, Decide, VerifyLock,
       RefTypeOK
  <2>2. UNCHANGED <<head, expected>>
    BY <1>7 DEF CreateLock, ObserveLock, ClaimLock, SettleClaim, Decide, VerifyLock
  <2>3. Told(p)' = Told(p)
    BY <2>1, ToldBy
  <2> QED
    BY <1>0, <2>2, <2>3, QuietStep
<1>8. CASE ObserveOwn(p) \/ ClaimOwn(p) \/ SettleOwn(p)
  <2>1. rpc[p] \in Releasing \cup {"done"} /\ rpc'[p] \in Releasing \cup {"done"}
    BY <1>0, <1>8 DEF ObserveOwn, ClaimOwn, TakeAside, SettleOwn, RefTypeOK
  <2>2. UNCHANGED <<head, expected, verdict>>
    BY <1>8 DEF ObserveOwn, ClaimOwn, SettleOwn
  <2>3. Told(p)' = Told(p)
    BY <2>1, <2>2, ToldBy
  <2> QED
    BY <1>0, <2>2, <2>3, QuietStep
<1> QED
  BY <1>1, <1>2, <1>3, <1>4, <1>5, <1>6, <1>7, <1>8 DEF PromoterStep

(* promote() implements the atomic compare-and-swap of CanonicalRegister,  *)
(* for any number of promoters, whoever dies or falls silent: a promotion  *)
(* takes effect at the rename, every other answer at the decision.         *)
THEOREM PromotionsAreAtomic ==
  ASSUME RefAssumption
  PROVE  RefSpec => RegisterImplemented
<1>1. RefSpec => [](RefInd /\ PromotionMeant)
  BY MeantInvariant
<1>2. RefInit => Register!Init
  <2> SUFFICES ASSUME RefInit
               PROVE  Register!Init
    OBVIOUS
  <2>1. \A p \in Promoters : Told(p) = "idle"
    BY ToldBy DEF RefInit
  <2> QED
    BY <2>1 DEF RefInit, Register!Init
<1>3. RefInd /\ PromotionMeant /\ [RefNext]_refVars => RegisterStep
  <2> SUFFICES ASSUME RefInd, PromotionMeant, [RefNext]_refVars
               PROVE  RegisterStep
    OBVIOUS
  <2>1. ASSUME NEW p \in Promoters, Begin(p) \/ PromoterStep(p) \/ TimesOut(p) \/ CrashPromoter(p)
        PROVE  RegisterStep
    BY <2>1, StepRefines
  <2>2. CASE \/ LockAges \/ \E p \in Promoters : LockLapses(p) \/ Beat(p)
             \/ UNCHANGED refVars
    <3>1. UNCHANGED <<head, expected, rpc, verdict, replaced>>
      BY <2>2, TimeStep DEF refVars
    <3>2. UNCHANGED AllTold
      BY <3>1 DEF AllTold, Told
    <3> QED
      BY <3>1, <3>2 DEF RegisterStep
  <2> QED
    BY <2>1, <2>2 DEF RefNext
<1>4. RefInd /\ PromotionMeant /\ [RefNext]_refVars
        => [Register!Next]_<<head, expected, [p \in Promoters |-> Told(p)], replaced = {}>>
  BY <1>3 DEF RegisterStep, AllTold
<1> QED
  BY <1>1, <1>2, <1>4, PTL DEF RefSpec, RegisterImplemented, Register!Spec

-----------------------------------------------------------------------------
(***************************************************************************)
(* The fence of the destructive passes, for any number of passes, any time *)
(* to live and any store: two passes are never both at work in the time    *)
(* they leased, a pinned revision keeps its manifest, and no pass deletes  *)
(* what a root that was there all along names.                             *)
(*                                                                         *)
(* The argument has three layers.  The lease (LeaseInd): a pass in the     *)
(* time it leased owns the record, and the record expires no earlier than  *)
(* that time, so whoever is granted the lease next found nobody at work.   *)
(* The pins (PinInd): a pass that has lost its record and outlived its     *)
(* lease is out for good (Fenced), so every prune that is not out knows of *)
(* every pin.  The roots (SteadyInd): store by store, a root held since    *)
(* the grant is among the roots collected once its store was read.         *)
(***************************************************************************)

Records == [owner : Passes \cup {NoPass}, gen : Nat, exp : Nat, released : BOOLEAN]
Working == Phases \ Waits

\* The types of the lease and of the dates of the passes.
LeaseTypes ==
  /\ clock \in 0 .. MaxClock
  /\ lease \in Records
  /\ at \in [Passes -> Phases]
  /\ gen \in [Passes -> Nat] /\ since \in [Passes -> 0 .. MaxClock]
  /\ had \in [Passes -> Records]
  /\ granted \in [Passes -> 0 .. MaxClock]

\* No pass dates its lease in the future; a pass about to be granted read a
\* record that was no longer live; one about to renew or to release writes back
\* a record of its own, and a renewal only prolongs.
DatesPast ==
  \A p \in Passes :
    /\ since[p] <= clock
    /\ at[p] \in Working => granted[p] <= since[p]
    /\ at[p] = "granting" => had[p].released \/ had[p].exp <= since[p]
    /\ at[p] = "renewing" => /\ had[p].owner = p /\ had[p].gen = gen[p] /\ ~had[p].released
                             /\ had[p].exp - Ttl \in since[p] .. clock
    /\ at[p] = "releasing" => had[p].owner = p

\* A pass in the time it leased owns the record, which lasts as long.
WindowOwned ==
  ~clobbered => \A p \in Passes : InWindow(p) => Owns(p) /\ lease.exp >= since[p] + Ttl

LeaseInd == LeaseTypes /\ DatesPast /\ WindowOwned

\* A step of a pass as the lease sees it: a step of the protocol of GcLease, a
\* move from one phase of the work to the next, or the start of a compaction,
\* whose heartbeat counts from the grant.
AtWork(p, to) ==
  /\ at[p] \in Working \ {"renewing"}
  /\ to \in (Working \ {"renewing"}) \cup {"closing"}
  /\ at' = [at EXCEPT ![p] = to]
  /\ UNCHANGED <<clock, lease, gen, had, since, clobbered, granted>>

CountsFromGrant(p) ==
  /\ at[p] = "deeds"
  /\ since' = [since EXCEPT ![p] = granted[p]]
  /\ UNCHANGED <<clock, lease, at, gen, had, clobbered, granted>>

LeaseStep(p) ==
  \/ AcquireRead(p) /\ UNCHANGED granted
  \/ AcquireWrite(p, "check") /\ granted' = [granted EXCEPT ![p] = since[p]]
  \/ AcquireWrite(p, "refs") /\ granted' = [granted EXCEPT ![p] = since[p]]
  \/ Ensure(p, "deeds") /\ UNCHANGED granted
  \/ Ensure(p, "confirmed") /\ UNCHANGED granted
  \/ RenewWrite(p) /\ UNCHANGED granted
  \/ (ReleaseRead(p) \/ ReleaseWrite(p) \/ Die(p)) /\ granted' = [granted EXCEPT ![p] = 0]
  \/ \E to \in Phases : AtWork(p, to)
  \/ CountsFromGrant(p)

\* What takes no lease leaves it alone.
LeaseIdle == UNCHANGED <<clock, lease, at, gen, had, since, clobbered, granted>>

-----------------------------------------------------------------------------
LEMMA PassMovesLease ==
  ASSUME NEW p \in Passes, PassStep(p)
  PROVE  LeaseStep(p)
<1> USE DEF OnlyGoes, Goes, Phases, Waits, Working, storeVars, planVars, besides
<1>1. CASE Acquire(p)
  BY <1>1 DEF Acquire, LeaseStep
<1>2. CASE Granted(p)
  BY <1>2 DEF Granted, FirstPhase, LeaseStep
<1>3. CASE GateCloses(p)
  <2>1. AtWork(p, "closing")
    BY <1>3 DEF GateCloses, AtWork
  <2> QED
    BY <2>1 DEF LeaseStep
<1>4. ASSUME NEW here \in {"refs", "overlays", "pins"}, NEW there \in {"overlays", "pins", "plan"},
             NEW found, Collects(p, here, there, found)
      PROVE  LeaseStep(p)
  <2>1. AtWork(p, "closing") \/ AtWork(p, there)
    BY <1>4 DEF Collects, AtWork
  <2> QED
    BY <2>1 DEF LeaseStep
<1>5. CASE CollectRefs(p)
  BY <1>4, <1>5 DEF CollectRefs
<1>6. CASE CollectOverlays(p)
  BY <1>4, <1>6 DEF CollectOverlays
<1>7. CASE CollectPins(p)
  BY <1>4, <1>7 DEF CollectPins
<1>8. CASE MakePlan(p)
  <2>1. AtWork(p, "closing") \/ AtWork(p, "deeds")
    BY <1>8 DEF MakePlan, AtWork
  <2> QED
    BY <2>1 DEF LeaseStep
<1>9. CASE Confirm(p)
  <2>1. AtWork(p, "deeds") \/ AtWork(p, "confirmed")
    BY <1>9 DEF Confirm, AtWork
  <2> QED
    BY <2>1 DEF LeaseStep
<1>10. CASE AssertLease(p)
  BY <1>10 DEF AssertLease, LeaseStep
<1>11. CASE Renew(p)
  BY <1>11 DEF Renew, LeaseStep
<1>12. CASE Armed(p) /\ UNCHANGED granted
  <2>1. AtWork(p, "deeds")
    BY <1>12 DEF Armed, AtWork
  <2> QED
    BY <2>1 DEF LeaseStep
<1>13. CASE DeleteManifest(p) \/ Quarantine(p) \/ DeleteBlob(p) \/ RemovePin(p) \/ Compact(p)
  BY <1>12, <1>13 DEF DeleteManifest, Quarantine, DeleteBlob, RemovePin, Compact
<1>14. CASE StartCompaction(p)
  BY <1>14 DEF StartCompaction, LeaseStep, CountsFromGrant
<1>15. CASE Finish(p)
  <2>1. AtWork(p, "closing")
    BY <1>15 DEF Finish, AtWork
  <2> QED
    BY <2>1 DEF LeaseStep
<1>16. CASE CheckSubject(p)
  <2>1. AtWork(p, "closing") \/ AtWork(p, "pinning")
    BY <1>16 DEF CheckSubject, AtWork
  <2> QED
    BY <2>1 DEF LeaseStep
<1>17. CASE WritePin(p)
  <2>1. AtWork(p, "closing")
    BY <1>17 DEF WritePin, AtWork
  <2> QED
    BY <2>1 DEF LeaseStep
<1>18. CASE Release(p) \/ Dies(p)
  BY <1>18 DEF Release, Dies, Forgets, LeaseStep
<1> QED
  BY <1>1, <1>2, <1>3, <1>5, <1>6, <1>7, <1>8, <1>9, <1>10, <1>11, <1>13, <1>14, <1>15, <1>16,
     <1>17, <1>18 DEF PassStep

(* A step of the store is a step of one pass, of the clock, or none of the *)
(* lease's.                                                                *)
LEMMA NextMovesLease ==
  ASSUME [Next]_vars
  PROVE  (\E p \in Passes : PassStep(p) /\ LeaseStep(p)) \/ (Tick /\ UNCHANGED granted) \/ LeaseIdle
<1> USE DEF storeVars, planVars, besides, leaseVars
<1>1. CASE \E p \in Passes : PassStep(p)
  BY <1>1, PassMovesLease
<1>2. CASE \E w \in Writers : AdvanceRead(w) \/ AdvancePut(w) \/ AdvancePromote(w)
  BY <1>2 DEF AdvanceRead, AdvancePut, AdvancePromote, LeaseIdle
<1>3. CASE \E g \in Goals : AttachRead(g) \/ AttachCreate(g) \/ OverlayDelete(g)
  BY <1>3 DEF AttachRead, AttachCreate, OverlayDelete, LeaseIdle
<1>4. CASE \E m \in Manifests : Unpin(m)
  BY <1>4 DEF Unpin, LeaseIdle
<1>5. CASE TimePasses
  BY <1>5 DEF TimePasses
<1>6. CASE UNCHANGED vars
  BY <1>6 DEF vars, LeaseIdle
<1> QED
  BY <1>1, <1>2, <1>3, <1>4, <1>5, <1>6 DEF Next

-----------------------------------------------------------------------------
(* The lease.                                                              *)

(* Writing the record: who wrote over a record it had not read is counted. *)
LEMMA UnclobberedWrite ==
  ASSUME NEW p \in Passes, NEW read, NEW record, Write(p, read, record), ~clobbered'
  PROVE  ~clobbered /\ lease = read
BY Zenon DEF Write

LEMMA LeaseTypesStep ==
  ASSUME LeaseAssumption, LeaseTypes, DatesPast, NEW p \in Passes, LeaseStep(p)
  PROVE  LeaseTypes'
<1> USE DEF LeaseAssumption, LeaseTypes, Goes
<1>0. NoLease \in Records
  BY DEF NoLease, Records
<1>1. CASE AcquireRead(p) /\ UNCHANGED granted
  BY <1>1 DEF AcquireRead, Phases, Waits
<1>2. ASSUME NEW f \in {"check", "refs"},
             AcquireWrite(p, f), granted' = [granted EXCEPT ![p] = since[p]]
      PROVE  LeaseTypes'
  <2>1. had[p].gen + 1 \in Nat
    BY DEF Records
  <2>2. [owner |-> p, gen |-> had[p].gen + 1, exp |-> since[p] + Ttl, released |-> FALSE] \in Records
    BY <2>1 DEF Records
  <2> QED
    BY <1>0, <1>2, <2>1, <2>2 DEF AcquireWrite, Write, Phases
<1>3. ASSUME NEW h, Ensure(p, h), UNCHANGED granted
      PROVE  LeaseTypes'
  <2>1. [lease EXCEPT !.exp = clock + Ttl] \in Records
    BY DEF Records
  <2> QED
    BY <2>1, <1>3 DEF Ensure, Phases, Waits
<1>4. CASE RenewWrite(p) /\ UNCHANGED granted
  <2>1. had[p].exp - Ttl \in 0 .. MaxClock
    BY <1>4 DEF RenewWrite, DatesPast, Records
  <2> QED
    BY <1>0, <2>1, <1>4 DEF RenewWrite, Write, Phases
<1>5. CASE (ReleaseRead(p) \/ ReleaseWrite(p) \/ Die(p)) /\ granted' = [granted EXCEPT ![p] = 0]
  <2>1. [had[p] EXCEPT !.released = TRUE] \in Records
    BY DEF Records
  <2>2. granted' \in [Passes -> 0 .. MaxClock]
    BY <1>5
  <2>3. CASE ReleaseRead(p)
    <3>1. had' \in [Passes -> Records]
      BY <2>3 DEF ReleaseRead
    <3>2. UNCHANGED <<clock, lease, gen>> /\ since' = [since EXCEPT ![p] = 0]
      BY <2>3 DEF ReleaseRead
    <3>3. at' \in [Passes -> Phases]
      BY <2>3 DEF ReleaseRead, Phases, Waits
    <3>4. since' \in [Passes -> 0 .. MaxClock]
      BY <3>2
    <3> QED
      BY <3>1, <3>2, <3>3, <3>4, <2>2
  <2>4. CASE ReleaseWrite(p)
    BY <2>4, <2>1, <2>2, <1>0 DEF ReleaseWrite, Write, Phases, Waits
  <2>5. CASE Die(p)
    BY <2>5, <2>2 DEF Die, Phases, Waits
  <2> QED
    BY <1>5, <2>3, <2>4, <2>5
<1>6. ASSUME NEW to \in Phases, AtWork(p, to)
      PROVE  LeaseTypes'
  BY <1>6 DEF AtWork
<1>7. CASE CountsFromGrant(p)
  BY <1>7 DEF CountsFromGrant
<1> QED
  BY <1>1, <1>2, <1>3, <1>4, <1>5, <1>6, <1>7 DEF LeaseStep

LEMMA DatesPastStep ==
  ASSUME LeaseAssumption, LeaseTypes, DatesPast, NEW p \in Passes, LeaseStep(p)
  PROVE  DatesPast'
<1> USE DEF LeaseAssumption, LeaseTypes, Goes
<1>0. /\ clock' = clock
      /\ \A q \in Passes \ {p} : /\ at'[q] = at[q] /\ gen'[q] = gen[q] /\ since'[q] = since[q]
                                 /\ had'[q] = had[q] /\ granted'[q] = granted[q]
  BY DEF LeaseStep, AcquireRead, AcquireWrite, Ensure, RenewWrite, ReleaseRead, ReleaseWrite, Die,
     AtWork, CountsFromGrant, Write
<1> DEFINE D(q) ==
      /\ since[q] <= clock
      /\ at[q] \in Working => granted[q] <= since[q]
      /\ at[q] = "granting" => had[q].released \/ had[q].exp <= since[q]
      /\ at[q] = "renewing" => /\ had[q].owner = q /\ had[q].gen = gen[q] /\ ~had[q].released
                               /\ had[q].exp - Ttl \in since[q] .. clock
      /\ at[q] = "releasing" => had[q].owner = q
<1>a. D(p)
  BY DEF DatesPast
<1> SUFFICES D(p)'
  BY <1>0 DEF DatesPast
<1> USE DEF Phases, Waits, Working
<1>1. CASE AcquireRead(p) /\ UNCHANGED granted
  <2>1. CASE Held
    BY <2>1, <1>1, <1>a DEF AcquireRead
  <2>2. CASE ~Held
    <3>1. since'[p] = clock /\ at'[p] = "granting" /\ had'[p] = lease
      BY <2>2, <1>1 DEF AcquireRead
    <3>2. lease.released \/ lease.exp <= clock
      BY <2>2 DEF Held, Records
    <3> QED
      BY <3>1, <3>2, <1>0
  <2> QED
    BY <2>1, <2>2
<1>2. ASSUME NEW f \in {"check", "refs"},
             AcquireWrite(p, f), granted' = [granted EXCEPT ![p] = since[p]]
      PROVE  D(p)'
  BY <1>2, <1>a DEF AcquireWrite, Write
<1>3. ASSUME NEW h \in {"deeds", "confirmed"}, Ensure(p, h), UNCHANGED granted
      PROVE  D(p)'
  <2>1. CASE Owns(p) /\ at'[p] = "renewing"
    <3>1. had'[p] = [lease EXCEPT !.exp = clock + Ttl]
      BY <1>3, <2>1 DEF Ensure
    <3>2. had'[p].owner = p /\ had'[p].gen = gen[p] /\ ~had'[p].released /\ had'[p].exp - Ttl = clock
      BY <3>1, <2>1 DEF Owns, Records
    <3>3. UNCHANGED <<since, gen, clock, granted>>
      BY <1>3 DEF Ensure
    <3> QED
      BY <3>2, <3>3, <2>1, <1>a, <1>3 DEF Ensure
  <2>2. CASE at'[p] \in {"armed", "closing"}
    BY <2>2, <1>3, <1>a DEF Ensure
  <2> QED
    BY <2>1, <2>2, <1>3 DEF Ensure
<1>4. CASE RenewWrite(p) /\ UNCHANGED granted
  <2>1. had[p].exp - Ttl \in since[p] .. clock /\ granted[p] <= since[p]
    BY <1>4, <1>a DEF RenewWrite
  <2>2. since'[p] = had[p].exp - Ttl /\ at'[p] = "armed" /\ granted'[p] = granted[p] /\ had[p].exp \in Nat
    BY <1>4 DEF RenewWrite, Records
  <2> QED
    BY <2>1, <2>2, <1>0
<1>5. CASE (ReleaseRead(p) \/ ReleaseWrite(p) \/ Die(p)) /\ granted' = [granted EXCEPT ![p] = 0]
  <2>3. CASE ReleaseRead(p)
    BY <2>3, <1>a DEF ReleaseRead, Owns
  <2>4. CASE ReleaseWrite(p)
    BY <2>4, <1>a DEF ReleaseWrite, Write
  <2>5. CASE Die(p)
    BY <2>5, <1>a DEF Die
  <2> QED
    BY <1>5, <2>3, <2>4, <2>5
<1>6. ASSUME NEW to \in Phases, AtWork(p, to)
      PROVE  D(p)'
  BY <1>6, <1>a DEF AtWork
<1>7. CASE CountsFromGrant(p)
  BY <1>7, <1>a DEF CountsFromGrant
<1> QED
  BY <1>1, <1>2, <1>3, <1>4, <1>5, <1>6, <1>7 DEF LeaseStep

(* A pass that is granted the lease found nobody in the time it leased; one *)
(* that renews or releases owns the record, so nobody else does.            *)
LEMMA WindowStep ==
  ASSUME LeaseAssumption, LeaseInd, NEW p \in Passes, LeaseStep(p)
  PROVE  WindowOwned'
<1> USE DEF LeaseAssumption, LeaseInd
<1> SUFFICES ASSUME ~clobbered', NEW q \in Passes, InWindow(q)'
             PROVE  Owns(q)' /\ lease'.exp >= since'[q] + Ttl
  BY DEF WindowOwned
<1> USE DEF Goes, LeaseTypes
<1>0. clock' = clock /\ (q # p => at'[q] = at[q] /\ gen'[q] = gen[q] /\ since'[q] = since[q])
  BY DEF LeaseStep, AcquireRead, AcquireWrite, Ensure, RenewWrite, ReleaseRead, ReleaseWrite, Die,
     AtWork, CountsFromGrant, Write
<1>a. q # p => InWindow(q)
  BY <1>0 DEF InWindow
<1>b. ~clobbered => (InWindow(q) => Owns(q) /\ lease.exp >= since[q] + Ttl)
  BY DEF WindowOwned
<1> USE DEF Phases, Waits, Working
<1>1. CASE AcquireRead(p)
  <2>1. q # p
    BY <1>1 DEF AcquireRead, InWindow
  <2>2. UNCHANGED <<lease, gen, clobbered>>
    BY <1>1 DEF AcquireRead
  <2> QED
    BY <2>1, <2>2, <1>0, <1>a, <1>b DEF Owns
<1>2. ASSUME NEW f \in {"check", "refs"}, AcquireWrite(p, f)
      PROVE  Owns(q)' /\ lease'.exp >= since'[q] + Ttl
  <2>1. ~clobbered /\ lease = had[p]
    BY <1>2, UnclobberedWrite DEF AcquireWrite
  <2>2. lease' = [owner |-> p, gen |-> had[p].gen + 1, exp |-> since[p] + Ttl, released |-> FALSE]
    BY <1>2 DEF AcquireWrite, Write
  <2>3. CASE q = p
    <3>1. gen'[p] = had[p].gen + 1 /\ since'[p] = since[p]
      BY <1>2 DEF AcquireWrite
    <3>2. since[p] + Ttl \in Int
      OBVIOUS
    <3> QED
      BY <3>1, <3>2, <2>2, <2>3 DEF Owns
  <2>4. CASE q # p
    <3>1. lease.released \/ lease.exp <= clock
      BY <2>1, <1>2 DEF AcquireWrite, DatesPast, Records
    <3>2. Owns(q) /\ lease.exp >= since[q] + Ttl /\ clock < since[q] + Ttl
      BY <2>1, <2>4, <1>a, <1>b DEF InWindow
    <3> QED
      BY <3>1, <3>2 DEF Owns, Records
  <2> QED
    BY <2>3, <2>4
<1>3. ASSUME NEW h \in {"deeds", "confirmed"}, Ensure(p, h)
      PROVE  Owns(q)' /\ lease'.exp >= since'[q] + Ttl
  <2>1. UNCHANGED <<lease, gen, since, clobbered>> /\ at[p] = h
    BY <1>3 DEF Ensure
  <2>2. InWindow(q)
    BY <2>1, <1>a, <1>0 DEF InWindow
  <2> QED
    BY <2>1, <2>2, <1>b DEF Owns
<1>4. CASE RenewWrite(p)
  <2>0. had[p].owner = p /\ had[p].gen = gen[p] /\ ~had[p].released /\ had[p].exp \in Nat
    BY <1>4 DEF RenewWrite, DatesPast, Records
  <2>1. ~clobbered /\ lease = [had[p] EXCEPT !.exp = lease.exp]
    BY <1>4, UnclobberedWrite DEF RenewWrite
  <2>2. lease' = had[p] /\ gen' = gen /\ since'[p] = had[p].exp - Ttl
    BY <1>4 DEF RenewWrite, Write
  <2>3. CASE q = p
    BY <2>0, <2>2, <2>3 DEF Owns
  <2>4. CASE q # p
    <3>1. lease.owner = p
      BY <2>0, <2>1 DEF Records
    <3>2. Owns(q)
      BY <2>1, <2>4, <1>a, <1>b
    <3> QED
      BY <3>1, <3>2, <2>4 DEF Owns
  <2> QED
    BY <2>3, <2>4
<1>5. CASE ReleaseWrite(p)
  <2>0. had[p].owner = p
    BY <1>5 DEF ReleaseWrite, DatesPast
  <2>1. ~clobbered /\ lease = had[p]
    BY <1>5, UnclobberedWrite DEF ReleaseWrite
  <2>2. q # p
    BY <1>5 DEF ReleaseWrite, InWindow
  <2>3. Owns(q)
    BY <2>1, <2>2, <1>a, <1>b
  <2> QED
    BY <2>0, <2>1, <2>2, <2>3 DEF Owns
<1>6. CASE ReleaseRead(p) \/ Die(p)
  <2>1. q # p
    BY <1>6 DEF ReleaseRead, Die, InWindow
  <2>2. UNCHANGED <<lease, gen, clobbered>>
    BY <1>6 DEF ReleaseRead, Die
  <2> QED
    BY <2>1, <2>2, <1>0, <1>a, <1>b DEF Owns
<1>7. ASSUME NEW to \in Phases, AtWork(p, to)
      PROVE  Owns(q)' /\ lease'.exp >= since'[q] + Ttl
  <2>1. UNCHANGED <<lease, gen, since, clobbered>> /\ at[p] \in Working
    BY <1>7 DEF AtWork
  <2>2. InWindow(q)
    BY <2>1, <1>a, <1>0 DEF InWindow
  <2> QED
    BY <2>1, <2>2, <1>b DEF Owns
<1>8. CASE CountsFromGrant(p)
  <2>1. UNCHANGED <<lease, gen, at, clobbered>> /\ at[p] = "deeds" /\ since' = [since EXCEPT ![p] = granted[p]]
    BY <1>8 DEF CountsFromGrant
  <2>2. granted[p] <= since[p]
    BY <2>1 DEF DatesPast
  <2>3. since'[q] <= since[q]
    BY <2>1, <2>2
  <2>4. InWindow(q)
    BY <2>1, <2>3, <1>0 DEF InWindow
  <2>5. lease.exp \in Nat
    BY DEF Records
  <2>6. since'[q] \in Nat /\ since[q] \in Nat
    BY <2>1
  <2> QED
    BY <2>1, <2>3, <2>4, <2>5, <2>6, <1>b DEF Owns
<1> QED
  BY <1>1, <1>2, <1>3, <1>4, <1>5, <1>6, <1>7, <1>8 DEF LeaseStep

LEMMA LeaseInitInd ==
  ASSUME LeaseAssumption
  PROVE  Init => LeaseInd
<1> SUFFICES ASSUME Init PROVE LeaseInd
  OBVIOUS
<1> USE DEF Waits, Phases, Working
<1>0. LeaseInit /\ granted = [p \in Passes |-> 0]
  BY DEF Init
<1>1. LeaseTypes
  BY <1>0 DEF LeaseAssumption, LeaseTypes, LeaseInit, Records, NoLease
<1>2. \A p \in Passes : at[p] = "idle" /\ since[p] = 0 /\ clock = 0
  BY <1>0 DEF LeaseInit
<1>3. DatesPast /\ WindowOwned
  BY <1>2 DEF DatesPast, WindowOwned, InWindow
<1> QED
  BY <1>1, <1>3 DEF LeaseInd

LEMMA LeaseIndStep ==
  ASSUME LeaseAssumption, LeaseInd, [Next]_vars
  PROVE  LeaseInd'
<1>1. CASE \E p \in Passes : PassStep(p) /\ LeaseStep(p)
  BY <1>1, LeaseTypesStep, DatesPastStep, WindowStep DEF LeaseInd
<1>2. CASE Tick /\ UNCHANGED granted
  <2>1. LeaseTypes'
    BY <1>2 DEF Tick, LeaseInd, LeaseTypes, LeaseAssumption
  <2>2. /\ UNCHANGED <<lease, at, gen, had, since, clobbered, granted>>
        /\ clock' = clock + 1 /\ clock \in Nat /\ since \in [Passes -> 0 .. MaxClock]
        /\ had \in [Passes -> Records]
    BY <1>2 DEF Tick, LeaseInd, LeaseTypes, LeaseAssumption
  <2>3. DatesPast'
    BY <2>2 DEF LeaseInd, DatesPast, LeaseAssumption, Records
  <2>4. \A p \in Passes : InWindow(p)' => InWindow(p)
    BY <2>2 DEF InWindow, LeaseAssumption
  <2>5. WindowOwned'
    BY <2>2, <2>4 DEF LeaseInd, WindowOwned, Owns
  <2> QED
    BY <2>1, <2>3, <2>5 DEF LeaseInd
<1>3. CASE LeaseIdle
  <2>1. LeaseTypes'
    BY <1>3 DEF LeaseIdle, LeaseInd, LeaseTypes
  <2>2. DatesPast'
    BY <1>3 DEF LeaseIdle, LeaseInd, DatesPast
  <2>3. WindowOwned'
    BY <1>3 DEF LeaseIdle, LeaseInd, WindowOwned, Owns, InWindow
  <2> QED
    BY <2>1, <2>2, <2>3 DEF LeaseInd
<1> QED
  BY <1>1, <1>2, <1>3, NextMovesLease

LEMMA LeaseExcludes ==
  ASSUME LeaseInd
  PROVE  ExclusivePass
BY DEF LeaseInd, WindowOwned, ExclusivePass, Owns

(* Two passes over the canonical store are never both at work in the time  *)
(* they leased (GcLeaseStore, GcLeaseHeartbeat), unless a read-then-write  *)
(* of the record was interleaved with another's.                           *)
THEOREM PassesExclude ==
  ASSUME LeaseAssumption
  PROVE  Spec => []ExclusivePass
<1>1. Init => LeaseInd
  BY LeaseInitInd
<1>2. LeaseInd /\ [Next]_vars => LeaseInd'
  BY LeaseIndStep
<1>3. LeaseInd => ExclusivePass
  BY LeaseExcludes
<1> QED
  BY <1>1, <1>2, <1>3, PTL DEF Spec

-----------------------------------------------------------------------------
(* The types of the store and of the plans.                                *)

StoreTypes ==
  /\ kind \in [Passes -> Kinds]
  /\ plan \in [Passes -> SUBSET Things] /\ todo \in [Passes -> SUBSET Things]
  /\ roots \in [Passes -> SUBSET Manifests]
  /\ manifests \subseteq Manifests /\ pinned \subseteq Manifests /\ blobs \subseteq Blobs
  /\ ref \in Manifests \cup {NoManifest}
  /\ base \in [Goals -> Manifests \cup {NoManifest}]
  /\ attach \in [Goals -> Manifests \cup {NoManifest}]
  /\ ledger \in [Blobs -> Nat]
  /\ adv \in [Writers -> [at : {"idle", "put", "promote", "ended"}, expected : Manifests \cup {NoManifest}]]

LEMMA TypesAreBoth == LeaseTypes /\ StoreTypes => TypeOK
BY DEF LeaseTypes, StoreTypes, TypeOK, Records

LEMMA StoreTypesInit ==
  ASSUME StoreAssumption, Init
  PROVE  StoreTypes
<1>1. /\ plan = [p \in Passes |-> {}] /\ todo = [p \in Passes |-> {}] /\ roots = [p \in Passes |-> {}]
      /\ manifests = FirstManifests /\ ref = FirstRef /\ blobs = Blobs
      /\ base = [g \in Goals |-> NoManifest] /\ attach = base
      /\ ledger = [b \in Blobs |-> 0] /\ kind \in KindsOfPass
  BY DEF Init
<1>2. pinned \subseteq Orphans
  BY DEF Init
<1>3. adv \in [Writers -> [at : {"idle", "put", "promote", "ended"}, expected : Manifests \cup {NoManifest}]]
  BY DEF Init, NoAdv
<1> QED
  BY <1>1, <1>2, <1>3 DEF StoreTypes, StoreAssumption

LEMMA PassKeepsTypes ==
  ASSUME LeaseAssumption, StoreAssumption, LeaseTypes, StoreTypes, NEW p \in Passes, PassStep(p)
  PROVE  StoreTypes'
<1> USE DEF StoreTypes, storeVars, planVars, besides, Done
<1>1. CASE Acquire(p) \/ Granted(p) \/ GateCloses(p) \/ AssertLease(p) \/ Renew(p) \/ CheckSubject(p)
  BY <1>1 DEF Acquire, Granted, GateCloses, AssertLease, Renew, CheckSubject
<1>2. ASSUME NEW here, NEW there, NEW found, found \subseteq Manifests, Collects(p, here, there, found)
      PROVE  StoreTypes'
  BY <1>2 DEF Collects
<1>3. RefRoots \subseteq Manifests /\ OverlayRoots \subseteq Manifests
  BY DEF RefRoots, OverlayRoots, Some
<1>4. CASE CollectRefs(p) \/ CollectOverlays(p) \/ CollectPins(p)
  BY <1>2, <1>3, <1>4 DEF CollectRefs, CollectOverlays, CollectPins
<1>5. CASE MakePlan(p)
  <2>1. Planned(p) \subseteq Things
    BY DEF Planned, Things
  <2>2. CASE UNCHANGED <<plan, todo>>
    BY <2>2, <1>5 DEF MakePlan
  <2>3. CASE plan' = [plan EXCEPT ![p] = Planned(p)] /\ todo' = [todo EXCEPT ![p] = Planned(p)]
    <3>1. plan' \in [Passes -> SUBSET Things] /\ todo' \in [Passes -> SUBSET Things]
      BY <2>1, <2>3
    <3> QED
      BY <3>1, <1>5 DEF MakePlan
  <2> QED
    BY <2>2, <2>3, <1>5 DEF MakePlan
<1>6. CASE Confirm(p) \/ DeleteManifest(p) \/ DeleteBlob(p) \/ RemovePin(p) \/ Compact(p)
  BY <1>6 DEF Confirm, DeleteManifest, DeleteBlob, RemovePin, Compact
<1>7. CASE Quarantine(p)
  <2>1. granted[p] + Grace \in Nat
    BY DEF LeaseTypes, StoreAssumption, LeaseAssumption
  <2>2. ledger' \in [Blobs -> Nat]
    BY <2>1, <1>7 DEF Quarantine
  <2> QED
    BY <2>2, <1>7 DEF Quarantine
<1>8. CASE StartCompaction(p)
  BY <1>8 DEF StartCompaction, Things
<1>9. CASE Finish(p)
  <2>1. ledger' \in [Blobs -> Nat]
    BY <1>9 DEF Finish
  <2> QED
    BY <2>1, <1>9 DEF Finish
<1>10. CASE WritePin(p)
  BY <1>10 DEF WritePin, StoreAssumption
<1>11. CASE Release(p) \/ Dies(p)
  BY <1>11 DEF Release, Dies, Forgets
<1> QED
  BY <1>1, <1>4, <1>5, <1>6, <1>7, <1>8, <1>9, <1>10, <1>11 DEF PassStep

(* What takes no lease.                                                    *)
Unleased ==
  \/ \E w \in Writers : AdvanceRead(w) \/ AdvancePut(w) \/ AdvancePromote(w)
  \/ \E g \in Goals : AttachRead(g) \/ AttachCreate(g) \/ OverlayDelete(g)
  \/ \E m \in Manifests : Unpin(m)

LEMMA UnleasedKeepsTypes ==
  ASSUME StoreAssumption, StoreTypes, Unleased
  PROVE  StoreTypes'
<1> USE DEF StoreTypes, storeVars, planVars, besides, AdvGoes
<1>1. ASSUME NEW w \in Writers, AdvanceRead(w)
      PROVE  StoreTypes'
  <2>1. adv' \in [Writers -> [at : {"idle", "put", "promote", "ended"}, expected : Manifests \cup {NoManifest}]]
    BY <1>1 DEF AdvanceRead
  <2> QED
    BY <2>1, <1>1 DEF AdvanceRead
<1>2. ASSUME NEW w \in Writers, AdvancePut(w)
      PROVE  StoreTypes'
  BY <1>2 DEF AdvancePut, StoreAssumption
<1>3. ASSUME NEW w \in Writers, AdvancePromote(w)
      PROVE  StoreTypes'
  BY <1>3 DEF AdvancePromote, StoreAssumption
<1>4. ASSUME NEW g \in Goals, AttachRead(g) \/ AttachCreate(g) \/ OverlayDelete(g)
      PROVE  StoreTypes'
  BY <1>4 DEF AttachRead, AttachCreate, OverlayDelete
<1>5. ASSUME NEW m \in Manifests, Unpin(m)
      PROVE  StoreTypes'
  BY <1>5 DEF Unpin
<1> QED
  BY <1>1, <1>2, <1>3, <1>4, <1>5 DEF Unleased

LEMMA TypesStep ==
  ASSUME LeaseAssumption, StoreAssumption, LeaseInd, StoreTypes, [Next]_vars
  PROVE  StoreTypes'
<1>1. CASE \E p \in Passes : PassStep(p)
  BY <1>1, PassKeepsTypes DEF LeaseInd
<1>2. CASE Unleased
  BY <1>2, UnleasedKeepsTypes
<1>3. CASE TimePasses \/ UNCHANGED vars
  BY <1>3 DEF TimePasses, vars, storeVars, planVars, besides, StoreTypes
<1> QED
  BY <1>1, <1>2, <1>3 DEF Next, Unleased

(* Every variable of the store, of the passes and of what runs beside them *)
(* keeps its type.                                                         *)
THEOREM StoreTypeCorrect ==
  ASSUME LeaseAssumption, StoreAssumption
  PROVE  Spec => []TypeOK
<1>1. Init => LeaseInd /\ StoreTypes
  BY LeaseInitInd, StoreTypesInit
<1>2. LeaseInd /\ StoreTypes /\ [Next]_vars => (LeaseInd /\ StoreTypes)'
  BY LeaseIndStep, TypesStep
<1>3. LeaseInd /\ StoreTypes => TypeOK
  BY TypesAreBoth DEF LeaseInd
<1> QED
  BY <1>1, <1>2, <1>3, PTL DEF Spec

-----------------------------------------------------------------------------
(* What the proofs about pins and about roots share.                       *)

Doing == {"deeds", "confirmed", "armed", "renewing"}

\* A pass that has lost its record and outlived its lease.
Fenced(p) == ~Owns(p) /\ clock >= since[p] + Ttl

(* A pass leaves the position and the plans of the others alone.           *)
LEMMA OthersStay ==
  ASSUME LeaseTypes, StoreTypes, NEW p \in Passes, PassStep(p)
  PROVE  /\ kind' = kind
         /\ \A q \in Passes \ {p} : at'[q] = at[q] /\ roots'[q] = roots[q] /\ todo'[q] = todo[q]
<1> USE DEF OnlyGoes, Goes, Done, storeVars, planVars, besides, LeaseTypes, StoreTypes
<1>1. CASE Acquire(p) \/ Granted(p) \/ GateCloses(p) \/ CheckSubject(p)
  BY <1>1 DEF Acquire, AcquireRead, Granted, AcquireWrite, GateCloses, CheckSubject
<1>2. CASE CollectRefs(p) \/ CollectOverlays(p) \/ CollectPins(p)
  BY <1>2 DEF CollectRefs, CollectOverlays, CollectPins, Collects
<1>3. CASE MakePlan(p)
  BY <1>3 DEF MakePlan
<1>4. CASE AssertLease(p) \/ Renew(p)
  BY <1>4 DEF AssertLease, Ensure, Renew, RenewWrite
<1>5. CASE Confirm(p) \/ DeleteManifest(p) \/ DeleteBlob(p) \/ RemovePin(p) \/ Compact(p) \/ Quarantine(p)
  BY <1>5 DEF Confirm, DeleteManifest, DeleteBlob, RemovePin, Compact, Quarantine, Armed
<1>6. CASE StartCompaction(p) \/ Finish(p) \/ WritePin(p)
  BY <1>6 DEF StartCompaction, Finish, WritePin
<1>7. CASE Release(p)
  BY <1>7 DEF Release, ReleaseRead, ReleaseWrite, Forgets
<1>8. CASE Dies(p)
  BY <1>8 DEF Dies, Die, Forgets
<1> QED
  BY <1>1, <1>2, <1>3, <1>4, <1>5, <1>6, <1>7, <1>8 DEF PassStep

\* At work on what it planned, from the roots it collected.
KeepsPlan(p) ==
  /\ at[p] \in Doing
  /\ roots'[p] = roots[p]
  /\ kind[p] # "maintain" => todo'[p] \subseteq todo[p]

(* A pass has a plan only from MakePlan(), and then only less to do of it; *)
(* it plans after it has read the last of its root stores.                 *)
LEMMA PlanFrom ==
  ASSUME LeaseTypes, StoreTypes, NEW p \in Passes, PassStep(p)
  PROVE  /\ at'[p] = "plan" => CollectPins(p) \/ CollectOverlays(p)
         /\ at'[p] \in Doing => MakePlan(p) \/ KeepsPlan(p)
<1> USE DEF OnlyGoes, Goes, Done, Doing, KeepsPlan, storeVars, planVars, besides, LeaseTypes, StoreTypes
<1>1. CASE Acquire(p) \/ Granted(p) \/ GateCloses(p) \/ CheckSubject(p)
  BY <1>1 DEF Acquire, AcquireRead, Granted, AcquireWrite, GateCloses, CheckSubject, FirstPhase
<1>2. CASE CollectRefs(p)
  BY <1>2 DEF CollectRefs, Collects
<1>3. CASE CollectOverlays(p) \/ CollectPins(p)
  BY <1>3 DEF CollectOverlays, CollectPins, Collects
<1>4. CASE MakePlan(p)
  BY <1>4 DEF MakePlan
<1>5. CASE AssertLease(p) \/ Renew(p)
  BY <1>5 DEF AssertLease, Ensure, Renew, RenewWrite
<1>6. CASE Confirm(p) \/ DeleteManifest(p) \/ DeleteBlob(p) \/ RemovePin(p) \/ Compact(p) \/ Quarantine(p)
  BY <1>6 DEF Confirm, DeleteManifest, DeleteBlob, RemovePin, Compact, Quarantine, Armed
<1>7. CASE StartCompaction(p) \/ Finish(p) \/ WritePin(p)
  BY <1>7 DEF StartCompaction, Finish, WritePin
<1>8. CASE Release(p)
  BY <1>8 DEF Release, ReleaseRead, ReleaseWrite, Forgets
<1>9. CASE Dies(p)
  BY <1>9 DEF Dies, Die, Forgets
<1> QED
  BY <1>1, <1>2, <1>3, <1>4, <1>5, <1>6, <1>7, <1>8, <1>9 DEF PassStep

(* Who changes the manifests or the pins.                                  *)
LEMMA StoreChanges ==
  ASSUME [Next]_vars
  PROVE  \/ \E p \in Passes : DeleteManifest(p) \/ WritePin(p) \/ RemovePin(p)
         \/ \E m \in Manifests : Unpin(m)
         \/ \E w \in Writers : AdvancePut(w)
         \/ UNCHANGED <<manifests, pinned>>
<1> USE DEF storeVars
<1>1. ASSUME NEW p \in Passes, PassStep(p)
      PROVE  DeleteManifest(p) \/ WritePin(p) \/ RemovePin(p) \/ UNCHANGED <<manifests, pinned>>
  <2>1. CASE Acquire(p) \/ Granted(p) \/ GateCloses(p) \/ CheckSubject(p) \/ AssertLease(p) \/ Renew(p)
    BY <2>1 DEF Acquire, Granted, GateCloses, CheckSubject, AssertLease, Renew
  <2>2. CASE CollectRefs(p) \/ CollectOverlays(p) \/ CollectPins(p) \/ MakePlan(p) \/ Confirm(p)
    BY <2>2 DEF CollectRefs, CollectOverlays, CollectPins, Collects, MakePlan, Confirm
  <2>3. CASE DeleteBlob(p) \/ Quarantine(p) \/ StartCompaction(p) \/ Compact(p) \/ Finish(p)
    BY <2>3 DEF DeleteBlob, Quarantine, StartCompaction, Compact, Finish
  <2>4. CASE Release(p) \/ Dies(p)
    BY <2>4 DEF Release, Dies, Forgets
  <2> QED
    BY <1>1, <2>1, <2>2, <2>3, <2>4 DEF PassStep
<1>2. CASE Unleased
  BY <1>2 DEF Unleased, AdvanceRead, AdvancePromote, AttachRead, AttachCreate, OverlayDelete
<1>3. CASE TimePasses \/ UNCHANGED vars
  BY <1>3 DEF TimePasses, vars
<1> QED
  BY <1>1, <1>2, <1>3 DEF Next, Unleased

(* The clock and the ghosts only go forward.                               *)
LEMMA GhostsGrow ==
  ASSUME [Next]_vars
  PROVE  (~late' => ~late) /\ (~clobbered' => ~clobbered)
<1>1. \/ UNCHANGED late
      \/ \E p \in Passes : Acts(p)
  <2>1. ASSUME NEW p \in Passes, PassStep(p)
        PROVE  UNCHANGED late \/ Acts(p)
    <3>1. CASE Acquire(p) \/ Granted(p) \/ GateCloses(p) \/ CheckSubject(p) \/ AssertLease(p) \/ Renew(p)
      BY <3>1, Zenon DEF Acquire, Granted, GateCloses, CheckSubject, AssertLease, Renew, OnlyGoes,
         AcquireRead, AcquireWrite, Ensure, RenewWrite
    <3>2. CASE CollectRefs(p) \/ CollectOverlays(p) \/ CollectPins(p) \/ MakePlan(p) \/ Confirm(p)
      BY <3>2, Zenon DEF CollectRefs, CollectOverlays, CollectPins, Collects, MakePlan, Confirm, OnlyGoes
    <3>3. CASE DeleteManifest(p) \/ DeleteBlob(p) \/ RemovePin(p) \/ Compact(p) \/ Quarantine(p) \/ WritePin(p)
      BY <3>3, Zenon DEF DeleteManifest, DeleteBlob, RemovePin, Compact, Quarantine, Armed, WritePin
    <3>4. CASE StartCompaction(p) \/ Finish(p)
      BY <3>4, Zenon DEF StartCompaction, Finish, OnlyGoes
    <3>5. CASE Release(p) \/ Dies(p)
      BY <3>5, Zenon DEF Release, Dies, ReleaseRead, ReleaseWrite, Die
    <3> QED
      BY <2>1, <3>1, <3>2, <3>3, <3>4, <3>5, Zenon DEF PassStep
  <2>2. CASE Unleased
    BY <2>2, Zenon DEF Unleased, AdvanceRead, AdvancePut, AdvancePromote, AttachRead, AttachCreate,
       OverlayDelete, Unpin, leaseVars
  <2>3. CASE TimePasses \/ UNCHANGED vars
    BY <2>3, Zenon DEF TimePasses, Tick, vars, leaseVars
  <2> QED
    BY <2>1, <2>2, <2>3, Zenon DEF Next, Unleased
<1>2. ~late' => ~late
  <2>1. CASE UNCHANGED late
    BY <2>1
  <2>2. CASE \E p \in Passes : Acts(p)
    BY <2>2, Zenon DEF Acts
  <2> QED
    BY <1>1, <2>1, <2>2
<1>3. ~clobbered' => ~clobbered
  <2>1. ASSUME NEW p \in Passes, LeaseStep(p)
        PROVE  ~clobbered' => ~clobbered
    <3>1. CASE UNCHANGED clobbered
      BY <3>1
    <3>2. CASE clobbered' = (clobbered \/ lease # had[p]) \/ clobbered' = (clobbered \/ lease # [had[p] EXCEPT !.exp = lease.exp])
      BY <3>2, Zenon
    <3> QED
      BY <2>1, <3>1, <3>2, Zenon DEF LeaseStep, AcquireRead, AcquireWrite, Ensure, RenewWrite,
         ReleaseRead, ReleaseWrite, Die, AtWork, CountsFromGrant, Write
  <2>2. CASE Tick \/ LeaseIdle
    BY <2>2, Zenon DEF Tick, LeaseIdle
  <2> QED
    BY <2>1, <2>2, NextMovesLease, Zenon
<1> QED
  BY <1>2, <1>3

(* A pass at work that has lost its record and outlived its lease has done *)
(* so for good: only its own renewal could bring it back, and that writes  *)
(* over another's record.                                                  *)
LEMMA FencedStays ==
  ASSUME LeaseAssumption, LeaseInd, [Next]_vars, ~clobbered',
         NEW q \in Passes, at[q] \in Working, Fenced(q)
  PROVE  Fenced(q)'
<1> USE DEF LeaseAssumption, LeaseInd, LeaseTypes
<1>1. ASSUME NEW p \in Passes, LeaseStep(p), p # q
      PROVE  Fenced(q)'
  <2>1. clock' = clock /\ since'[q] = since[q] /\ gen'[q] = gen[q]
    BY <1>1 DEF LeaseStep, AcquireRead, AcquireWrite, Ensure, RenewWrite, ReleaseRead, ReleaseWrite,
       Die, AtWork, CountsFromGrant, Write, Goes
  <2>2. lease' = lease \/ lease'.owner = p
    <3>1. CASE \E f : AcquireWrite(p, f)
      BY <3>1 DEF AcquireWrite, Write
    <3>2. CASE RenewWrite(p)
      BY <3>2 DEF RenewWrite, Write, DatesPast
    <3>3. CASE ReleaseWrite(p)
      BY <3>3 DEF ReleaseWrite, Write, DatesPast, Records
    <3>4. \/ \E f : AcquireWrite(p, f)
          \/ RenewWrite(p) \/ ReleaseWrite(p) \/ lease' = lease
      BY <1>1, Zenon DEF LeaseStep, AcquireRead, Ensure, ReleaseRead, Die, AtWork, CountsFromGrant
    <3> QED
      BY <3>1, <3>2, <3>3, <3>4
  <2> QED
    BY <1>1, <2>1, <2>2 DEF Fenced, Owns
<1>2. CASE LeaseStep(q)
  <2> USE DEF Working, Phases, Waits, Goes
  <2>1. CASE RenewWrite(q)
    <3>1. had[q].owner = q /\ had[q].gen = gen[q] /\ ~had[q].released
      BY <2>1 DEF RenewWrite, DatesPast
    <3>2. lease = [had[q] EXCEPT !.exp = lease.exp]
      BY <2>1, UnclobberedWrite DEF RenewWrite
    <3>3. Owns(q)
      BY <3>1, <3>2 DEF Owns, Records
    <3> QED
      BY <3>3 DEF Fenced
  <2>2. CASE CountsFromGrant(q)
    <3>1. since'[q] <= since[q] /\ since'[q] \in Nat /\ since[q] \in Nat
      BY <2>2 DEF CountsFromGrant, DatesPast
    <3>2. UNCHANGED <<lease, gen, clock>>
      BY <2>2 DEF CountsFromGrant
    <3> QED
      BY <3>1, <3>2 DEF Fenced, Owns
  <2>3. CASE UNCHANGED <<lease, gen, clock, since>>
    BY <2>3 DEF Fenced, Owns
  <2>4. RenewWrite(q) \/ CountsFromGrant(q) \/ UNCHANGED <<lease, gen, clock, since>>
    BY <1>2 DEF LeaseStep, AcquireRead, AcquireWrite, Ensure, ReleaseRead, ReleaseWrite, Die, AtWork
  <2> QED
    BY <2>1, <2>2, <2>3, <2>4
<1>3. CASE Tick
  BY <1>3 DEF Tick, Fenced, Owns
<1>4. CASE LeaseIdle
  BY <1>4 DEF LeaseIdle, Fenced, Owns
<1> QED
  BY <1>1, <1>2, <1>3, <1>4, NextMovesLease

-----------------------------------------------------------------------------
(* The pins.                                                               *)

\* While no pass has acted late and no record was overwritten: a pin has its
\* manifest, a pass about to write one has it in the time it leased, and a prune
\* that is not out knows of every pin when it plans and deletes none of them.
PinInd ==
  ~late /\ ~clobbered =>
    /\ pinned \subseteq manifests \cup Orphans
    /\ \A p \in Passes : at[p] = "pinning" /\ InWindow(p) => Subject \in manifests
    /\ \A p \in Passes : kind[p] = "prune" /\ ~Fenced(p) =>
         /\ at[p] = "plan" => pinned \ Orphans \subseteq roots[p]
         /\ at[p] \in Doing => todo[p] \cap pinned \subseteq Orphans

LEMMA FirstOfTodo ==
  ASSUME NEW p \in Passes, todo[p] # {}
  PROVE  First(p) \in todo[p]
BY Zenon DEF First

(* A pass that acts, and not late, acts in the time it leased.             *)
LEMMA ActsInWindow ==
  ASSUME LeaseAssumption, LeaseTypes, NEW p \in Passes, Acts(p), ~late', at[p] \in Working
  PROVE  InWindow(p)
<1>1. ~(clock >= since[p] + Ttl)
  BY Zenon DEF Acts
<1> QED
  BY <1>1 DEF InWindow, Working, LeaseTypes, LeaseAssumption

(* While one pass is at work in its time, every other is out or not at work. *)
LEMMA OthersFenced ==
  ASSUME LeaseAssumption, LeaseInd, ~clobbered, NEW p \in Passes, NEW q \in Passes, p # q,
         InWindow(p), at[q] \in Working
  PROVE  Fenced(q) /\ ~InWindow(q)
<1>1. ~InWindow(q)
  BY LeaseExcludes DEF ExclusivePass
<1>2. Owns(p)
  BY DEF LeaseInd, WindowOwned
<1>3. ~Owns(q)
  BY <1>2 DEF Owns
<1>4. clock >= since[q] + Ttl
  BY <1>1 DEF InWindow, Working, LeaseInd, LeaseTypes, LeaseAssumption
<1> QED
  BY <1>1, <1>3, <1>4 DEF Fenced

(* The manifests shrink, and the pins grow, only by a pass in its time.     *)
LEMMA OnlyInWindow ==
  ASSUME LeaseAssumption, LeaseInd, [Next]_vars, ~late'
  PROVE  /\ manifests \subseteq manifests'
            \/ \E p \in Passes : DeleteManifest(p) /\ at[p] = "armed" /\ InWindow(p)
         /\ pinned' \subseteq pinned
            \/ \E p \in Passes : WritePin(p) /\ at[p] = "pinning" /\ InWindow(p)
<1>1. ASSUME NEW p \in Passes, DeleteManifest(p)
      PROVE  at[p] = "armed" /\ InWindow(p) /\ pinned' = pinned
  BY <1>1, ActsInWindow DEF DeleteManifest, Armed, Working, Phases, Waits, LeaseInd
<1>2. ASSUME NEW p \in Passes, WritePin(p)
      PROVE  at[p] = "pinning" /\ InWindow(p) /\ manifests' = manifests
  BY <1>2, ActsInWindow DEF WritePin, Working, Phases, Waits, LeaseInd
<1>3. CASE \E p \in Passes : DeleteManifest(p)
  BY <1>1, <1>3
<1>4. CASE \E p \in Passes : WritePin(p)
  BY <1>2, <1>4
<1>5. CASE \E p \in Passes : RemovePin(p)
  BY <1>5 DEF RemovePin
<1>6. CASE \E m \in Manifests : Unpin(m)
  BY <1>6 DEF Unpin
<1>7. CASE \E w \in Writers : AdvancePut(w)
  BY <1>7 DEF AdvancePut
<1>8. CASE UNCHANGED <<manifests, pinned>>
  BY <1>8
<1> QED
  BY <1>3, <1>4, <1>5, <1>6, <1>7, <1>8, StoreChanges

(* A delete and a pin each need the time they leased, so whoever does one  *)
(* finds every other pass that might do the opposite out.                  *)
LEMMA PinStep ==
  ASSUME LeaseAssumption, StoreAssumption, LeaseInd, StoreTypes, PinInd, [Next]_vars
  PROVE  PinInd'
<1> SUFFICES ASSUME ~late', ~clobbered'
             PROVE  /\ pinned' \subseteq manifests' \cup Orphans
                    /\ \A p \in Passes : at'[p] = "pinning" /\ InWindow(p)' => Subject \in manifests'
                    /\ \A p \in Passes : kind'[p] = "prune" /\ ~Fenced(p)' =>
                         /\ at'[p] = "plan" => pinned' \ Orphans \subseteq roots'[p]
                         /\ at'[p] \in Doing => todo'[p] \cap pinned' \subseteq Orphans
  BY DEF PinInd
<1>0. ~late /\ ~clobbered
  BY GhostsGrow
<1>a. /\ pinned \subseteq manifests \cup Orphans
      /\ \A p \in Passes : at[p] = "pinning" /\ InWindow(p) => Subject \in manifests
      /\ \A p \in Passes : kind[p] = "prune" /\ ~Fenced(p) =>
           /\ at[p] = "plan" => pinned \ Orphans \subseteq roots[p]
           /\ at[p] \in Doing => todo[p] \cap pinned \subseteq Orphans
  BY <1>0 DEF PinInd
<1>b. LeaseTypes
  BY DEF LeaseInd
<1>1. pinned' \subseteq manifests' \cup Orphans
  <2>1. ASSUME NEW p \in Passes, DeleteManifest(p), at[p] = "armed", InWindow(p)
        PROVE  pinned' \subseteq manifests' \cup Orphans
    <3>1. ~Fenced(p)
      BY <2>1, <1>b DEF Fenced, InWindow, LeaseTypes, LeaseAssumption
    <3>2. kind[p] = "prune" /\ First(p) \in todo[p]
      BY <2>1, FirstOfTodo DEF DeleteManifest
    <3>3. First(p) \in pinned => First(p) \in Orphans
      BY <3>1, <3>2, <2>1, <1>a DEF Doing
    <3> QED
      BY <2>1, <3>3, <1>a DEF DeleteManifest
  <2>2. ASSUME NEW p \in Passes, WritePin(p), at[p] = "pinning", InWindow(p)
        PROVE  pinned' \subseteq manifests' \cup Orphans
    BY <2>2, <1>a DEF WritePin
  <2>3. CASE manifests \subseteq manifests' /\ pinned' \subseteq pinned
    BY <2>3, <1>a
  <2> QED
    BY <2>1, <2>2, <2>3, OnlyInWindow
<1>2. ASSUME NEW q \in Passes, at'[q] = "pinning", InWindow(q)'
      PROVE  Subject \in manifests'
  <2>1. CASE CheckSubject(q)
    <3>1. Subject \in manifests
      BY <2>1, <1>2, <1>b DEF CheckSubject, OnlyGoes, Goes, LeaseTypes
    <3> QED
      BY <3>1, <2>1 DEF CheckSubject, storeVars
  <2>2. CASE at[q] = "pinning" /\ InWindow(q)
    <3>1. ASSUME NEW p \in Passes, DeleteManifest(p), at[p] = "armed", InWindow(p)
          PROVE  FALSE
      BY <3>1, <2>2, <1>0, LeaseExcludes DEF ExclusivePass
    <3> QED
      BY <3>1, <2>2, <1>a, OnlyInWindow
  <2>3. CheckSubject(q) \/ (at[q] = "pinning" /\ InWindow(q))
    <3>1. ASSUME NEW p \in Passes, PassStep(p), p # q
          PROVE  at[q] = "pinning" /\ InWindow(q)
      <4>1. at'[q] = at[q]
        BY <3>1, <1>b, OthersStay
      <4>2. clock' = clock /\ since'[q] = since[q]
        BY <3>1, <1>b, PassMovesLease DEF LeaseStep, AcquireRead, AcquireWrite, Ensure, RenewWrite,
           ReleaseRead, ReleaseWrite, Die, AtWork, CountsFromGrant, Write, Goes, LeaseTypes
      <4> QED
        BY <4>1, <4>2, <1>2 DEF InWindow
    <3>2. CASE PassStep(q)
      <4>1. CASE CheckSubject(q)
        BY <4>1
      <4>2. CASE ~CheckSubject(q)
        BY <3>2, <4>2, <1>2, <1>b DEF PassStep, Acquire, AcquireRead, Granted, AcquireWrite, FirstPhase,
           GateCloses, CollectRefs, CollectOverlays, CollectPins, Collects, MakePlan, Confirm, AssertLease,
           Ensure, Renew, RenewWrite, DeleteManifest, Quarantine, DeleteBlob, RemovePin, Armed,
           StartCompaction, Compact, Finish, WritePin, Release, Dies, ReleaseRead, ReleaseWrite, Die,
           OnlyGoes, Goes, LeaseTypes
      <4> QED
        BY <4>1, <4>2
    <3>3. CASE Tick
      BY <3>3, <1>2, <1>b DEF Tick, InWindow, LeaseTypes, LeaseAssumption
    <3>4. CASE LeaseIdle
      BY <3>4, <1>2 DEF LeaseIdle, InWindow
    <3> QED
      BY <3>1, <3>2, <3>3, <3>4, NextMovesLease
  <2> QED
    BY <2>1, <2>2, <2>3
<1>3. ASSUME NEW q \in Passes, kind'[q] = "prune", ~Fenced(q)', at[q] \in {"plan"} \cup Doing
      PROVE  pinned' \subseteq pinned /\ ~Fenced(q)
  <2>0. at[q] \in Working
    BY <1>3 DEF Doing, Working, Phases, Waits
  <2>1. ~Fenced(q)
    BY <1>3, <2>0, FencedStays
  <2>2. ASSUME NEW p \in Passes, at[p] = "pinning", InWindow(p)
        PROVE  FALSE
    <3>1. p # q
      BY <2>2, <1>3 DEF Doing
    <3> QED
      BY <3>1, <2>0, <2>1, <2>2, <1>0, OthersFenced
  <2> QED
    BY <2>1, <2>2, OnlyInWindow
<1>4. ASSUME NEW q \in Passes, PassStep(q), kind'[q] = "prune", ~Fenced(q)'
      PROVE  /\ at'[q] = "plan" => pinned' \ Orphans \subseteq roots'[q]
             /\ at'[q] \in Doing => todo'[q] \cap pinned' \subseteq Orphans
  <2>0. kind[q] = "prune"
    BY <1>4, <1>b, OthersStay
  <2>1. CASE CollectPins(q)
    <3>1. ~OverBlobs(q)
      BY <2>0 DEF OverBlobs
    <3>2. roots'[q] = roots[q] \cup (pinned \cap manifests) /\ at'[q] = "plan" /\ pinned' = pinned
      BY <2>1, <3>1, <1>b DEF CollectPins, Collects, OnlyGoes, Goes, storeVars, LeaseTypes, StoreTypes
    <3> QED
      BY <3>2, <1>a DEF Doing
  <2>2. CASE CollectOverlays(q)
    <3>1. ~OverBlobs(q)
      BY <2>0 DEF OverBlobs
    <3>2. at'[q] = "pins"
      BY <2>2, <3>1, <1>b DEF CollectOverlays, Collects, OnlyGoes, Goes, LeaseTypes
    <3> QED
      BY <3>2 DEF Doing
  <2>3. CASE MakePlan(q)
    <3>1. at[q] = "plan" /\ at'[q] # "plan"
      BY <2>3, <1>b DEF MakePlan, OnlyGoes, Goes, LeaseTypes
    <3>2. pinned \ Orphans \subseteq roots[q]
      BY <3>1, <1>3, <1>4, <1>a, <2>0
    <3>3. at'[q] \in Doing => todo'[q] = manifests \ roots[q] /\ pinned' = pinned
      BY <2>3, <2>0, <1>b DEF MakePlan, OverBlobs, OnlyGoes, Goes, Planned, storeVars, Doing, LeaseTypes,
         StoreTypes
    <3> QED
      BY <3>1, <3>2, <3>3
  <2>4. CASE at[q] \in Doing /\ todo'[q] \subseteq todo[q] /\ at'[q] # "plan"
    <3>1. pinned' \subseteq pinned /\ ~Fenced(q)
      BY <2>4, <1>3, <1>4
    <3> QED
      BY <3>1, <2>4, <2>0, <1>a
  <2>5. CASE at'[q] \notin {"plan"} \cup Doing
    BY <2>5
  <2>6. CASE at'[q] = "plan"
    BY <1>4, <2>1, <2>2, <2>6, <1>b, PlanFrom
  <2>7. CASE at'[q] \in Doing
    <3>1. at'[q] # "plan"
      BY <2>7 DEF Doing
    <3>2. MakePlan(q) \/ (at[q] \in Doing /\ todo'[q] \subseteq todo[q])
      <4>1. MakePlan(q) \/ KeepsPlan(q)
        BY <1>4, <1>b, <2>7, PlanFrom
      <4> QED
        BY <4>1, <2>0 DEF KeepsPlan
    <3> QED
      BY <3>1, <3>2, <2>3, <2>4
  <2> QED
    BY <2>5, <2>6, <2>7
<1>5. ASSUME NEW q \in Passes, kind'[q] = "prune", ~Fenced(q)',
             kind'[q] = kind[q], at'[q] = at[q], roots'[q] = roots[q], todo'[q] = todo[q]
      PROVE  /\ at'[q] = "plan" => pinned' \ Orphans \subseteq roots'[q]
             /\ at'[q] \in Doing => todo'[q] \cap pinned' \subseteq Orphans
  BY <1>5, <1>3, <1>a DEF Doing
<1>6. ASSUME NEW q \in Passes, kind'[q] = "prune", ~Fenced(q)'
      PROVE  /\ at'[q] = "plan" => pinned' \ Orphans \subseteq roots'[q]
             /\ at'[q] \in Doing => todo'[q] \cap pinned' \subseteq Orphans
  <2>1. CASE PassStep(q)
    BY <2>1, <1>4, <1>6
  <2>2. ASSUME NEW p \in Passes, PassStep(p), p # q
        PROVE  kind'[q] = kind[q] /\ at'[q] = at[q] /\ roots'[q] = roots[q] /\ todo'[q] = todo[q]
    BY <2>2, <1>b, OthersStay
  <2>3. CASE Unleased \/ TimePasses \/ UNCHANGED vars
    BY <2>3, <1>5, <1>6 DEF Unleased, AdvanceRead, AdvancePut, AdvancePromote, AttachRead, AttachCreate,
       OverlayDelete, Unpin, TimePasses, Tick, vars, leaseVars, planVars
  <2> QED
    BY <2>1, <2>2, <2>3, <1>5, <1>6 DEF Next, Unleased
<1> QED
  BY <1>1, <1>2, <1>6

(* A pinned revision keeps its manifest (pinCanonicalRevision() takes the  *)
(* lease of the destructive passes), unless a pass acted after its lease   *)
(* or a lease record was overwritten.                                      *)
THEOREM PinsAreKept ==
  ASSUME LeaseAssumption, StoreAssumption
  PROVE  Spec => []PinnedKept
<1>1. Init => LeaseInd /\ StoreTypes /\ PinInd
  <2> SUFFICES ASSUME Init PROVE PinInd
    BY LeaseInitInd, StoreTypesInit
  <2>1. pinned \subseteq Orphans
    BY DEF Init
  <2>2. \A p \in Passes : at[p] = "idle"
    BY DEF Init, LeaseInit
  <2> QED
    BY <2>1, <2>2 DEF PinInd, Doing
<1>2. LeaseInd /\ StoreTypes /\ PinInd /\ [Next]_vars => (LeaseInd /\ StoreTypes /\ PinInd)'
  BY LeaseIndStep, TypesStep, PinStep
<1>3. PinInd => PinnedKept
  BY DEF PinInd, PinnedKept
<1> QED
  BY <1>1, <1>2, <1>3, PTL DEF Spec

-----------------------------------------------------------------------------
(* The roots that are there all along.                                     *)

Places == {"ref", "base", "pin"}

\* The root stores a pass has read.
ReadPlaces(p) ==
  IF at[p] = "plan" THEN Places
  ELSE IF at[p] = "overlays" THEN IF OverBlobs(p) THEN {"ref", "pin"} ELSE {"ref"}
  ELSE IF at[p] = "pins" THEN IF OverBlobs(p) THEN {"ref"} ELSE {"ref", "base"}
  ELSE {}

\* A root held since the grant is held, with its manifest; its manifest is among
\* the roots once its store was read, and nothing it names is to be deleted.
SteadyHeld == \A p \in Passes : \A r \in steady[p] : r \in HeldRoots /\ r[2] \in manifests
SteadyCollected ==
  \A p \in Passes : \A r \in steady[p] : r[1] \in ReadPlaces(p) => r[2] \in roots[p]
Spares(p) ==
  /\ kind[p] = "prune" => Steady(p) \cap todo[p] = {}
  /\ kind[p] = "expire" => \A m \in Steady(p) : Content[m] \cap todo[p] = {}
SteadySpared == \A p \in Passes : at[p] \in Doing => Spares(p)

SteadyInd ==
  /\ steady \in [Passes -> SUBSET (Places \X Manifests)]
  /\ SteadyHeld
  /\ SteadyCollected
  /\ SteadySpared

LEMMA HeldPlaces ==
  ASSUME StoreTypes
  PROVE  HeldRoots \subseteq Places \X Manifests
BY DEF HeldRoots, Rooted, Some, Places, StoreTypes

\* Nothing that was a root with its manifest stops being one.
RootsGrow == HeldRoots \subseteq HeldRoots' /\ manifests \subseteq manifests'

LEMMA GrowsOnUnchanged ==
  ASSUME UNCHANGED <<ref, base, pinned, manifests>>
  PROVE  RootsGrow
BY DEF RootsGrow, HeldRoots, Rooted

(* The roots of a pass that count as steady come with the grant, and are    *)
(* counted out, wherever they stop being held, by the step that does it.   *)
LEMMA PassSteady ==
  ASSUME LeaseTypes, StoreTypes, SteadyInd, NEW p \in Passes, PassStep(p)
  PROVE  \/ StillSteady
         \/ RootsGrow /\ steady' = steady
         \/ RootsGrow /\ Granted(p)
         \/ RootsGrow /\ steady' = [steady EXCEPT ![p] = {}]
<1> USE DEF storeVars, planVars, besides
<1>1. CASE Granted(p)
  BY <1>1, GrowsOnUnchanged DEF Granted
<1>2. CASE Acquire(p) \/ GateCloses(p) \/ CheckSubject(p) \/ AssertLease(p) \/ Renew(p)
  BY <1>2, GrowsOnUnchanged DEF Acquire, GateCloses, CheckSubject, AssertLease, Renew
<1>3. CASE CollectRefs(p) \/ CollectOverlays(p) \/ CollectPins(p)
  BY <1>3, GrowsOnUnchanged DEF CollectRefs, CollectOverlays, CollectPins, Collects
<1>4. CASE MakePlan(p) \/ Confirm(p) \/ DeleteBlob(p) \/ Quarantine(p)
  BY <1>4, GrowsOnUnchanged DEF MakePlan, Confirm, DeleteBlob, Quarantine
<1>5. CASE StartCompaction(p) \/ Compact(p) \/ Finish(p)
  BY <1>5, GrowsOnUnchanged DEF StartCompaction, Compact, Finish
<1>6. CASE DeleteManifest(p) \/ RemovePin(p)
  BY <1>6 DEF DeleteManifest, RemovePin
<1>7. CASE WritePin(p)
  <2>1. RootsGrow
    BY <1>7 DEF WritePin, RootsGrow, HeldRoots, Rooted
  <2> QED
    BY <2>1, <1>7 DEF WritePin
<1>8. CASE Release(p) \/ Dies(p)
  BY <1>8, GrowsOnUnchanged DEF Release, Dies, Forgets
<1> QED
  BY <1>1, <1>2, <1>3, <1>4, <1>5, <1>6, <1>7, <1>8 DEF PassStep

LEMMA UnleasedSteady ==
  ASSUME StoreTypes, Unleased
  PROVE  StillSteady \/ (RootsGrow /\ steady' = steady)
<1> USE DEF storeVars, planVars, besides
<1>1. ASSUME NEW w \in Writers, AdvancePut(w)
      PROVE  RootsGrow /\ steady' = steady
  BY <1>1 DEF AdvancePut, RootsGrow, HeldRoots, Rooted
<1>2. ASSUME NEW g \in Goals, AttachCreate(g)
      PROVE  RootsGrow /\ steady' = steady
  <2>1. base[g] = NoManifest /\ \A h \in Goals \ {g} : base'[h] = base[h]
    BY <1>2 DEF AttachCreate, StoreTypes
  <2>2. \A h \in Goals : Some(base[h]) \subseteq Some(base'[h])
    BY <2>1 DEF Some
  <2>3. UNION {Some(base[h]) : h \in Goals} \subseteq UNION {Some(base'[h]) : h \in Goals}
    BY <2>2
  <2>4. HeldRoots \subseteq HeldRoots'
    BY <2>3, <1>2 DEF AttachCreate, HeldRoots, Rooted
  <2> QED
    BY <2>4, <1>2 DEF AttachCreate, RootsGrow
<1>3. CASE \E w \in Writers : AdvanceRead(w)
  BY <1>3, GrowsOnUnchanged DEF AdvanceRead
<1>4. CASE \E g \in Goals : AttachRead(g)
  BY <1>4, GrowsOnUnchanged DEF AttachRead
<1>5. CASE \/ \E w \in Writers : AdvancePromote(w)
           \/ \E g \in Goals : OverlayDelete(g)
           \/ \E m \in Manifests : Unpin(m)
  BY <1>5 DEF AdvancePromote, OverlayDelete, Unpin
<1> QED
  BY <1>1, <1>2, <1>3, <1>4, <1>5 DEF Unleased

\* A pass was just granted with what is held, or its steady roots became fewer.
SteadyMoves ==
  \A q \in Passes : steady'[q] \subseteq steady[q] \/ (Granted(q) /\ steady'[q] \subseteq HeldRoots)

LEMMA SteadyHeldStep ==
  ASSUME LeaseTypes, StoreTypes, SteadyInd, [Next]_vars
  PROVE  /\ steady' \in [Passes -> SUBSET (Places \X Manifests)]
         /\ SteadyHeld'
         /\ SteadyMoves
<1> USE DEF SteadyInd, SteadyMoves
<1>1. CASE StillSteady
  <2>1. steady' \in [Passes -> SUBSET (Places \X Manifests)] /\ SteadyMoves
    BY <1>1 DEF StillSteady
  <2>2. \A p \in Passes : \A r \in steady'[p] : r \in Rooted(ref', base', pinned') /\ r[2] \in manifests'
    BY <1>1 DEF StillSteady
  <2> QED
    BY <2>1, <2>2 DEF SteadyHeld, HeldRoots
<1>2. CASE RootsGrow /\ steady' = steady
  BY <1>2 DEF RootsGrow, SteadyHeld
<1>3. ASSUME NEW p \in Passes, RootsGrow, Granted(p)
      PROVE  /\ steady' \in [Passes -> SUBSET (Places \X Manifests)]
             /\ SteadyHeld' /\ SteadyMoves
  <2>1. steady' = [steady EXCEPT ![p] = {r \in HeldRoots : r[2] \in manifests}]
    BY <1>3 DEF Granted
  <2>2. steady'[p] = {r \in HeldRoots : r[2] \in manifests} /\ \A q \in Passes \ {p} : steady'[q] = steady[q]
    BY <2>1
  <2>3. SteadyHeld'
    BY <2>2, <1>3 DEF RootsGrow, SteadyHeld
  <2> QED
    BY <2>1, <2>2, <2>3, <1>3, HeldPlaces
<1>4. ASSUME NEW p \in Passes, RootsGrow, steady' = [steady EXCEPT ![p] = {}]
      PROVE  /\ steady' \in [Passes -> SUBSET (Places \X Manifests)]
             /\ SteadyHeld' /\ SteadyMoves
  <2>1. steady'[p] = {} /\ \A q \in Passes \ {p} : steady'[q] = steady[q]
    BY <1>4
  <2>2. SteadyHeld'
    BY <2>1, <1>4 DEF RootsGrow, SteadyHeld
  <2> QED
    BY <2>1, <2>2, <1>4
<1>5. CASE \E p \in Passes : PassStep(p)
  BY <1>5, <1>1, <1>2, <1>3, <1>4, PassSteady
<1>6. CASE Unleased
  BY <1>6, <1>1, <1>2, UnleasedSteady
<1>7. CASE TimePasses \/ UNCHANGED vars
  <2>1. UNCHANGED <<ref, base, pinned, manifests, steady>>
    BY <1>7 DEF TimePasses, vars, storeVars
  <2> QED
    BY <2>1, <1>2, GrowsOnUnchanged
<1> QED
  BY <1>5, <1>6, <1>7 DEF Next, Unleased

(* Reading a root store adds the manifests its roots name, those that are  *)
(* there; what a pass has read it keeps until it is through.               *)
LEMMA PassCollects ==
  ASSUME LeaseTypes, StoreTypes, SteadyInd, SteadyMoves, NEW p \in Passes, PassStep(p)
  PROVE  \A r \in steady'[p] : r[1] \in ReadPlaces(p)' => r[2] \in roots'[p]
<1> USE DEF OnlyGoes, Goes, LeaseTypes, StoreTypes
<1>0. kind' = kind /\ (OverBlobs(p)' <=> OverBlobs(p))
  BY OthersStay DEF OverBlobs
<1>a. \A r \in steady[p] : /\ r \in HeldRoots /\ r[2] \in manifests
                           /\ r[1] \in ReadPlaces(p) => r[2] \in roots[p]
  BY DEF SteadyInd, SteadyHeld, SteadyCollected
<1>b. \A r \in HeldRoots : /\ r[1] = "ref" => r[2] \in RefRoots
                           /\ r[1] = "base" => r[2] \in OverlayRoots
                           /\ r[1] = "pin" => r[2] \in pinned
  BY DEF HeldRoots, Rooted, RefRoots, OverlayRoots
<1>1. ASSUME NEW here \in {"refs", "overlays", "pins"}, NEW there \in {"overlays", "pins", "plan"},
             NEW found, Collects(p, here, there, found)
      PROVE  /\ at[p] = here /\ steady' = steady
             /\ at'[p] = "closing" \/ (at'[p] = there /\ roots'[p] = roots[p] \cup (found \cap manifests))
  BY <1>1 DEF Collects
<1>2. CASE at'[p] \notin {"overlays", "pins", "plan"}
  BY <1>2 DEF ReadPlaces
<1>3. CASE CollectRefs(p)
  <2>1. steady' = steady /\ (at'[p] = "closing" \/ (/\ at'[p] = IF OverBlobs(p) THEN "pins" ELSE "overlays"
                                                   /\ roots'[p] = roots[p] \cup (RefRoots \cap manifests)))
    BY <1>3, <1>1 DEF CollectRefs
  <2> QED
    BY <2>1, <1>0, <1>a, <1>b DEF ReadPlaces
<1>4. CASE CollectOverlays(p)
  <2>1. steady' = steady /\ (at'[p] = "closing" \/ (/\ at'[p] = IF OverBlobs(p) THEN "plan" ELSE "pins"
                                                   /\ roots'[p] = roots[p] \cup (OverlayRoots \cap manifests)))
    BY <1>4, <1>1 DEF CollectOverlays
  <2>2. ReadPlaces(p) = IF OverBlobs(p) THEN {"ref", "pin"} ELSE {"ref"}
    BY <1>4, <1>1 DEF CollectOverlays, ReadPlaces
  <2> QED
    BY <2>1, <2>2, <1>0, <1>a, <1>b DEF ReadPlaces, Places
<1>5. CASE CollectPins(p)
  <2>1. steady' = steady /\ (at'[p] = "closing" \/ (/\ at'[p] = IF OverBlobs(p) THEN "overlays" ELSE "plan"
                                                   /\ roots'[p] = roots[p] \cup (pinned \cap manifests)))
    BY <1>5, <1>1 DEF CollectPins
  <2>2. ReadPlaces(p) = IF OverBlobs(p) THEN {"ref"} ELSE {"ref", "base"}
    BY <1>5, <1>1 DEF CollectPins, ReadPlaces
  <2> QED
    BY <2>1, <2>2, <1>0, <1>a, <1>b DEF ReadPlaces, Places
<1>6. CASE at'[p] \in {"overlays", "pins", "plan"}
  <2>1. CollectRefs(p) \/ CollectOverlays(p) \/ CollectPins(p)
    BY <1>6 DEF PassStep, Acquire, AcquireRead, Granted, AcquireWrite, FirstPhase, GateCloses, MakePlan,
       Confirm, AssertLease, Ensure, Renew, RenewWrite, DeleteManifest, Quarantine, DeleteBlob, RemovePin,
       Armed, StartCompaction, Compact, Finish, CheckSubject, WritePin, Release, Dies, ReleaseRead,
       ReleaseWrite, Die
  <2> QED
    BY <2>1, <1>3, <1>4, <1>5
<1> QED
  BY <1>2, <1>6

(* What a pass means to delete when it plans spares the steady roots, of   *)
(* which it has collected every one.                                       *)
LEMMA PlanSpares ==
  ASSUME StoreAssumption, LeaseTypes, StoreTypes, SteadyInd, NEW p \in Passes, MakePlan(p), at'[p] \in Doing
  PROVE  Spares(p)'
<1>1. steady' = steady /\ kind' = kind /\ roots' = roots /\ manifests' = manifests
  BY DEF MakePlan, storeVars
<1>2. todo'[p] = Planned(p) /\ at[p] = "plan"
  BY DEF MakePlan, OnlyGoes, Goes, Doing, LeaseTypes, StoreTypes
<1>3. \A r \in steady[p] : r[1] \in Places
  BY DEF SteadyInd
<1>4. Steady(p) \subseteq roots[p]
  BY <1>2, <1>3 DEF SteadyInd, SteadyCollected, ReadPlaces, Steady
<1>5. CASE kind[p] = "prune"
  <2>1. todo'[p] = manifests \ roots[p]
    BY <1>2, <1>5 DEF Planned
  <2> QED
    BY <2>1, <1>1, <1>4, <1>5 DEF Spares, Steady
<1>6. CASE kind[p] = "expire"
  <2>1. todo'[p] = {b \in Blobs : Expired(p, b)} \ Reachable(p)
    BY <1>2, <1>6 DEF Planned
  <2>2. \A m \in Steady(p) : Content[m] \subseteq Reachable(p)
    BY <1>4 DEF Reachable
  <2>3. Steady(p)' = Steady(p)
    BY <1>1 DEF Steady
  <2> QED
    BY <2>1, <2>2, <2>3, <1>1, <1>6 DEF Spares
<1>7. CASE kind[p] \notin {"prune", "expire"}
  BY <1>1, <1>7 DEF Spares
<1> QED
  BY <1>5, <1>6, <1>7

LEMMA PassSpares ==
  ASSUME StoreAssumption, LeaseTypes, StoreTypes, SteadyInd, SteadyMoves, NEW p \in Passes, PassStep(p),
         at'[p] \in Doing
  PROVE  Spares(p)'
<1>1. CASE MakePlan(p)
  BY <1>1, PlanSpares
<1>2. CASE KeepsPlan(p)
  <2>1. Spares(p)
    BY <1>2 DEF SteadyInd, SteadySpared, KeepsPlan
  <2>2. ~Granted(p)
    BY <1>2 DEF Granted, AcquireWrite, KeepsPlan, Doing
  <2>3. Steady(p)' \subseteq Steady(p)
    BY <2>2 DEF Steady, SteadyMoves
  <2>4. kind' = kind /\ (kind[p] # "maintain" => todo'[p] \subseteq todo[p])
    BY <1>2, OthersStay DEF KeepsPlan
  <2>5. CASE kind[p] = "prune"
    BY <2>1, <2>3, <2>4, <2>5 DEF Spares
  <2>6. CASE kind[p] = "expire"
    BY <2>1, <2>3, <2>4, <2>6 DEF Spares
  <2>7. CASE kind[p] \notin {"prune", "expire"}
    BY <2>4, <2>7 DEF Spares
  <2> QED
    BY <2>5, <2>6, <2>7
<1> QED
  BY <1>1, <1>2, PlanFrom

LEMMA SteadyStep ==
  ASSUME StoreAssumption, LeaseTypes, StoreTypes, SteadyInd, [Next]_vars
  PROVE  SteadyInd'
<1>1. steady' \in [Passes -> SUBSET (Places \X Manifests)] /\ SteadyHeld' /\ SteadyMoves
  BY SteadyHeldStep
<1>2. ASSUME NEW q \in Passes, at'[q] = at[q], roots'[q] = roots[q], todo'[q] = todo[q], kind'[q] = kind[q],
             ~Granted(q)
      PROVE  /\ \A r \in steady'[q] : r[1] \in ReadPlaces(q)' => r[2] \in roots'[q]
             /\ at'[q] \in Doing => Spares(q)'
  <2>1. ReadPlaces(q)' = ReadPlaces(q)
    BY <1>2 DEF ReadPlaces, OverBlobs
  <2>2. steady'[q] \subseteq steady[q]
    BY <1>1, <1>2 DEF SteadyMoves
  <2>3. Steady(q)' \subseteq Steady(q)
    BY <2>2 DEF Steady
  <2> QED
    BY <1>2, <2>1, <2>2, <2>3 DEF SteadyInd, SteadyCollected, SteadySpared, Spares
<1>3. ASSUME NEW p \in Passes, PassStep(p), NEW q \in Passes
      PROVE  /\ \A r \in steady'[q] : r[1] \in ReadPlaces(q)' => r[2] \in roots'[q]
             /\ at'[q] \in Doing => Spares(q)'
  <2>1. CASE q = p
    BY <2>1, <1>1, <1>3, PassCollects, PassSpares
  <2>2. CASE q # p
    <3>1. at'[q] = at[q] /\ roots'[q] = roots[q] /\ todo'[q] = todo[q] /\ kind'[q] = kind[q]
      BY <2>2, <1>3, OthersStay
    <3>2. ~Granted(q)
      BY <3>1 DEF Granted, AcquireWrite, FirstPhase, Goes, LeaseTypes
    <3> QED
      BY <3>1, <3>2, <1>2
  <2> QED
    BY <2>1, <2>2
<1>4. ASSUME Unleased \/ TimePasses \/ UNCHANGED vars, NEW q \in Passes
      PROVE  /\ \A r \in steady'[q] : r[1] \in ReadPlaces(q)' => r[2] \in roots'[q]
             /\ at'[q] \in Doing => Spares(q)'
  <2>1. UNCHANGED <<at, roots, todo, kind>>
    BY <1>4 DEF Unleased, AdvanceRead, AdvancePut, AdvancePromote, AttachRead, AttachCreate,
       OverlayDelete, Unpin, TimePasses, Tick, vars, leaseVars, planVars
  <2>2. ~Granted(q)
    BY <2>1 DEF Granted, AcquireWrite, FirstPhase, Goes, LeaseTypes
  <2> QED
    BY <2>1, <2>2, <1>2
<1>5. SteadyCollected' /\ SteadySpared'
  BY <1>3, <1>4 DEF Next, Unleased, SteadyCollected, SteadySpared
<1> QED
  BY <1>1, <1>5 DEF SteadyInd

\* No pass that is at its writes deletes what a steady root names.
Sparing ==
  \A p \in Passes : at[p] = "armed" =>
    /\ kind[p] = "prune" /\ at'[p] = "deeds" => Steady(p) \cap (manifests \ manifests') = {}
    /\ kind[p] = "expire" /\ at'[p] = "deeds" => \A m \in Steady(p) : Content[m] \cap (blobs \ blobs') = {}

\* A pass asserts its lease only for a write it has left to do.
TodoLeft == \A p \in Passes : at[p] \in {"confirmed", "armed", "renewing"} => todo[p] # {}

LEMMA TodoLeftStep ==
  ASSUME LeaseTypes, StoreTypes, TodoLeft, [Next]_vars
  PROVE  TodoLeft'
<1>1. ASSUME NEW p \in Passes, PassStep(p), at'[p] \in {"confirmed", "armed", "renewing"}
      PROVE  todo'[p] # {}
  <2>1. Confirm(p) \/ AssertLease(p) \/ Renew(p)
    BY <1>1 DEF PassStep, Acquire, AcquireRead, Granted, AcquireWrite, FirstPhase, GateCloses, CollectRefs,
       CollectOverlays, CollectPins, Collects, MakePlan, DeleteManifest, Quarantine, DeleteBlob, RemovePin,
       Armed, StartCompaction, Compact, Finish, CheckSubject, WritePin, Release, Dies, ReleaseRead,
       ReleaseWrite, Die, OnlyGoes, Goes, LeaseTypes
  <2>2. CASE Confirm(p)
    BY <2>2, <1>1 DEF Confirm, OnlyGoes, Goes, LeaseTypes
  <2>3. CASE AssertLease(p) \/ Renew(p)
    BY <2>3 DEF AssertLease, Ensure, Renew, RenewWrite, planVars, TodoLeft
  <2> QED
    BY <2>1, <2>2, <2>3
<1>2. ASSUME NEW p \in Passes, PassStep(p), NEW q \in Passes \ {p}
      PROVE  at'[q] = at[q] /\ todo'[q] = todo[q]
  BY <1>2, OthersStay
<1>3. CASE Unleased \/ TimePasses \/ UNCHANGED vars
  <2>1. UNCHANGED <<at, todo>>
    BY <1>3 DEF Unleased, AdvanceRead, AdvancePut, AdvancePromote, AttachRead, AttachCreate,
       OverlayDelete, Unpin, TimePasses, Tick, vars, leaseVars, planVars
  <2> QED
    BY <2>1 DEF TodoLeft
<1> QED
  BY <1>1, <1>2, <1>3 DEF Next, Unleased, TodoLeft

LEMMA WritesSpare ==
  ASSUME LeaseTypes, StoreTypes, SteadyInd, TodoLeft, [Next]_vars
  PROVE  Sparing
<1> SUFFICES ASSUME NEW p \in Passes, at[p] = "armed", at'[p] = "deeds"
             PROVE  /\ kind[p] = "prune" => Steady(p) \cap (manifests \ manifests') = {}
                    /\ kind[p] = "expire" => \A m \in Steady(p) : Content[m] \cap (blobs \ blobs') = {}
  BY DEF Sparing
<1>1. PassStep(p)
  <2>1. ASSUME NEW q \in Passes, PassStep(q), q # p
        PROVE  FALSE
    BY <2>1, OthersStay
  <2>2. CASE Unleased \/ TimePasses \/ UNCHANGED vars
    BY <2>2 DEF Unleased, AdvanceRead, AdvancePut, AdvancePromote, AttachRead, AttachCreate,
       OverlayDelete, Unpin, TimePasses, Tick, vars, leaseVars
  <2> QED
    BY <2>1, <2>2 DEF Next, Unleased
<1>2. DeleteManifest(p) \/ Quarantine(p) \/ DeleteBlob(p) \/ RemovePin(p) \/ Compact(p)
  BY <1>1 DEF PassStep, Acquire, AcquireRead, Granted, AcquireWrite, GateCloses, CollectRefs,
     CollectOverlays, CollectPins, Collects, MakePlan, Confirm, AssertLease, Ensure, Renew, RenewWrite,
     StartCompaction, Finish, CheckSubject, WritePin, Release, Dies, ReleaseRead, ReleaseWrite, Die,
     Goes, LeaseTypes
<1>3. Spares(p) /\ First(p) \in todo[p]
  BY FirstOfTodo DEF SteadyInd, SteadySpared, Doing, TodoLeft
<1>4. ASSUME kind[p] = "prune"
      PROVE  Steady(p) \cap (manifests \ manifests') = {}
  <2>1. manifests \ manifests' \subseteq {First(p)}
    BY <1>2, <1>4 DEF DeleteManifest, Quarantine, DeleteBlob, RemovePin, Compact
  <2> QED
    BY <2>1, <1>3, <1>4 DEF Spares
<1>5. ASSUME kind[p] = "expire", NEW m \in Steady(p)
      PROVE  Content[m] \cap (blobs \ blobs') = {}
  <2>1. blobs \ blobs' \subseteq {First(p)}
    BY <1>2, <1>5 DEF DeleteManifest, Quarantine, DeleteBlob, RemovePin, Compact
  <2> QED
    BY <2>1, <1>3, <1>5 DEF Spares
<1> QED
  BY <1>4, <1>5

(* No pass deletes the manifest of a root, or a blob such a manifest names,*)
(* that was there with its manifest since the pass was granted             *)
(* (pruneRevisionManifests(), expireGcQuarantine()), however the ref, the   *)
(* overlays and the pins move meanwhile: late or clobbered passes included. *)
THEOREM SteadyRootsAreKept ==
  ASSUME LeaseAssumption, StoreAssumption
  PROVE  Spec => SteadyRootsKept
<1> DEFINE Inv == LeaseInd /\ StoreTypes /\ SteadyInd /\ TodoLeft
<1>1. Init => Inv
  <2> SUFFICES ASSUME Init PROVE SteadyInd /\ TodoLeft
    BY LeaseInitInd, StoreTypesInit
  <2>1. steady = [p \in Passes |-> {}]
    BY DEF Init
  <2>2. \A p \in Passes : at[p] = "idle"
    BY DEF Init, LeaseInit
  <2> QED
    BY <2>1, <2>2 DEF SteadyInd, SteadyHeld, SteadyCollected, SteadySpared, TodoLeft, Doing
<1>2. Inv /\ [Next]_vars => Inv'
  BY LeaseIndStep, TypesStep, SteadyStep, TodoLeftStep DEF LeaseInd
<1>3. Inv /\ [Next]_vars => Sparing
  BY WritesSpare DEF LeaseInd
<1> QED
  BY <1>1, <1>2, <1>3, PTL DEF Spec, SteadyRootsKept, Sparing
=============================================================================
