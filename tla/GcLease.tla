-------------------------------- MODULE GcLease --------------------------------
(***************************************************************************)
(* The fence of the destructive passes over the canonical store            *)
(* (workspace/gc-lease.ts): one lease record in one file, taken, renewed   *)
(* and released by read-then-write, and the heartbeat a pass consults      *)
(* before each destructive step.  A pass is a process of its own with an   *)
(* owner id of its own; the token is named by the generation.              *)
(***************************************************************************)
EXTENDS Integers

CONSTANTS Passes, NoPass,
          Ttl,        \* ttlMs of the lease
          MaxClock,   \* bound: the clock stops here
          MayDie      \* bound: the passes whose process may die

\* No pass is mistaken for the absence of one.
LeaseAssumption == Ttl \in Nat /\ MaxClock \in Nat /\ NoPass \notin Passes

VARIABLES
  clock,      \* wall-clock time
  lease,      \* gc/lease.json
  at,         \* pass -> where it is
  gen,        \* pass -> the generation it was granted
  had,        \* pass -> the record it read last, as it is about to write it back
  since,      \* pass -> lastRenewedAt, before that its `now`
  clobbered,  \* ghost: a record was written over one that its writer never read
  late        \* ghost: a pass acted after the time it had leased

leaseVars == <<clock, lease, at, gen, had, since, clobbered, late>>

NoLease == [owner |-> NoPass, gen |-> 0, exp |-> 0, released |-> TRUE]

\* GcLeaseHeartbeat renews when half of the lease has gone.
Half == IF Ttl \div 2 > 1 THEN Ttl \div 2 ELSE 1

Goes(p, to) == at' = [at EXCEPT ![p] = to]

\* The record is live: acquire() is denied.
Held == ~lease.released /\ clock < lease.exp
\* The record on disk is the one pass p was granted.
Owns(p) == lease.owner = p /\ lease.gen = gen[p] /\ ~lease.released

LeaseInit ==
  /\ clock = 0
  /\ lease = NoLease
  /\ at = [p \in Passes |-> "idle"]
  /\ gen = [p \in Passes |-> 0]
  /\ had = [p \in Passes |-> NoLease]
  /\ since = [p \in Passes |-> 0]
  /\ clobbered = FALSE
  /\ late = FALSE

\* A write of the lease file by p, of what it made of the record it read.
Write(p, read, record) ==
  /\ lease' = record
  /\ had' = [had EXCEPT ![p] = NoLease]
  /\ clobbered' = (clobbered \/ lease # read)

\* acquire(): the record is read ...
AcquireRead(p) ==
  /\ at[p] = "idle"
  /\ IF Held THEN Goes(p, "ended") /\ UNCHANGED <<had, since>>
     ELSE /\ had' = [had EXCEPT ![p] = lease]
          /\ since' = [since EXCEPT ![p] = clock]
          /\ Goes(p, "granting")
  /\ UNCHANGED <<clock, lease, gen, clobbered, late>>

\* ... and replaced by the next generation.
AcquireWrite(p, first) ==
  /\ at[p] = "granting"
  /\ Write(p, had[p], [owner |-> p, gen |-> had[p].gen + 1, exp |-> since[p] + Ttl, released |-> FALSE])
  /\ gen' = [gen EXCEPT ![p] = had[p].gen + 1]
  /\ Goes(p, first)
  /\ UNCHANGED <<clock, since, late>>

\* Mutant of Ensure: a heartbeat renews whatever record is there.
EnsureUnfenced(p, here) ==
  /\ at[p] = here
  /\ \/ clock - since[p] < Half /\ Goes(p, "armed") /\ UNCHANGED had
     \/ /\ clock - since[p] >= Half
        /\ had' = [had EXCEPT ![p] = [lease EXCEPT !.exp = clock + Ttl]]
        /\ Goes(p, "renewing")
  /\ UNCHANGED <<clock, lease, gen, since, clobbered, late>>

\* assert(): a fresh lease is taken for granted, an older one is renewed, and a
\* lease that is another's ends the pass.
Ensure(p, here) ==
  /\ at[p] = here
  /\ \/ clock - since[p] < Half /\ Goes(p, "armed") /\ UNCHANGED had
     \/ /\ clock - since[p] >= Half
        /\ Owns(p)
        /\ had' = [had EXCEPT ![p] = [lease EXCEPT !.exp = clock + Ttl]]
        /\ Goes(p, "renewing")
     \/ clock - since[p] >= Half /\ ~Owns(p) /\ Goes(p, "closing") /\ UNCHANGED had
  /\ UNCHANGED <<clock, lease, gen, since, clobbered, late>>

\* Mutant of RenewWrite: the expiry is taken for the moment of the renewal.
RenewWriteAhead(p) ==
  /\ at[p] = "renewing"
  /\ Write(p, [had[p] EXCEPT !.exp = lease.exp], had[p])
  /\ since' = [since EXCEPT ![p] = had[p].exp]
  /\ Goes(p, "armed")
  /\ UNCHANGED <<clock, gen, late>>

\* renew() writes the record it read back, with an expiry that counts from the
\* moment ensure() looked at the clock (only its owner moves a record's expiry).
RenewWrite(p) ==
  /\ at[p] = "renewing"
  /\ Write(p, [had[p] EXCEPT !.exp = lease.exp], had[p])
  /\ since' = [since EXCEPT ![p] = had[p].exp - Ttl]
  /\ Goes(p, "armed")
  /\ UNCHANGED <<clock, gen, late>>

\* A write to the store by a pass that took the lease for granted.
Acts(p) == late' = (late \/ clock >= since[p] + Ttl)

\* release() in the finally block: fenced on owner and generation when it reads.
ReleaseRead(p) ==
  /\ at[p] = "closing"
  /\ IF Owns(p) THEN had' = [had EXCEPT ![p] = lease] /\ Goes(p, "releasing")
                ELSE Goes(p, "ended") /\ UNCHANGED had
  /\ since' = [since EXCEPT ![p] = 0]
  /\ UNCHANGED <<clock, lease, gen, clobbered, late>>

ReleaseWrite(p) ==
  /\ at[p] = "releasing"
  /\ Write(p, had[p], [had[p] EXCEPT !.released = TRUE])
  /\ Goes(p, "ended")
  /\ UNCHANGED <<clock, gen, since, late>>

Die(p) ==
  /\ p \in MayDie
  /\ at[p] \notin {"idle", "ended"}
  /\ Goes(p, "ended")
  /\ UNCHANGED <<clock, lease, gen, had, since, clobbered, late>>

Tick ==
  /\ clock < MaxClock
  /\ clock' = clock + 1
  /\ UNCHANGED <<lease, at, gen, had, since, clobbered, late>>

Waits == {"idle", "granting", "closing", "releasing", "ended"}
\* A pass at work in the time it has leased.
InWindow(p) == at[p] \notin Waits /\ clock < since[p] + Ttl

(* Two passes are never both at work in the time they leased, unless a     *)
(* read-then-write of the lease record was interleaved with another's.     *)
ExclusivePass == clobbered \/ \A p, q \in Passes : InWindow(p) /\ InWindow(q) => p = q
=============================================================================
