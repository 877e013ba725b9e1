-------------------------- MODULE HeavyJobDrainProofs --------------------------
(***************************************************************************)
(* Nested drains for any number of jobs, any capacity and any depth of the *)
(* stack: the controller's capacity is kept and one drain admits an        *)
(* attempt, whoever re-enters whom; and the guarded runtime reports a      *)
(* dropped row once and loses no wake.                                     *)
(*                                                                         *)
(* For the guarded runtime the leases are at every moment those of the     *)
(* jobs that were admitted or granted (LeasesAdmitted), a row that was     *)
(* dropped is in no list a drain still walks (DroppedIsOut), and a queued  *)
(* job that a running drain no longer has ahead of it was refused for want *)
(* of a slot that is still wanting (PassedOver).                           *)
(***************************************************************************)
EXTENDS HeavyJobDrain, FiniteSetTheorems, TLAPS

FrameType == [todo : SUBSET Jobs, admitted : SUBSET Jobs, dropping : Jobs \cup {NoJob}]

Admitted(j) == \E d \in DOMAIN stack : j \in stack[d].admitted

LeasesAdmitted == \A j \in Jobs : j \in drainActive <=> j \in drainGrants \/ Admitted(j)

DroppedIsOut ==
  /\ \A j \in Jobs : retired[j] <= 1
  /\ \A j \in Jobs : retired[j] = 1 =>
       /\ j \notin drainLocal
       /\ \A d \in DOMAIN stack : j \notin stack[d].todo /\ j # stack[d].dropping
  /\ \A d \in DOMAIN stack : stack[d].dropping \notin stack[d].todo

PassedOver ==
  \A d \in DOMAIN stack : \A j \in drainLocal :
    drainRow[j] = "queued" => j \in stack[d].todo \/ Cardinality(drainActive) >= DrainSlots

GuardedInd == Guarded => LeasesAdmitted /\ DroppedIsOut /\ PassedOver

DrainInd == DrainTypeOK /\ IsFiniteSet(drainActive) /\ AdmittedByOneDrain /\ GuardedInd

-----------------------------------------------------------------------------
(* The call stack.                                                         *)

LEMMA TopTyped ==
  ASSUME stack \in Seq(FrameType), stack # <<>>
  PROVE  /\ Depth \in Nat \ {0}
         /\ DOMAIN stack = 1..Depth
         /\ Depth \in DOMAIN stack
         /\ Top = stack[Depth]
         /\ Top \in FrameType
<1>1. Depth \in Nat \ {0} /\ DOMAIN stack = 1..Depth
  BY DEF Depth
<1>2. Depth \in DOMAIN stack /\ Top = stack[Depth]
  BY <1>1 DEF Top, Depth, Last
<1>3. stack[Depth] \in FrameType
  BY <1>2
<1> QED
  BY <1>1, <1>2, <1>3

LEMMA SetTopTyped ==
  ASSUME stack \in Seq(FrameType), stack # <<>>, NEW f \in FrameType
  PROVE  /\ SetTop(f) \in Seq(FrameType) /\ Len(SetTop(f)) = Depth /\ SetTop(f) # <<>>
         /\ DOMAIN SetTop(f) = DOMAIN stack
         /\ \A d \in DOMAIN stack : SetTop(f)[d] = IF d = Depth THEN f ELSE stack[d]
<1>1. Depth \in Nat \ {0} /\ DOMAIN stack = 1..Depth /\ Depth \in DOMAIN stack
  BY TopTyped
<1>2. SetTop(f) \in Seq(FrameType) /\ Len(SetTop(f)) = Depth
  BY <1>1 DEF SetTop, Depth
<1>3. DOMAIN SetTop(f) = DOMAIN stack
  BY <1>1 DEF SetTop
<1>4. \A d \in DOMAIN stack : SetTop(f)[d] = IF d = Depth THEN f ELSE stack[d]
  BY <1>1 DEF SetTop
<1>5. SetTop(f) # <<>>
  BY <1>1, <1>2
<1> QED
  BY <1>2, <1>3, <1>4, <1>5

LEMMA PopTyped ==
  ASSUME stack \in Seq(FrameType), stack # <<>>
  PROVE  /\ Pop \in Seq(FrameType) /\ Len(Pop) = Depth - 1
         /\ DOMAIN Pop = DOMAIN stack \ {Depth}
         /\ \A d \in DOMAIN Pop : Pop[d] = stack[d]
<1>1. Depth \in Nat \ {0} /\ DOMAIN stack = 1..Depth
  BY TopTyped
<1>2. /\ Pop \in Seq(FrameType) /\ Len(Pop) = Depth - 1
      /\ \A d \in 1..(Depth - 1) : Pop[d] = stack[d]
  BY <1>1 DEF Pop, Front, Depth
<1>3. DOMAIN Pop = 1..(Depth - 1)
  BY <1>2
<1> QED
  BY <1>1, <1>2, <1>3

LEMMA PushTyped ==
  ASSUME NEW s \in Seq(FrameType), NEW f \in FrameType
  PROVE  /\ Push(s, f) \in Seq(FrameType) /\ Len(Push(s, f)) = Len(s) + 1
         /\ DOMAIN Push(s, f) = DOMAIN s \cup {Len(s) + 1}
         /\ \A d \in DOMAIN s : Push(s, f)[d] = s[d]
         /\ Push(s, f)[Len(s) + 1] = f
<1>1. /\ Push(s, f) \in Seq(FrameType) /\ Len(Push(s, f)) = Len(s) + 1
      /\ Push(s, f)[Len(s) + 1] = f
      /\ \A d \in 1..Len(s) : Push(s, f)[d] = s[d]
  BY DEF Push
<1>2. DOMAIN Push(s, f) = 1..(Len(s) + 1) /\ DOMAIN s = 1..Len(s) /\ Len(s) \in Nat
  BY <1>1
<1> QED
  BY <1>1, <1>2

LEMMA FrameTyped ==
  ASSUME NEW todo \in SUBSET Jobs
  PROVE  Frame(todo) \in FrameType /\ Frame(todo).admitted = {} /\ Frame(todo).dropping = NoJob
         /\ Frame(todo).todo = todo
         /\ <<Frame(todo)>> \in Seq(FrameType) /\ Len(<<Frame(todo)>>) = 1
         /\ DOMAIN <<Frame(todo)>> = {1} /\ <<Frame(todo)>>[1] = Frame(todo)
<1>1. Frame(todo) \in FrameType
  BY DEF Frame, FrameType
<1> QED
  BY <1>1 DEF Frame

-----------------------------------------------------------------------------
(* Types, and the capacity.                                                *)

Typed == DrainTypeOK /\ IsFiniteSet(drainActive)

LEMMA AcquireKeeps ==
  ASSUME DrainAssumption, Typed, NEW j \in Jobs, Acquires(j)
  PROVE  /\ IsFiniteSet(drainActive \cup {j})
         /\ Cardinality(drainActive \cup {j}) <= DrainSlots
<1>1. Cardinality(drainActive) \in Nat /\ IsFiniteSet(drainActive)
  BY FS_CardinalityType DEF Typed
<1>2. IsFiniteSet(drainActive \cup {j}) /\ Cardinality(drainActive \cup {j}) = Cardinality(drainActive) + 1
  BY <1>1, FS_AddElement DEF Acquires
<1> QED
  BY <1>1, <1>2 DEF Acquires, DrainAssumption

LEMMA ReleaseKeeps ==
  ASSUME DrainAssumption, Typed, NEW S
  PROVE  /\ IsFiniteSet(drainActive \ S)
         /\ Cardinality(drainActive \ S) <= DrainSlots
<1>1. IsFiniteSet(drainActive \ S) /\ Cardinality(drainActive \ S) <= Cardinality(drainActive)
  BY FS_Subset DEF Typed
<1>2. Cardinality(drainActive) \in Nat /\ Cardinality(drainActive \ S) \in Nat /\ Cardinality(drainActive) <= DrainSlots
  BY <1>1, FS_CardinalityType DEF Typed, DrainTypeOK
<1> QED
  BY <1>1, <1>2 DEF DrainAssumption

LEMMA DroppingTyped ==
  ASSUME Typed, Running, NEW j \in Top.todo
  PROVE  /\ j \in Jobs /\ stack # <<>>
         /\ [Top EXCEPT !.todo = @ \ {j}, !.dropping = j] \in FrameType
         /\ [Top EXCEPT !.todo = @ \ {j}] \in FrameType
         /\ [Top EXCEPT !.todo = @ \ {j}, !.admitted = @ \cup {j}] \in FrameType
<1>1. stack # <<>> /\ stack \in Seq(FrameType)
  BY DEF Running, Typed, DrainTypeOK, FrameType
<1>2. Top \in FrameType
  BY <1>1, TopTyped
<1> QED
  BY <1>1, <1>2 DEF FrameType

LEMMA TypeStep ==
  ASSUME DrainAssumption, Typed, DrainNext
  PROVE  Typed'
<1>1. stack \in Seq(FrameType) /\ drainLocal \in SUBSET Jobs /\ Depth \in Nat
  BY DEF Typed, DrainTypeOK, FrameType, Depth
<1>2. stack = <<>> <=> Depth = 0
  BY <1>1 DEF Depth
<1>3. StackLimit >= 1 /\ StackLimit \in Nat
  BY DEF DrainAssumption
<1>4. CASE StartDrain
  BY <1>1, <1>2, <1>3, <1>4, FrameTyped DEF StartDrain, Typed, DrainTypeOK, FrameType, Depth, Guarded
<1>5. CASE Forget
  <2>1. Top \in FrameType /\ stack # <<>> /\ Top.dropping \in Jobs
    BY <1>1, <1>5, TopTyped DEF Forget, FrameType
  <2>2. [Top EXCEPT !.dropping = NoJob] \in FrameType
    BY <2>1 DEF FrameType
  <2>3. stack' \in Seq(FrameType) /\ Len(stack') = Depth
    BY <1>1, <1>5, <2>1, <2>2, SetTopTyped DEF Forget
  <2>4. retired' \in [Jobs -> Nat] /\ drainLocal' \subseteq Jobs
    BY <1>5, <2>1 DEF Forget, Typed, DrainTypeOK
  <2> QED
    BY <1>5, <2>3, <2>4 DEF Forget, Typed, DrainTypeOK, FrameType, Depth, Guarded
<1>6. CASE Return
  <2>0. Top \in FrameType /\ stack # <<>>
    BY <1>1, <1>6, TopTyped DEF Return, Running
  <2>1. PICK failed \in SUBSET Top.admitted :
          /\ drainRow' = [j \in Jobs |-> IF j \in failed THEN "done" ELSE drainRow[j]]
          /\ drainActive' = drainActive \ failed
          /\ drainGrants' = drainGrants \cup (Top.admitted \ failed)
          /\ again' = FALSE
          /\ stack' = IF failed # {} \/ again THEN SetTop(Frame(drainLocal)) ELSE Pop
    BY <1>6 DEF Return
  <2>2. stack' = SetTop(Frame(drainLocal)) \/ stack' = Pop
    BY <2>1
  <2>3. stack' \in Seq(FrameType) /\ Len(stack') <= Depth
    BY <1>1, <2>0, <2>2, SetTopTyped, PopTyped, FrameTyped
  <2>4. drainGrants' \subseteq Jobs /\ drainRow' \in [Jobs -> {"none", "queued", "running", "done", "gone"}]
    BY <2>0, <2>1 DEF Typed, DrainTypeOK, FrameType
  <2>5. Cardinality(drainActive') <= DrainSlots /\ IsFiniteSet(drainActive') /\ drainActive' \subseteq Jobs
    BY <2>1, ReleaseKeeps DEF Typed, DrainTypeOK
  <2>6. Len(stack') \in Nat
    BY <2>3
  <2>7. UNCHANGED <<port, drainLocal, retired>> /\ again' \in BOOLEAN
    BY <1>6, <2>1 DEF Return
  <2> QED
    BY <1>1, <1>3, <2>3, <2>4, <2>5, <2>6, <2>7 DEF Typed, DrainTypeOK, FrameType, Depth, Guarded
<1>7. ASSUME NEW j \in Jobs, AddWaiter(j) \/ RetireElsewhere(j) PROVE Typed'
  <2>1. CASE AddWaiter(j)
    <3>1. retired' \in [Jobs -> Nat] /\ drainLocal' \subseteq Jobs
      BY <2>1 DEF AddWaiter, Typed, DrainTypeOK
    <3>2. drainRow' \in [Jobs -> {"none", "queued", "running", "done", "gone"}]
      BY <2>1 DEF AddWaiter, Typed, DrainTypeOK
    <3> QED
      BY <2>1, <3>1, <3>2 DEF AddWaiter, Typed, DrainTypeOK, Depth, Guarded
  <2>2. CASE RetireElsewhere(j)
    BY <2>2 DEF RetireElsewhere, Typed, DrainTypeOK, Depth, Guarded
  <2> QED
    BY <1>7, <2>1, <2>2
<1>8. ASSUME NEW j \in Jobs, PassOver(j) PROVE Typed'
  <2>1. stack # <<>> /\ [Top EXCEPT !.todo = @ \ {j}] \in FrameType
    BY <1>8, DroppingTyped DEF PassOver
  <2>2. stack' \in Seq(FrameType) /\ Len(stack') = Depth
    BY <1>1, <1>8, <2>1, SetTopTyped DEF PassOver
  <2> QED
    BY <1>8, <2>2 DEF PassOver, Typed, DrainTypeOK, FrameType, Depth, Guarded
<1>9. ASSUME NEW j \in Jobs, Admit(j) PROVE Typed'
  <2>1. stack # <<>> /\ [Top EXCEPT !.todo = @ \ {j}, !.admitted = @ \cup {j}] \in FrameType
    BY <1>9, DroppingTyped DEF Admit
  <2>2. stack' \in Seq(FrameType) /\ Len(stack') = Depth
    BY <1>1, <1>9, <2>1, SetTopTyped DEF Admit
  <2>3. IsFiniteSet(drainActive') /\ Cardinality(drainActive') <= DrainSlots
    BY <1>9, AcquireKeeps DEF Admit
  <2> QED
    BY <1>9, <2>2, <2>3 DEF Admit, Typed, DrainTypeOK, FrameType, Depth, Guarded
<1>10. ASSUME NEW j \in Jobs, GiveBack(j) PROVE Typed'
  <2>1. stack # <<>> /\ Dropping(j) \in Seq(FrameType) /\ Len(Dropping(j)) = Depth
    BY <1>1, <1>10, DroppingTyped, SetTopTyped DEF GiveBack, Dropping
  <2>2. CASE Guarded
    BY <1>10, <2>1, <2>2 DEF GiveBack, Typed, DrainTypeOK, FrameType, Depth, Guarded
  <2>3. CASE ~Guarded
    <3>1. stack' = Push(Dropping(j), Frame(drainLocal)) /\ Depth < StackLimit /\ again' = again
      BY <1>10, <2>3 DEF GiveBack
    <3>2. stack' \in Seq(FrameType) /\ Len(stack') = Depth + 1
      BY <1>1, <2>1, <3>1, PushTyped, FrameTyped
    <3> QED
      BY <1>1, <1>3, <1>10, <2>3, <3>1, <3>2 DEF GiveBack, Typed, DrainTypeOK, FrameType, Depth, Guarded
  <2> QED
    BY <2>2, <2>3
<1>11. ASSUME NEW j \in Jobs, Overflow(j) PROVE Typed'
  <2>1. stack # <<>> /\ Dropping(j) \in Seq(FrameType) /\ Len(Dropping(j)) = Depth
    BY <1>1, <1>11, DroppingTyped, SetTopTyped DEF Overflow, Dropping
  <2>2. IsFiniteSet(drainActive') /\ Cardinality(drainActive') <= DrainSlots /\ drainActive' \subseteq Jobs
    BY <1>11, AcquireKeeps DEF Overflow, Typed, DrainTypeOK
  <2> QED
    BY <1>11, <2>1, <2>2 DEF Overflow, Typed, DrainTypeOK, FrameType, Depth, Guarded
<1>12. ASSUME NEW j \in Jobs, Finish(j) PROVE Typed'
  <2>1. IsFiniteSet(drainActive') /\ Cardinality(drainActive') <= DrainSlots /\ drainActive' \subseteq Jobs
    BY <1>12, ReleaseKeeps DEF Finish, Typed, DrainTypeOK
  <2>2. stack' \in Seq(FrameType) /\ Len(stack') = 1
    BY <1>1, <1>12, FrameTyped DEF Finish
  <2> QED
    BY <1>3, <1>12, <2>1, <2>2 DEF Finish, Typed, DrainTypeOK, FrameType, Depth, Guarded
<1> QED
  BY <1>4, <1>5, <1>6, <1>7, <1>8, <1>9, <1>10, <1>11, <1>12 DEF DrainNext

-----------------------------------------------------------------------------
(* One drain admits an attempt.                                            *)

\* The admissions of the frame at depth d.
InFrame(j, d) == d \in DOMAIN stack /\ j \in stack[d].admitted

\* A step that moves no admission preserves the invariant.
LEMMA NothingAdmitted ==
  ASSUME AdmittedByOneDrain, drainGrants' = drainGrants,
         \A j \in Jobs : drainRow'[j] = "running" <=> drainRow[j] = "running",
         \A j \in Jobs : \A d : InFrame(j, d)' <=> InFrame(j, d)
  PROVE  AdmittedByOneDrain'
BY DEF AdmittedByOneDrain, InFrame

\* Replacing the innermost frame by one with the same admissions moves none.
LEMMA SameAdmitted ==
  ASSUME stack \in Seq(FrameType), stack # <<>>,
         NEW f \in FrameType, f.admitted = Top.admitted, stack' = SetTop(f),
         NEW j, NEW d
  PROVE  InFrame(j, d)' <=> InFrame(j, d)
BY TopTyped, SetTopTyped DEF InFrame

LEMMA OneDrainStep ==
  ASSUME DrainAssumption, Typed, AdmittedByOneDrain, DrainNext
  PROVE  AdmittedByOneDrain'
<1>1. stack \in Seq(FrameType) /\ drainLocal \in SUBSET Jobs
  BY DEF Typed, DrainTypeOK, FrameType
<1>2. drainRow \in [Jobs -> {"none", "queued", "running", "done", "gone"}] /\ drainGrants \subseteq Jobs
  BY DEF Typed, DrainTypeOK
<1>3. DOMAIN <<>> = {}
  OBVIOUS
<1>4. CASE StartDrain
  <2>1. \A j \in Jobs : \A d : InFrame(j, d)' <=> InFrame(j, d)
    BY <1>1, <1>3, <1>4, FrameTyped DEF StartDrain, InFrame
  <2> QED
    BY <1>4, <2>1, NothingAdmitted DEF StartDrain
<1>5. CASE Forget
  <2>1. /\ stack # <<>> /\ [Top EXCEPT !.dropping = NoJob] \in FrameType
        /\ [Top EXCEPT !.dropping = NoJob].admitted = Top.admitted
    BY <1>1, <1>5, TopTyped DEF Forget, FrameType
  <2>2. \A j \in Jobs : \A d : InFrame(j, d)' <=> InFrame(j, d)
    BY <1>1, <1>5, <2>1, SameAdmitted DEF Forget
  <2> QED
    BY <1>5, <2>2, NothingAdmitted DEF Forget
<1>6. CASE Return
  <2>1. PICK failed \in SUBSET Top.admitted :
          /\ drainRow' = [j \in Jobs |-> IF j \in failed THEN "done" ELSE drainRow[j]]
          /\ drainActive' = drainActive \ failed
          /\ drainGrants' = drainGrants \cup (Top.admitted \ failed)
          /\ again' = FALSE
          /\ stack' = IF failed # {} \/ again THEN SetTop(Frame(drainLocal)) ELSE Pop
    BY <1>6 DEF Return
  <2>2. stack # <<>> /\ Top = stack[Depth] /\ Depth \in DOMAIN stack /\ Top.admitted \subseteq Jobs
    BY <1>1, <1>6, TopTyped DEF Return, Running, FrameType
  <2>3. stack' = SetTop(Frame(drainLocal)) \/ stack' = Pop
    BY <2>1
  <2>4. \A j \in Jobs : \A d : InFrame(j, d)' <=> InFrame(j, d) /\ d # Depth
    <3>1. CASE stack' = SetTop(Frame(drainLocal))
      BY <1>1, <2>2, <3>1, SetTopTyped, FrameTyped DEF InFrame
    <3>2. CASE stack' = Pop
      BY <1>1, <2>2, <3>2, PopTyped DEF InFrame
    <3> QED
      BY <2>3, <3>1, <3>2
  <2>5. \A j \in Jobs : j \in Top.admitted <=> InFrame(j, Depth)
    BY <2>2 DEF InFrame
  <2>6. \A j \in Jobs : /\ j \in drainGrants' <=> j \in drainGrants \/ (j \in Top.admitted /\ j \notin failed)
                        /\ drainRow'[j] = "running" <=> drainRow[j] = "running" /\ j \notin failed
    BY <1>2, <2>1, <2>2
  <2>7. failed \subseteq Top.admitted
    BY <2>1
  <2> QED
    BY <2>4, <2>5, <2>6, <2>7 DEF AdmittedByOneDrain, InFrame
<1>7. ASSUME NEW j \in Jobs, AddWaiter(j) PROVE AdmittedByOneDrain'
  <2>1. \A k \in Jobs : drainRow'[k] = "running" <=> drainRow[k] = "running"
    BY <1>2, <1>7 DEF AddWaiter
  <2> QED
    BY <1>7, <2>1, NothingAdmitted DEF AddWaiter, InFrame
<1>8. ASSUME NEW j \in Jobs, RetireElsewhere(j) PROVE AdmittedByOneDrain'
  <2>1. \A k \in Jobs : drainRow'[k] = "running" <=> drainRow[k] = "running"
    BY <1>2, <1>8 DEF RetireElsewhere
  <2> QED
    BY <1>8, <2>1, NothingAdmitted DEF RetireElsewhere, InFrame
<1>9. ASSUME NEW j \in Jobs, PassOver(j) PROVE AdmittedByOneDrain'
  <2>1. /\ stack # <<>> /\ [Top EXCEPT !.todo = @ \ {j}] \in FrameType
        /\ [Top EXCEPT !.todo = @ \ {j}].admitted = Top.admitted
    BY <1>1, <1>9, DroppingTyped, TopTyped DEF PassOver, FrameType
  <2>2. \A k \in Jobs : \A d : InFrame(k, d)' <=> InFrame(k, d)
    BY <1>1, <1>9, <2>1, SameAdmitted DEF PassOver
  <2> QED
    BY <1>9, <2>2, NothingAdmitted DEF PassOver
<1>10. ASSUME NEW j \in Jobs, Admit(j) PROVE AdmittedByOneDrain'
  <2> DEFINE f == [Top EXCEPT !.todo = @ \ {j}, !.admitted = @ \cup {j}]
  <2>1. /\ stack # <<>> /\ f \in FrameType /\ Top = stack[Depth] /\ Depth \in DOMAIN stack
        /\ f.admitted = Top.admitted \cup {j} /\ stack' = SetTop(f)
    BY <1>1, <1>10, DroppingTyped, TopTyped DEF Admit, FrameType
  <2> HIDE DEF f
  <2>2. \A k \in Jobs : \A d : InFrame(k, d)' <=> InFrame(k, d) \/ (k = j /\ d = Depth)
    BY <1>1, <2>1, SetTopTyped DEF InFrame
  <2>3. \A k \in Jobs : drainRow'[k] = "running" <=> drainRow[k] = "running" \/ k = j
    BY <1>2, <1>10 DEF Admit
  <2>4. drainRow[j] # "running" /\ drainGrants' = drainGrants
    BY <1>10 DEF Admit
  <2> QED
    BY <2>2, <2>3, <2>4 DEF AdmittedByOneDrain, InFrame
<1>11. ASSUME NEW j \in Jobs, GiveBack(j) \/ Overflow(j) PROVE AdmittedByOneDrain'
  <2> DEFINE f == [Top EXCEPT !.todo = @ \ {j}, !.dropping = j]
  <2>1. /\ stack # <<>> /\ f \in FrameType /\ f.admitted = Top.admitted /\ Dropping(j) = SetTop(f)
    BY <1>1, <1>11, DroppingTyped, TopTyped DEF GiveBack, Overflow, Dropping, FrameType
  <2>2. /\ SetTop(f) \in Seq(FrameType)
        /\ DOMAIN SetTop(f) = DOMAIN stack /\ Len(SetTop(f)) = Depth
        /\ \A d \in DOMAIN stack : SetTop(f)[d].admitted = stack[d].admitted
    BY <1>1, <2>1, SetTopTyped, TopTyped
  <2>3. stack' = SetTop(f) \/ stack' = Push(SetTop(f), Frame(drainLocal))
    BY <1>11, <2>1 DEF GiveBack, Overflow
  <2> HIDE DEF f
  <2>4. \A k \in Jobs : \A d : InFrame(k, d)' <=> InFrame(k, d)
    <3>1. CASE stack' = SetTop(f)
      BY <2>2, <3>1 DEF InFrame
    <3>2. CASE stack' = Push(SetTop(f), Frame(drainLocal))
      <4>1. /\ DOMAIN stack' = DOMAIN stack \cup {Depth + 1}
            /\ \A d \in DOMAIN stack : stack'[d] = SetTop(f)[d]
            /\ stack'[Depth + 1].admitted = {}
        <5>1. Frame(drainLocal) \in FrameType /\ Frame(drainLocal).admitted = {}
          BY <1>1, FrameTyped
        <5>2. /\ DOMAIN stack' = DOMAIN SetTop(f) \cup {Len(SetTop(f)) + 1}
              /\ \A d \in DOMAIN SetTop(f) : stack'[d] = SetTop(f)[d]
              /\ stack'[Len(SetTop(f)) + 1] = Frame(drainLocal)
          BY <2>2, <3>2, <5>1, PushTyped
        <5> QED
          BY <2>2, <5>1, <5>2
      <4>2. Depth + 1 \notin DOMAIN stack
        BY <1>1, <2>1, TopTyped
      <4> QED
        BY <2>2, <4>1, <4>2 DEF InFrame
    <3> QED
      BY <2>3, <3>1, <3>2
  <2>5. UNCHANGED <<drainRow, drainGrants>>
    BY <1>11 DEF GiveBack, Overflow
  <2> QED
    BY <2>4, <2>5, NothingAdmitted
<1>12. ASSUME NEW j \in Jobs, Finish(j) PROVE AdmittedByOneDrain'
  <2>1. \A k \in Jobs : \A d : ~InFrame(k, d) /\ ~InFrame(k, d)'
    BY <1>1, <1>3, <1>12, FrameTyped DEF Finish, InFrame
  <2>2. \A k \in Jobs : drainRow'[k] = "running" <=> drainRow[k] = "running" /\ k # j
    BY <1>2, <1>12 DEF Finish
  <2>3. drainGrants' = drainGrants \ {j}
    BY <1>12 DEF Finish
  <2> QED
    BY <2>1, <2>2, <2>3 DEF AdmittedByOneDrain, InFrame
<1> QED
  BY <1>4, <1>5, <1>6, <1>7, <1>8, <1>9, <1>10, <1>11, <1>12 DEF DrainNext

-----------------------------------------------------------------------------
(* The guarded runtime has at most one drain on the stack.                 *)

LEMMA OneDrain ==
  ASSUME Typed, Guarded
  PROVE  /\ stack = <<>> => DOMAIN stack = {}
         /\ stack # <<>> => DOMAIN stack = {1} /\ Depth = 1 /\ Top = stack[1] /\ Top \in FrameType
<1>1. stack \in Seq(FrameType) /\ Depth <= 1
  BY DEF Typed, DrainTypeOK, FrameType
<1>2. CASE stack # <<>>
  BY <1>1, <1>2, TopTyped
<1> QED
  BY <1>2

\* What is replaced is that drain.
LEMMA OneDrainReplaced ==
  ASSUME Typed, Guarded, stack # <<>>, NEW f \in FrameType
  PROVE  DOMAIN SetTop(f) = {1} /\ SetTop(f)[1] = f /\ SetTop(f) # <<>>
<1>1. stack \in Seq(FrameType)
  BY DEF Typed, DrainTypeOK, FrameType
<1> QED
  BY <1>1, OneDrain, SetTopTyped

\* When it returns, the stack is empty.
LEMMA OneDrainReturns ==
  ASSUME Typed, Guarded, stack # <<>>
  PROVE  DOMAIN Pop = {} /\ Pop = <<>>
<1>1. stack \in Seq(FrameType)
  BY DEF Typed, DrainTypeOK, FrameType
<1>2. Len(Pop) = 0 /\ Pop \in Seq(FrameType)
  BY <1>1, OneDrain, PopTyped
<1> QED
  BY <1>2

-----------------------------------------------------------------------------
(* The guarded runtime.                                                    *)

\* What the steps of a guarded drain leave to show, of its only frame f and of
\* the frame f1 it becomes: the conjuncts of GuardedInd, frame by frame.
FrameOK(f, jobs, leases, counts, rows) ==
  /\ \A j \in Jobs : counts[j] = 1 => j \notin f.todo /\ j # f.dropping
  /\ f.dropping \notin f.todo
  /\ \A j \in jobs : rows[j] = "queued" => j \in f.todo \/ Cardinality(leases) >= DrainSlots

OutOK(jobs, counts) ==
  \A j \in Jobs : counts[j] <= 1 /\ (counts[j] = 1 => j \notin jobs)

LEMMA GuardedFrame ==
  ASSUME Typed, Guarded, GuardedInd, stack # <<>>
  PROVE  /\ FrameOK(Top, drainLocal, drainActive, retired, drainRow)
         /\ OutOK(drainLocal, retired)
         /\ \A j \in Jobs : j \in drainActive <=> j \in drainGrants \/ j \in Top.admitted
BY OneDrain DEF GuardedInd, FrameOK, OutOK, LeasesAdmitted, Admitted, DroppedIsOut, PassedOver

LEMMA FrameGuarded ==
  ASSUME NEW f, DOMAIN stack' = {1}, stack'[1] = f,
         FrameOK(f, drainLocal', drainActive', retired', drainRow'), OutOK(drainLocal', retired'),
         \A j \in Jobs : j \in drainActive' <=> j \in drainGrants' \/ j \in f.admitted
  PROVE  GuardedInd'
<1>1. LeasesAdmitted'
  BY DEF LeasesAdmitted, Admitted
<1>2. DroppedIsOut'
  BY DEF FrameOK, OutOK, DroppedIsOut
<1>3. PassedOver'
  BY DEF FrameOK, PassedOver
<1> QED
  BY <1>1, <1>2, <1>3 DEF GuardedInd

LEMMA NoFrame ==
  ASSUME DOMAIN stack' = {}, OutOK(drainLocal', retired'), drainActive' = drainGrants', drainActive' \subseteq Jobs
  PROVE  GuardedInd'
BY DEF OutOK, GuardedInd, LeasesAdmitted, Admitted, DroppedIsOut, PassedOver

\* A new drain has the whole waiter list ahead of it.
LEMMA NewFrameOK ==
  ASSUME DrainAssumption, NEW jobs \in SUBSET Jobs, NEW leases, NEW counts, NEW rows,
         OutOK(jobs, counts)
  PROVE  FrameOK(Frame(jobs), jobs, leases, counts, rows)
BY DEF FrameOK, OutOK, Frame, DrainAssumption

LEMMA GuardedStep ==
  ASSUME DrainAssumption, DrainInd, Guarded, DrainNext
  PROVE  GuardedInd'
<1>1. Typed /\ AdmittedByOneDrain /\ GuardedInd /\ LeasesAdmitted /\ NoJob \notin Jobs
  BY DEF DrainInd, Typed, GuardedInd, DrainAssumption
<1>2. /\ drainLocal \in SUBSET Jobs /\ drainActive \in SUBSET Jobs /\ drainGrants \in SUBSET Jobs
      /\ drainRow \in [Jobs -> {"none", "queued", "running", "done", "gone"}]
      /\ retired \in [Jobs -> Nat] /\ Cardinality(drainActive) \in Nat /\ DrainSlots \in Nat
  BY <1>1, FS_CardinalityType DEF Typed, DrainTypeOK, DrainAssumption
<1>3. OutOK(drainLocal, retired)
  BY <1>1 DEF GuardedInd, DroppedIsOut, OutOK
<1>4. stack = <<>> => drainActive = drainGrants
  BY <1>1, <1>2, OneDrain DEF LeasesAdmitted, Admitted
<1>5. CASE StartDrain
  <2>1. DOMAIN stack' = {1} /\ stack'[1] = Frame(drainLocal) /\ Frame(drainLocal).admitted = {}
    BY <1>2, <1>5, FrameTyped DEF StartDrain
  <2>2. FrameOK(Frame(drainLocal), drainLocal', drainActive', retired', drainRow')
    BY <1>2, <1>3, <1>5, NewFrameOK DEF StartDrain
  <2> QED
    BY <1>3, <1>4, <1>5, <2>1, <2>2, FrameGuarded DEF StartDrain
<1>6. CASE Forget
  <2> DEFINE f == [Top EXCEPT !.dropping = NoJob]
  <2>1. stack # <<>> /\ Top \in FrameType /\ Top.dropping \in Jobs
    BY <1>1, <1>6, OneDrain DEF Forget, FrameType
  <2>2. /\ f \in FrameType /\ f.admitted = Top.admitted /\ f.todo = Top.todo /\ f.dropping = NoJob
    BY <2>1 DEF FrameType
  <2>3. stack' = SetTop(f)
    BY <1>6 DEF Forget
  <2>4. DOMAIN stack' = {1} /\ stack'[1] = f
    BY <1>1, <2>1, <2>2, <2>3, OneDrainReplaced
  <2> HIDE DEF f
  <2>5. /\ FrameOK(Top, drainLocal, drainActive, retired, drainRow)
        /\ \A j \in Jobs : j \in drainActive <=> j \in drainGrants \/ j \in Top.admitted
    BY <1>1, <2>1, GuardedFrame
  <2>6. /\ drainLocal' = drainLocal \ {Top.dropping} /\ UNCHANGED <<drainRow, drainActive, drainGrants>>
        /\ retired' = [retired EXCEPT ![Top.dropping] = @ + 1]
    BY <1>6 DEF Forget
  <2>7. Top.todo \subseteq Jobs /\ Top.dropping \notin Top.todo /\ retired[Top.dropping] = 0
    BY <1>2, <1>3, <2>1, <2>5 DEF FrameOK, OutOK, FrameType
  <2>8. FrameOK(f, drainLocal', drainActive', retired', drainRow')
    BY <1>1, <1>2, <2>1, <2>2, <2>5, <2>6, <2>7 DEF FrameOK
  <2>9. OutOK(drainLocal', retired')
    BY <1>2, <1>3, <2>1, <2>6, <2>7 DEF OutOK
  <2> QED
    BY <2>2, <2>4, <2>5, <2>6, <2>8, <2>9, FrameGuarded
<1>7. CASE Return
  <2>1. PICK failed \in SUBSET Top.admitted :
          /\ drainRow' = [j \in Jobs |-> IF j \in failed THEN "done" ELSE drainRow[j]]
          /\ drainActive' = drainActive \ failed
          /\ drainGrants' = drainGrants \cup (Top.admitted \ failed)
          /\ again' = FALSE
          /\ stack' = IF failed # {} \/ again THEN SetTop(Frame(drainLocal)) ELSE Pop
    BY <1>7 DEF Return
  <2>2. stack # <<>> /\ UNCHANGED <<port, drainLocal, retired>>
    BY <1>7 DEF Return, Running
  <2>3. stack' = SetTop(Frame(drainLocal)) \/ stack' = Pop
    BY <2>1
  <2>4. /\ DOMAIN stack = {1} /\ Top = stack[1] /\ Top \in FrameType
        /\ \A j \in Jobs : j \in drainActive <=> j \in drainGrants \/ j \in Top.admitted
    BY <1>1, <2>2, OneDrain, GuardedFrame
  <2>5. \A j \in Jobs : j \in drainGrants => j \notin Top.admitted
    BY <1>1, <2>4 DEF AdmittedByOneDrain
  <2>6. drainActive' = drainGrants' /\ drainActive' \subseteq Jobs
    BY <1>2, <2>1, <2>4, <2>5 DEF FrameType
  <2>7. CASE stack' = SetTop(Frame(drainLocal))
    <3>1. DOMAIN stack' = {1} /\ stack'[1] = Frame(drainLocal) /\ Frame(drainLocal).admitted = {}
      BY <1>1, <1>2, <2>2, <2>7, FrameTyped, OneDrainReplaced
    <3>2. FrameOK(Frame(drainLocal), drainLocal', drainActive', retired', drainRow')
      BY <1>2, <1>3, <2>2, NewFrameOK
    <3> QED
      BY <1>3, <2>2, <2>6, <3>1, <3>2, FrameGuarded
  <2>8. CASE stack' = Pop
    BY <1>1, <1>3, <2>2, <2>6, <2>8, OneDrainReturns, NoFrame
  <2> QED
    BY <2>3, <2>7, <2>8
<1>8. ASSUME NEW j \in Jobs, AddWaiter(j) PROVE GuardedInd'
  <2>1. DOMAIN stack' = {} /\ drainActive' = drainGrants' /\ drainActive' \subseteq Jobs
    BY <1>1, <1>2, <1>4, <1>8, OneDrain DEF AddWaiter
  <2>2. OutOK(drainLocal', retired')
    BY <1>2, <1>3, <1>8 DEF AddWaiter, OutOK
  <2> QED
    BY <2>1, <2>2, NoFrame
<1>9. ASSUME NEW j \in Jobs, RetireElsewhere(j) PROVE GuardedInd'
  <2>1. \A k \in Jobs : drainRow'[k] = "queued" => drainRow[k] = "queued"
    BY <1>2, <1>9 DEF RetireElsewhere
  <2>2. LeasesAdmitted' /\ DroppedIsOut'
    BY <1>1, <1>9 DEF GuardedInd, RetireElsewhere, LeasesAdmitted, Admitted, DroppedIsOut
  <2>3. PassedOver'
    BY <1>1, <1>2, <1>9, <2>1 DEF GuardedInd, RetireElsewhere, PassedOver
  <2> QED
    BY <2>2, <2>3 DEF GuardedInd
<1>10. ASSUME NEW j \in Jobs, PassOver(j) PROVE GuardedInd'
  <2> DEFINE f == [Top EXCEPT !.todo = @ \ {j}]
  <2>1. /\ stack # <<>> /\ Top \in FrameType /\ f \in FrameType /\ f.admitted = Top.admitted
        /\ f.todo = Top.todo \ {j} /\ f.dropping = Top.dropping /\ stack' = SetTop(f)
    BY <1>1, <1>10, OneDrain, DroppingTyped DEF PassOver, Running, FrameType
  <2>2. DOMAIN stack' = {1} /\ stack'[1] = f
    BY <1>1, <2>1, OneDrainReplaced
  <2> HIDE DEF f
  <2>3. /\ FrameOK(Top, drainLocal, drainActive, retired, drainRow)
        /\ \A k \in Jobs : k \in drainActive <=> k \in drainGrants \/ k \in Top.admitted
        /\ Top = stack[1] /\ 1 \in DOMAIN stack
    BY <1>1, <2>1, GuardedFrame, OneDrain
  <2>4. drainRow[j] = "queued" => Cardinality(drainActive) >= DrainSlots
    <3>1. j \in drainActive => drainRow[j] = "running"
      BY <1>1, <2>3 DEF AdmittedByOneDrain
    <3> QED
      BY <1>2, <1>10, <3>1 DEF PassOver, Acquires
  <2>5. FrameOK(f, drainLocal, drainActive, retired, drainRow)
    BY <2>1, <2>3, <2>4 DEF FrameOK
  <2> QED
    BY <1>3, <1>10, <2>1, <2>2, <2>3, <2>5, FrameGuarded DEF PassOver
<1>11. ASSUME NEW j \in Jobs, Admit(j) PROVE GuardedInd'
  <2> DEFINE f == [Top EXCEPT !.todo = @ \ {j}, !.admitted = @ \cup {j}]
  <2>1. /\ stack # <<>> /\ Top \in FrameType /\ f \in FrameType /\ f.admitted = Top.admitted \cup {j}
        /\ f.todo = Top.todo \ {j} /\ f.dropping = Top.dropping /\ stack' = SetTop(f)
    BY <1>1, <1>11, OneDrain, DroppingTyped DEF Admit, Running, FrameType
  <2>2. DOMAIN stack' = {1} /\ stack'[1] = f
    BY <1>1, <2>1, OneDrainReplaced
  <2> HIDE DEF f
  <2>3. /\ FrameOK(Top, drainLocal, drainActive, retired, drainRow)
        /\ \A k \in Jobs : k \in drainActive <=> k \in drainGrants \/ k \in Top.admitted
    BY <1>1, <2>1, GuardedFrame
  <2>4. /\ drainRow' = [drainRow EXCEPT ![j] = "running"] /\ drainActive' = drainActive \cup {j} /\ drainLocal' = drainLocal \ {j}
        /\ drainGrants' = drainGrants /\ retired' = retired /\ j \notin drainActive
    BY <1>11 DEF Admit, Acquires
  <2>5. Cardinality(drainActive') \in Nat /\ Cardinality(drainActive') >= Cardinality(drainActive)
    <3>1. IsFiniteSet(drainActive)
      BY <1>1 DEF Typed
    <3>2. Cardinality(drainActive \cup {j}) = Cardinality(drainActive) + 1
      BY <2>4, <3>1, FS_AddElement
    <3> QED
      BY <1>2, <2>4, <3>2
  <2>6. FrameOK(f, drainLocal', drainActive', retired', drainRow')
    <3>1. /\ \A k \in Jobs : retired'[k] = 1 => k \notin f.todo /\ k # f.dropping
          /\ f.dropping \notin f.todo
      BY <2>1, <2>3, <2>4 DEF FrameOK
    <3>2. ASSUME NEW k \in drainLocal', drainRow'[k] = "queued"
          PROVE  k \in f.todo \/ Cardinality(drainActive') >= DrainSlots
      BY <1>2, <2>1, <2>3, <2>4, <2>5, <3>2 DEF FrameOK
    <3> QED
      BY <3>1, <3>2 DEF FrameOK
  <2>7. OutOK(drainLocal', retired')
    BY <1>3, <2>4 DEF OutOK
  <2>8. \A k \in Jobs : k \in drainActive' <=> k \in drainGrants' \/ k \in f.admitted
    BY <2>1, <2>3, <2>4
  <2> QED
    BY <2>2, <2>6, <2>7, <2>8, FrameGuarded
<1>12. ASSUME NEW j \in Jobs, GiveBack(j) PROVE GuardedInd'
  <2> DEFINE f == [Top EXCEPT !.todo = @ \ {j}, !.dropping = j]
  <2>1. stack # <<>> /\ Top \in FrameType /\ j \in Top.todo
    BY <1>1, <1>12, OneDrain DEF GiveBack, Running
  <2>2. /\ f \in FrameType /\ f.admitted = Top.admitted /\ f.todo = Top.todo \ {j} /\ f.dropping = j
    BY <2>1 DEF FrameType
  <2>3. stack' = SetTop(f)
    BY <1>12 DEF GiveBack, Dropping
  <2>4. DOMAIN stack' = {1} /\ stack'[1] = f
    BY <1>1, <2>1, <2>2, <2>3, OneDrainReplaced
  <2> HIDE DEF f
  <2>5. /\ FrameOK(Top, drainLocal, drainActive, retired, drainRow)
        /\ \A k \in Jobs : k \in drainActive <=> k \in drainGrants \/ k \in Top.admitted
    BY <1>1, <2>1, GuardedFrame
  <2>6. UNCHANGED <<drainRow, drainLocal, drainActive, drainGrants, retired>> /\ drainRow[j] # "queued"
    BY <1>12 DEF GiveBack
  <2>7. FrameOK(f, drainLocal', drainActive', retired', drainRow')
    BY <2>1, <2>2, <2>5, <2>6 DEF FrameOK
  <2> QED
    BY <1>3, <2>2, <2>4, <2>5, <2>6, <2>7, FrameGuarded
<1>13. ASSUME NEW j \in Jobs, Overflow(j) PROVE GuardedInd'
  BY <1>13 DEF Overflow
<1>14. ASSUME NEW j \in Jobs, Finish(j) PROVE GuardedInd'
  <2>1. DOMAIN stack' = {1} /\ stack'[1] = Frame(drainLocal) /\ Frame(drainLocal).admitted = {}
    BY <1>2, <1>14, FrameTyped DEF Finish
  <2>2. FrameOK(Frame(drainLocal), drainLocal', drainActive', retired', drainRow')
    BY <1>2, <1>3, <1>14, NewFrameOK DEF Finish
  <2> QED
    BY <1>3, <1>4, <1>14, <2>1, <2>2, FrameGuarded DEF Finish
<1> QED
  BY <1>5, <1>6, <1>7, <1>8, <1>9, <1>10, <1>11, <1>12, <1>13, <1>14 DEF DrainNext

-----------------------------------------------------------------------------

LEMMA InitDrain ==
  ASSUME DrainAssumption, DrainInit
  PROVE  DrainInd
<1>1. IsFiniteSet({}) /\ Cardinality({}) = 0
  BY FS_EmptySet
<1>2. DrainTypeOK
  <2>1. again \in BOOLEAN
    BY DEF DrainInit
  <2>2. stack \in Seq(FrameType) /\ Depth = 0
    BY DEF DrainInit, Depth
  <2>3. /\ port \in Ports /\ drainRow \in [Jobs -> {"none", "queued", "running", "done", "gone"}]
        /\ drainLocal = {} /\ drainActive = {} /\ drainGrants = {} /\ retired \in [Jobs -> Nat]
    BY DEF DrainInit
  <2> QED
    BY <1>1, <2>1, <2>2, <2>3 DEF DrainTypeOK, DrainAssumption, FrameType
<1>3. DOMAIN stack = {}
  BY DEF DrainInit
<1>4. AdmittedByOneDrain
  BY <1>3 DEF DrainInit, AdmittedByOneDrain
<1>5. GuardedInd
  BY <1>3 DEF DrainInit, GuardedInd, LeasesAdmitted, Admitted, DroppedIsOut, PassedOver
<1> QED
  BY <1>1, <1>2, <1>4, <1>5 DEF DrainInd, DrainInit

LEMMA DrainStep ==
  ASSUME DrainAssumption, DrainInd, [DrainNext]_drainVars
  PROVE  DrainInd'
<1>1. CASE DrainNext
  <2>1. Typed' /\ AdmittedByOneDrain'
    BY <1>1, TypeStep, OneDrainStep DEF DrainInd, Typed
  <2>2. port' = port
    BY <1>1 DEF DrainNext, StartDrain, Forget, Return, AddWaiter, RetireElsewhere, PassOver, Admit, GiveBack,
       Overflow, Finish
  <2>3. GuardedInd'
    BY <1>1, <2>2, GuardedStep DEF GuardedInd, Guarded
  <2> QED
    BY <2>1, <2>3 DEF DrainInd, Typed
<1>2. CASE UNCHANGED drainVars
  BY <1>2 DEF drainVars, DrainInd, DrainTypeOK, AdmittedByOneDrain, GuardedInd, Guarded, Depth,
     LeasesAdmitted, Admitted, DroppedIsOut, PassedOver
<1> QED
  BY <1>1, <1>2

LEMMA DrainInvariant ==
  ASSUME DrainAssumption
  PROVE  DrainSpec => []DrainInd
<1>1. DrainInit => DrainInd
  BY InitDrain
<1>2. DrainInd /\ [DrainNext]_drainVars => DrainInd'
  BY DrainStep
<1> QED
  BY <1>1, <1>2, PTL DEF DrainSpec

\* However the drains of either user of the queue nest, they stay within the
\* controller's capacity and admit an attempt once; the guarded runtime reports
\* a dropped row once, and between its drains the leases are those of the jobs
\* that execute (drain(), release() and the two release listeners).
THEOREM DrainsNestSafely ==
  ASSUME DrainAssumption
  PROVE  DrainSpec => []NestedDrainsSafe
<1>1. ASSUME DrainInd PROVE NestedDrainsSafe
  <2>1. DrainTypeOK /\ AdmittedByOneDrain /\ Typed
    BY <1>1 DEF DrainInd, Typed
  <2>2. GuardDropsOnce
    <3> SUFFICES ASSUME Guarded PROVE DroppedOnce
      BY DEF GuardDropsOnce
    <3>1. \A j \in Jobs : retired[j] <= 1
      BY <1>1 DEF DrainInd, GuardedInd, DroppedIsOut
    <3>2. stack = <<>> => drainActive = drainGrants
      BY <1>1, <2>1, OneDrain DEF DrainInd, GuardedInd, LeasesAdmitted, Admitted, DrainTypeOK
    <3> QED
      BY <3>1, <3>2 DEF DroppedOnce
  <2> QED
    BY <2>1, <2>2 DEF NestedDrainsSafe
<1> QED
  BY <1>1, DrainInvariant, PTL

\* Whatever is released while a guarded drain runs or delivers its admissions,
\* the drain that empties the stack leaves a queued job waiting only for want of
\* a slot (the wakeRequested flag of pre-edit-demand.ts).
THEOREM WakesAreNotLost ==
  ASSUME DrainAssumption
  PROVE  DrainSpec => NoWakeLost
<1> DEFINE Woken ==
      Guarded /\ stack # <<>> /\ stack' = <<>> =>
        \A j \in drainLocal' : drainRow'[j] = "queued" => Cardinality(drainActive') >= DrainSlots
<1>1. ASSUME DrainInd, [DrainNext]_drainVars PROVE Woken
  <2> SUFFICES ASSUME Guarded, stack # <<>>, stack' = <<>>
               PROVE  \A j \in drainLocal' : drainRow'[j] = "queued" => Cardinality(drainActive') >= DrainSlots
    OBVIOUS
  <2>1. Typed /\ GuardedInd
    BY <1>1 DEF DrainInd, Typed
  <2>2. FrameOK(Top, drainLocal, drainActive, retired, drainRow) /\ Top \in FrameType
    BY <2>1, GuardedFrame, OneDrain
  <2>3. \A f \in FrameType : SetTop(f) # <<>>
    BY <2>1, OneDrainReplaced
  <2>4. Return
    <3>1. \A j \in Jobs : j \in Top.todo =>
            /\ [Top EXCEPT !.todo = @ \ {j}, !.dropping = j] \in FrameType
            /\ [Top EXCEPT !.todo = @ \ {j}] \in FrameType
            /\ [Top EXCEPT !.todo = @ \ {j}, !.admitted = @ \cup {j}] \in FrameType
      BY <2>2 DEF FrameType
    <3>2. [Top EXCEPT !.dropping = NoJob] \in FrameType
      BY <2>2 DEF FrameType
    <3>3. ~StartDrain /\ ~Forget /\ ~UNCHANGED drainVars
      BY <2>3, <3>2 DEF StartDrain, Forget, drainVars
    <3>4. ASSUME NEW j \in Jobs
          PROVE  /\ ~AddWaiter(j) /\ ~RetireElsewhere(j) /\ ~Finish(j)
                 /\ ~PassOver(j) /\ ~Admit(j) /\ ~GiveBack(j) /\ ~Overflow(j)
      <4>1. ~AddWaiter(j) /\ ~RetireElsewhere(j) /\ ~Finish(j)
        BY DEF AddWaiter, RetireElsewhere, Finish
      <4>2. ~PassOver(j) /\ ~Admit(j)
        BY <2>3, <3>1 DEF PassOver, Admit
      <4>3. ~GiveBack(j) /\ ~Overflow(j)
        BY <2>3, <3>1 DEF GiveBack, Overflow, Dropping
      <4> QED
        BY <4>1, <4>2, <4>3
    <3> QED
      BY <1>1, <3>3, <3>4 DEF DrainNext
  <2>5. PICK failed \in SUBSET Top.admitted :
          /\ drainRow' = [j \in Jobs |-> IF j \in failed THEN "done" ELSE drainRow[j]]
          /\ drainActive' = drainActive \ failed
          /\ stack' = IF failed # {} \/ again THEN SetTop(Frame(drainLocal)) ELSE Pop
    BY <2>4 DEF Return
  <2>6. Top.todo = {} /\ drainLocal' = drainLocal /\ drainLocal \in SUBSET Jobs
    BY <2>1, <2>4 DEF Return, Typed, DrainTypeOK
  <2>7. failed = {}
    BY <2>3, <2>5, <2>6, FrameTyped
  <2> QED
    BY <2>2, <2>5, <2>6, <2>7 DEF FrameOK
<1>2. DrainInit /\ [][DrainNext]_drainVars /\ []DrainInd => [][Woken]_drainVars
  BY <1>1, PTL
<1> QED
  BY <1>2, DrainInvariant, PTL DEF DrainSpec, NoWakeLost

=============================================================================
