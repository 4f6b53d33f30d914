----------------------- MODULE ResourceUpload_proofs -----------------------
(***************************************************************************)
(* What Device::CreateBuffer, Device::CreateImage and                      *)
(* Context::CreateDevice assume of their arguments and of the GPU, and     *)
(* that the queues find a resource as they need it, for any number of      *)
(* queue families, any resource and any number of its levels.              *)
(*                                                                         *)
(* The last is shown by way of plans: a call that creates a resource is    *)
(* that of a plan, whose commands each follow the one before and find the  *)
(* state it leaves; and whatever the threads and the GPU do keeps to it.   *)
(***************************************************************************)
EXTENDS ResourceUpload, TLAPS, WellFoundedInduction, FiniteSetTheorems, SequenceTheorems

-----------------------------------------------------------------------------
(* The queues of a GPU.                                                    *)

(* A set of numbers that is not empty has a least element, which Min is.   *)
LEMMA MinIsMember ==
  ASSUME NEW T \in SUBSET Nat, T # {}
  PROVE  Min(T) \in T
<1> DEFINE R == {ss \in Nat \X Nat : ss[1] < ss[2]}
<1>1. IsWellFoundedOn(R, Nat) BY NatLessThanWellFounded DEF OpToRel
<1> HIDE DEF R
<1>2. PICK n \in T : \A m \in T : ~ (<<m, n>> \in R) BY <1>1, WFMin
<1>3. ASSUME NEW m \in T PROVE n <= m
  <2>1. m \in Nat /\ n \in Nat /\ <<m, n>> \in Nat \X Nat OBVIOUS
  <2>2. ~ (m < n) BY <1>2, <2>1 DEF R
  <2> QED BY <2>1, <2>2
<1> QED BY <1>2, <1>3 DEF Min

(* Min of two numbers is the smaller one.                                  *)
LEMMA MinOfTwo ==
  ASSUME NEW a \in Int, NEW b \in Int
  PROVE  Min({a, b}) = IF a <= b THEN a ELSE b
<1>1. CASE a <= b BY <1>1 DEF Min
<1>2. CASE ~ (a <= b) BY <1>2 DEF Min
<1> QED BY <1>1, <1>2

(* A family that is found is one of the set; 0 says that there is none.    *)
LEMMA FirstOfSet ==
  ASSUME NEW device, NEW S \in SUBSET (1..Len(device)), Len(device) \in Nat
  PROVE  \/ S = {} /\ FirstOf(S) = 0
         \/ FirstOf(S) \in S /\ FirstOf(S) \in 1..Len(device)
<1>1. S \in SUBSET Nat OBVIOUS
<1> QED BY <1>1, MinIsMember DEF FirstOf, Ignored

(* The families of compute and of transfers, where they are found, are not *)
(* the graphics family.                                                    *)
LEMMA FamiliesFound ==
  ASSUME NEW device \in Seq(QueueFamilies), GraphicsFamily(device) # Ignored
  PROVE  /\ GraphicsFamily(device) \in 1..Len(device)
         /\ ComputeFamily(device) \in 0..Len(device)
         /\ TransferFamily(device) \in 0..Len(device)
         /\ ComputeFamily(device) # GraphicsFamily(device)
         /\ TransferFamily(device) # GraphicsFamily(device)
<1>1. Len(device) \in Nat /\ DOMAIN device = 1..Len(device) OBVIOUS
<1>2. \A flags : Capable(device, flags) \in SUBSET (1..Len(device)) BY <1>1 DEF Capable
<1>3. GraphicsFamily(device) \in 1..Len(device)
  <2> DEFINE S == {i \in Capable(device, {"graphics", "compute"}) : device[i].present}
  <2>1. S \in SUBSET (1..Len(device)) BY <1>2
  <2>2. GraphicsFamily(device) = FirstOf(S) BY DEF GraphicsFamily
  <2> HIDE DEF S
  <2> QED BY <1>1, <2>1, <2>2, FirstOfSet DEF Ignored
<1>4. ComputeFamily(device) \in 0..Len(device) /\ ComputeFamily(device) # GraphicsFamily(device)
  <2> DEFINE S == Capable(device, {"compute"}) \ {GraphicsFamily(device)}
  <2>1. S \in SUBSET (1..Len(device)) /\ GraphicsFamily(device) \notin S BY <1>2
  <2>2. ComputeFamily(device) = FirstOf(S) BY DEF ComputeFamily
  <2> HIDE DEF S
  <2> QED BY <1>1, <1>3, <2>1, <2>2, FirstOfSet
<1>5. TransferFamily(device) \in 0..Len(device) /\ TransferFamily(device) # GraphicsFamily(device)
  <2> DEFINE others == Capable(device, {"transfer"}) \ {GraphicsFamily(device)}
             dedicated == others \ {ComputeFamily(device)}
             S == IF dedicated # {} THEN dedicated ELSE others
  <2>1. others \in SUBSET (1..Len(device)) /\ GraphicsFamily(device) \notin others BY <1>2
  <2>2. S \in SUBSET (1..Len(device)) /\ GraphicsFamily(device) \notin S BY <2>1
  <2>3. TransferFamily(device) = FirstOf(S) BY DEF TransferFamily
  <2> HIDE DEF S
  <2> QED BY <1>1, <1>3, <2>2, <2>3, FirstOfSet
<1> QED BY <1>3, <1>4, <1>5

(* Each queue that vkGetDeviceQueue is asked for was created.              *)
QueuesCreated(device) ==
    \A t \in Types : Selected(device)[t][2] < Created(device, Selected(device)[t][1])

(* The first family serves compute and transfers, with a queue for each:   *)
(* CreateDevice takes both and asks for one.                               *)
FirstServesBoth(device) ==
    /\ ComputeFamily(device) = 1 /\ TransferFamily(device) = 1
    /\ device[1].count > 1

(* Context::CreateDevice gets the queues it asked for exactly on the GPUs, *)
(* among those with a graphics family, whose first family does not serve   *)
(* both compute and transfers.                                             *)
THEOREM QueuesCreatedUnless ==
  ASSUME NEW device \in Seq(QueueFamilies), GraphicsFamily(device) # Ignored
  PROVE  QueuesCreated(device) <=> ~FirstServesBoth(device)
<1> DEFINE g == GraphicsFamily(device)
           c == ComputeFamily(device)
           x == TransferFamily(device)
<1>1. g \in 1..Len(device) /\ c \in 0..Len(device) /\ x \in 0..Len(device) /\ c # g /\ x # g
  BY FamiliesFound
<1>2. \A f \in 1..Len(device) : device[f].count \in Nat /\ device[f].count >= 1
  <2> TAKE f \in 1..Len(device)
  <2>1. device[f] \in QueueFamilies OBVIOUS
  <2>2. device[f].count \in Nat \ {0} BY <2>1 DEF QueueFamilies
  <2> QED BY <2>2
<1>3. Universal(device) = 1 + (IF c = 0 THEN 1 ELSE 0) + (IF x = 0 THEN 1 ELSE 0)
  BY DEF Universal, Ignored
<1> DEFINE n == Universal(device)
           q == Selected(device)
<1>4. n \in 1..3 BY <1>3
<1>5. Created(device, g) = IF n <= device[g].count THEN n ELSE device[g].count
  <2>1. Created(device, g) = Min({n, device[g].count}) BY <1>1 DEF Created
  <2>2. n \in Int /\ device[g].count \in Int BY <1>1, <1>2, <1>4
  <2> HIDE DEF n
  <2> QED BY <2>1, <2>2, MinOfTwo
<1>6. ASSUME c # 0
      PROVE  Created(device, c) = IF c = 1 \/ device[c].count = 1 THEN 1 ELSE 2
  <2>1. Created(device, c) = Min({IF c = 1 THEN 1 ELSE 2, device[c].count})
    BY <1>1 DEF Created
  <2>2. device[c].count \in Nat /\ device[c].count >= 1 BY <1>1, <1>2, <1>6
  <2> DEFINE k == IF c = 1 THEN 1 ELSE 2
  <2>3. k \in Int /\ device[c].count \in Int BY <2>2
  <2>4. Created(device, c) = IF k <= device[c].count THEN k ELSE device[c].count
    <3> HIDE DEF k
    <3>1. Min({k, device[c].count}) = IF k <= device[c].count THEN k ELSE device[c].count
      BY <2>3, MinOfTwo
    <3> QED BY <2>1, <3>1 DEF k
  <2> QED BY <2>2, <2>4
<1>7. ASSUME x # 0, x # c PROVE Created(device, x) = 1
  BY <1>1, <1>7 DEF Created
<1>8. \A f \in 1..Len(device), k \in 1..2 :
        Clamped(device, f, k) = IF device[f].count - 1 <= k THEN device[f].count - 1 ELSE k
  BY <1>2, MinOfTwo DEF Clamped
<1>9. q["graphics"][2] < Created(device, q["graphics"][1])
  <2>1. q["graphics"] = <<g, 0>> BY DEF Selected
  <2> QED BY <1>1, <1>2, <1>4, <1>5, <2>1
<1>10. q["compute"][2] < Created(device, q["compute"][1])
  <2>1. q["compute"] = IF c = 0 THEN <<g, Clamped(device, g, 1)>> ELSE <<c, 0>>
    BY DEF Selected, Ignored
  <2>2. CASE c = 0
    <3>1. q["compute"][1] = g /\ q["compute"][2] = Clamped(device, g, 1) BY <2>1, <2>2
    <3> QED BY <1>1, <1>2, <1>3, <1>5, <1>8, <2>2, <3>1
  <2>3. CASE c # 0
    <3>1. q["compute"][1] = c /\ q["compute"][2] = 0 BY <2>1, <2>3
    <3> QED BY <1>6, <2>3, <3>1
  <2> QED BY <2>2, <2>3
<1>11. q["transfer"][2] < Created(device, q["transfer"][1]) <=> ~FirstServesBoth(device)
  <2>1. q["transfer"] = IF x = 0 THEN <<g, Clamped(device, g, IF c = 0 THEN 2 ELSE 1)>>
                        ELSE IF x = c THEN <<x, Clamped(device, x, 1)>> ELSE <<x, 0>>
    BY DEF Selected, Ignored
  <2>2. CASE x = 0
    <3> DEFINE k == IF c = 0 THEN 2 ELSE 1
    <3>1. q["transfer"][1] = g /\ q["transfer"][2] = Clamped(device, g, k) BY <2>1, <2>2
    <3>2. k \in 1..2 /\ n = k + 1 BY <1>3, <2>2
    <3>3. ~FirstServesBoth(device) BY <2>2 DEF FirstServesBoth
    <3> QED BY <1>1, <1>2, <1>5, <1>8, <3>1, <3>2, <3>3
  <2>3. CASE x # 0 /\ x = c
    <3>1. q["transfer"][1] = c /\ q["transfer"][2] = Clamped(device, c, 1) BY <2>1, <2>3
    <3>2. Clamped(device, c, 1) = IF device[c].count = 1 THEN 0 ELSE 1
      BY <1>1, <1>2, <1>8, <2>3
    <3>3. FirstServesBoth(device) <=> c = 1 /\ device[c].count # 1
      BY <1>1, <1>2, <2>3 DEF FirstServesBoth
    <3> QED BY <1>6, <2>3, <3>1, <3>2, <3>3
  <2>4. CASE x # 0 /\ x # c
    <3>1. q["transfer"][1] = x /\ q["transfer"][2] = 0 BY <2>1, <2>4
    <3>2. ~FirstServesBoth(device) BY <2>4 DEF FirstServesBoth
    <3> QED BY <1>7, <2>4, <3>1, <3>2
  <2> QED BY <2>2, <2>3, <2>4
<1> QED BY <1>9, <1>10, <1>11 DEF QueuesCreated, Types

-----------------------------------------------------------------------------
(* The calls of CreateBuffer and CreateImage.                              *)

\* A sequence of calls of which each wait has a stage.
Staged(s) ==
    \E S : s \in Seq(S) /\ \A i \in DOMAIN s : s[i].call = "wait" => s[i].stages # {}

(* No call, and a submission, add no wait; a wait needs a stage.           *)
LEMMA StagedEmpty == Staged(<<>>)
BY DEF Staged

LEMMA StagedSubmit ==
  ASSUME NEW type, NEW commands, NEW semaphores
  PROVE  Staged(Submit(type, commands, semaphores))
<1> DEFINE c == [call |-> "submit", type |-> type, commands |-> commands, semaphores |-> semaphores]
<1>1. c.call # "wait" OBVIOUS
<1> HIDE DEF c
<1>2. <<c>> \in Seq({c}) /\ \A i \in DOMAIN <<c>> : <<c>>[i] = c OBVIOUS
<1>3. Staged(<<c>>) BY <1>1, <1>2 DEF Staged
<1> QED BY <1>3 DEF Submit, c

LEMMA StagedWait ==
  ASSUME NEW type, NEW stages, stages # {}
  PROVE  Staged(AddWait(type, stages))
<1> DEFINE c == [call |-> "wait", type |-> type, semaphore |-> type, stages |-> stages]
<1>1. c.stages # {} OBVIOUS
<1> HIDE DEF c
<1>2. <<c>> \in Seq({c}) /\ \A i \in DOMAIN <<c>> : <<c>>[i] = c OBVIOUS
<1>3. Staged(<<c>>) BY <1>1, <1>2 DEF Staged
<1> QED BY <1>3 DEF AddWait, c

(* Sequences of calls are put together, and made one by one.               *)
LEMMA StagedConcat ==
  ASSUME NEW s, NEW r, Staged(s), Staged(r)
  PROVE  Staged(s \o r)
<1>1. PICK S : s \in Seq(S) /\ \A i \in DOMAIN s : s[i].call = "wait" => s[i].stages # {}
  BY DEF Staged
<1>2. PICK R : r \in Seq(R) /\ \A i \in DOMAIN r : r[i].call = "wait" => r[i].stages # {}
  BY DEF Staged
<1> DEFINE U == S \cup R
<1>3. s \in Seq(U) /\ r \in Seq(U) BY <1>1, <1>2
<1> HIDE DEF U
<1>4. s \o r \in Seq(U) BY <1>3
<1>5. ASSUME NEW i \in DOMAIN (s \o r), (s \o r)[i].call = "wait"
      PROVE  (s \o r)[i].stages # {}
  <2>1. \/ i \in DOMAIN s /\ (s \o r)[i] = s[i]
        \/ i - Len(s) \in DOMAIN r /\ (s \o r)[i] = r[i - Len(s)]
    BY <1>3
  <2> QED BY <1>1, <1>2, <1>5, <2>1
<1> QED BY <1>4, <1>5 DEF Staged

LEMMA StagedTail ==
  ASSUME NEW s, Staged(s), s # <<>>
  PROVE  Staged(Tail(s))
<1>1. PICK S : s \in Seq(S) /\ \A i \in DOMAIN s : s[i].call = "wait" => s[i].stages # {}
  BY DEF Staged
<1>2. Tail(s) \in Seq(S) BY <1>1
<1>3. \A i \in DOMAIN Tail(s) : i + 1 \in DOMAIN s /\ Tail(s)[i] = s[i + 1] BY <1>1
<1> QED BY <1>1, <1>2, <1>3 DEF Staged

(* What is asked for has a stage, and a shared resource that is prepared   *)
(* on the GPU has a stage to wait at on every other queue of its owners.   *)
StagesToWaitAt(q, r) ==
    /\ r.stages # {}
    /\ Concurrent(r) /\ Prepared(r) =>
         \A o \in r.owners : LET t == PhysicalOn(q, o) IN
           q[t] = q[Preparer(q, r)] \/ r.stages \cap Visible(t) # {}

(* AddWaits and SubmitVisible name a stage for whoever waits.              *)
LEMMA StagedAddWaits ==
  ASSUME NEW targets, NEW stages, \A t \in Types \cap targets : stages \cap Visible(t) # {}
  PROVE  Staged(AddWaits(targets, stages))
<1> DEFINE wait(t) == IF t \in targets THEN AddWait(t, stages \cap Visible(t)) ELSE <<>>
<1>1. ASSUME NEW t \in Types PROVE Staged(wait(t))
  <2>1. CASE t \in targets
    <3>1. Staged(AddWait(t, stages \cap Visible(t))) BY <2>1, StagedWait
    <3> QED BY <2>1, <3>1
  <2>2. CASE t \notin targets BY <2>2, StagedEmpty
  <2> QED BY <2>1, <2>2
<1>2. Staged(wait("graphics")) /\ Staged(wait("compute")) /\ Staged(wait("transfer"))
  BY <1>1 DEF Types
<1>3. AddWaits(targets, stages) = wait("graphics") \o wait("compute") \o wait("transfer")
  BY DEF AddWaits
<1> HIDE DEF wait
<1>4. Staged(wait("graphics") \o wait("compute")) BY <1>2, StagedConcat
<1> QED BY <1>2, <1>3, <1>4, StagedConcat

LEMMA StagedVisible ==
  ASSUME NEW type, NEW commands, NEW stages, NEW visible,
         \A t \in Types \cap visible : queues[t] = queues[type] \/ stages \cap Visible(t) # {}
  PROVE  Staged(SubmitVisible(type, commands, stages, visible))
<1> DEFINE targets == {t \in visible : queues[t] # queues[type]}
<1>1. Staged(AddWaits(targets, stages)) BY StagedAddWaits
<1>2. SubmitVisible(type, commands, stages, visible)
        = Submit(type, commands, targets) \o AddWaits(targets, stages)
  BY DEF SubmitVisible
<1> QED BY <1>1, <1>2, StagedSubmit, StagedConcat

(* The type of each owner of a shared resource can wait.                   *)
LEMMA OwnersCanWait ==
  ASSUME NEW r, StagesToWaitAt(queues, r), Concurrent(r),
         Prepared(r), NEW t, OwnedBy(r, t)
  PROVE  queues[t] = queues[Preparer(queues, r)] \/ r.stages \cap Visible(t) # {}
<1>1. PICK o \in r.owners : PhysicalOn(queues, o) = t BY DEF OwnedBy, Physical
<1>2. \/ queues[PhysicalOn(queues, o)] = queues[Preparer(queues, r)]
      \/ r.stages \cap Visible(PhysicalOn(queues, o)) # {}
  BY DEF StagesToWaitAt
<1> QED BY <1>1, <1>2

(* The waits that CreateBuffer adds.                                       *)
LEMMA StagedHandOver ==
  ASSUME NEW r, NEW type, NEW recorded, NEW levels, NEW old, NEW new, r.stages # {}
  PROVE  Staged(HandOver(r, type, recorded, levels, old, new))
<1> DEFINE owner == Physical(Owner(r))
           release == Transfer(levels, old, new, {"transfer"}, {}, Family(type), Family(owner))
           acquire == [release EXCEPT !.src = r.stages, !.dst = r.stages]
           first == Submit(type, Append(recorded, release), {owner})
           second == AddWait(owner, r.stages)
           third == Submit(owner, <<acquire>>, {})
<1>1. HandOver(r, type, recorded, levels, old, new) = first \o second \o third
  BY DEF HandOver
<1>2. Staged(first) /\ Staged(second) /\ Staged(third)
  BY StagedSubmit, StagedWait
<1> HIDE DEF first, second, third
<1>3. Staged(first \o second) BY <1>2, StagedConcat
<1> QED BY <1>1, <1>2, <1>3, StagedConcat

LEMMA StagedBuffer ==
  ASSUME NEW r \in CreateInfo, ~r.mips, StagesToWaitAt(queues, r)
  PROVE  Staged(CreateBuffer(r))
<1> DEFINE owner == Physical(Owner(r))
           flushed == Append(CopyToBuffer, Barrier({0}, "buffer", "buffer", {"transfer"}, {}))
           visible == {"transfer"} \cup {t \in {"graphics", "compute"} : OwnedBy(r, t)}
           shared == SubmitVisible("transfer", flushed, r.stages, visible)
           sent == Submit("transfer", flushed, {owner})
           waited == AddWait(owner, r.stages)
           handed == HandOver(r, "transfer", CopyToBuffer, {0}, "buffer", "buffer")
<1>1. CreateBuffer(r) =
        CASE ~r.staged -> <<>>
          [] r.staged /\ Concurrent(r) -> shared
          [] r.staged /\ ~Concurrent(r) /\ Family(owner) = Family("transfer") -> sent \o waited
          [] OTHER -> handed
  BY DEF CreateBuffer
<1>2. ASSUME r.staged, Concurrent(r) PROVE Staged(shared)
  <2>1. Preparer(queues, r) = "transfer" BY <1>2 DEF Preparer
  <2>2. ASSUME NEW t \in Types \cap visible
        PROVE  queues[t] = queues["transfer"] \/ r.stages \cap Visible(t) # {}
    <3>1. CASE t = "transfer" BY <3>1
    <3>2. Prepared(r) BY <1>2 DEF Prepared
    <3>3. CASE OwnedBy(r, t) BY <1>2, <2>1, <3>2, <3>3, OwnersCanWait
    <3> QED BY <2>2, <3>1, <3>3
  <2> HIDE DEF visible, flushed
  <2> QED BY <2>2, StagedVisible
<1>3. Staged(sent \o waited)
  <2>1. Staged(sent) /\ Staged(waited) BY StagedSubmit, StagedWait DEF StagesToWaitAt
  <2> HIDE DEF sent, waited
  <2> QED BY <2>1, StagedConcat
<1>4. Staged(handed) BY StagedHandOver DEF StagesToWaitAt
<1> HIDE DEF shared, sent, waited, handed
<1> QED BY <1>1, <1>2, <1>3, <1>4, StagedEmpty

(* The waits of an image that several queues may use.                      *)
LEMMA StagedConcurrent ==
  ASSUME NEW r \in CreateInfo, r.kind = "image", Concurrent(r), StagesToWaitAt(queues, r)
  PROVE  Staged(CreateConcurrentImage(r))
<1> DEFINE mine == {t \in {"compute", "transfer"} : OwnedBy(r, t)}
           after == Mipmaps(r) \o <<Finished(r, Filled(r), {"transfer"}, r.stages)>>
           filled == CopyToImage(r) \o after
           owned == {"transfer"} \cup {t \in {"graphics", "compute"} : OwnedBy(r, t)}
           others == {"graphics"} \cup mine
           finished == <<Finished(r, Untouched(r), {}, r.stages)>>
           plain == SubmitVisible("transfer", filled, r.stages, owned)
           same == SubmitVisible("transfer", filled, r.stages, others)
           copied == Submit("transfer", CopyToImage(r), {"graphics"})
           waited == AddWait("graphics", {"transfer"})
           mipped == SubmitVisible("graphics", after, r.stages, others)
           empty == SubmitVisible("graphics", finished, r.stages, others)
<1>1. CreateConcurrentImage(r) =
        CASE r.staged /\ ~r.mips -> plain
          [] r.staged /\ r.mips /\ queues["transfer"] = queues["graphics"] -> same
          [] r.staged /\ r.mips /\ queues["transfer"] # queues["graphics"] ->
               copied \o waited \o mipped
          [] ~r.staged /\ r.layout # "undefined" -> empty
          [] OTHER -> <<>>
  BY DEF CreateConcurrentImage
<1> HIDE DEF after, filled, finished
<1>2. ASSUME r.staged \/ r.layout # "undefined", NEW t, OwnedBy(r, t)
      PROVE  queues[t] = queues[Preparer(queues, r)] \/ r.stages \cap Visible(t) # {}
  <2>1. Prepared(r) BY <1>2 DEF Prepared
  <2> QED BY <1>2, <2>1, OwnersCanWait
<1>3. ASSUME r.staged, ~r.mips PROVE Staged(plain)
  <2>1. Preparer(queues, r) = "transfer" BY <1>3 DEF Preparer
  <2>2. \A t \in Types \cap owned :
          queues[t] = queues["transfer"] \/ r.stages \cap Visible(t) # {}
    BY <1>2, <1>3, <2>1
  <2> HIDE DEF owned
  <2> QED BY <2>2, StagedVisible
<1>4. ASSUME r.staged, r.mips, queues["transfer"] = queues["graphics"] PROVE Staged(same)
  <2>1. Preparer(queues, r) = "transfer" BY <1>4 DEF Preparer
  <2>2. \A t \in Types \cap others :
          queues[t] = queues["transfer"] \/ r.stages \cap Visible(t) # {}
    BY <1>2, <1>4, <2>1
  <2> HIDE DEF others
  <2> QED BY <2>2, StagedVisible
<1>5. ASSUME \/ r.staged /\ r.mips /\ queues["transfer"] # queues["graphics"]
             \/ ~r.staged /\ r.layout # "undefined",
             NEW commands
      PROVE  Staged(SubmitVisible("graphics", commands, r.stages, others))
  <2>1. Preparer(queues, r) = "graphics" BY <1>5 DEF Preparer
  <2>2. \A t \in Types \cap others :
          queues[t] = queues["graphics"] \/ r.stages \cap Visible(t) # {}
    BY <1>2, <1>5, <2>1
  <2> HIDE DEF others
  <2> QED BY <2>2, StagedVisible
<1>6. ASSUME r.staged /\ r.mips /\ queues["transfer"] # queues["graphics"]
      PROVE  Staged(copied \o waited \o mipped)
  <2>1. Staged(copied) /\ Staged(waited) BY StagedSubmit, StagedWait
  <2>2. Staged(SubmitVisible("graphics", after, r.stages, others)) BY <1>5, <1>6
  <2> HIDE DEF copied, waited, mipped
  <2>3. Staged(copied \o waited) BY <2>1, StagedConcat
  <2>4. Staged(mipped) BY <2>2 DEF mipped
  <2> QED BY <2>4, <2>3, StagedConcat
<1>7. ASSUME ~r.staged, r.layout # "undefined" PROVE Staged(empty) BY <1>5, <1>7
<1> HIDE DEF plain, same, copied, waited, mipped, empty
<1> QED BY <1>1, <1>3, <1>4, <1>6, <1>7, StagedEmpty

(* The waits of an image with one owner.                                   *)
LEMMA StagedExclusive ==
  ASSUME NEW r \in CreateInfo, r.stages # {}
  PROVE  Staged(CreateExclusiveImage(r))
<1> DEFINE owner == Physical(Owner(r))
           filled == CopyToImage(r) \o Mipmaps(r)
           own == Submit("graphics",
                         Append(filled, Finished(r, Filled(r), {"transfer"}, r.stages)), {})
           sent == Submit("graphics", Append(filled, Finished(r, Filled(r), {"transfer"}, {})), {owner})
           waited == AddWait(owner, r.stages)
           handed == HandOver(r, "graphics", filled, Levels(r), Filled(r), r.layout)
           empty == Submit(owner, <<Finished(r, Untouched(r), {}, r.stages)>>, {})
<1>1. CreateExclusiveImage(r) =
        CASE r.staged /\ owner = "graphics" -> own
          [] r.staged /\ owner # "graphics" /\ Family(owner) = Family("graphics") -> sent \o waited
          [] r.staged /\ Family(owner) # Family("graphics") -> handed
          [] ~r.staged /\ r.layout # "undefined" -> empty
          [] OTHER -> <<>>
  BY DEF CreateExclusiveImage
<1>2. Staged(own) /\ Staged(sent) /\ Staged(waited) /\ Staged(handed) /\ Staged(empty)
  BY StagedSubmit, StagedWait, StagedHandOver
<1> HIDE DEF own, sent, waited, handed, empty
<1>3. Staged(sent \o waited) BY <1>2, StagedConcat
<1> QED BY <1>1, <1>2, <1>3, StagedEmpty

(* Whatever is created, each of its waits has a stage.                     *)
LEMMA StagedCreate ==
  ASSUME NEW r \in CreateInfo, r.mips => r.kind = "image", StagesToWaitAt(queues, r)
  PROVE  Staged(Create(r))
<1>1. CASE r.kind = "buffer"
  <2>1. Create(r) = CreateBuffer(r) BY <1>1 DEF Create
  <2>2. ~r.mips BY <1>1
  <2> QED BY <2>1, <2>2, StagedBuffer
<1>2. CASE r.kind = "image" /\ Refused(r)
  BY <1>2, StagedEmpty DEF Create
<1>3. CASE r.kind = "image" /\ ~Refused(r) /\ Concurrent(r)
  BY <1>3, StagedConcurrent DEF Create
<1>4. CASE r.kind = "image" /\ ~Refused(r) /\ ~Concurrent(r)
  <2>1. Create(r) = CreateExclusiveImage(r) BY <1>4 DEF Create
  <2> QED BY <2>1, StagedExclusive DEF StagesToWaitAt
<1>5. r.kind \in {"image", "buffer"} BY DEF CreateInfo
<1> QED BY <1>1, <1>2, <1>3, <1>4, <1>5

-----------------------------------------------------------------------------
(* What the runs and the users of Device provide.                          *)

(* CreateDevice succeeded on a GPU that does not serve compute and         *)
(* transfers from its first family.                                        *)
Served ==
    \A case \in Cases :
      /\ case[1] \in Seq(QueueFamilies) /\ GraphicsFamily(case[1]) # Ignored
      /\ ~FirstServesBoth(case[1])

(* What is asked for has stages to wait at.                                *)
Waitable == \A case \in Cases : StagesToWaitAt(Selected(case[1]), case[2])

\* The inductive invariant: a GPU is given its queues, and no wait is empty.
AssertionsInv ==
    /\ queues = Selected(gpu) /\ \E case \in Cases : gpu = case[1]
    /\ Staged(script)

(* The device's assertions hold: whatever the GPU and whatever the usage,  *)
(* every wait that CreateBuffer and CreateImage add has a stage, and each  *)
(* queue that the Context asks for was created.                            *)
THEOREM UploadAssertionsHold ==
  ASSUME Served, Waitable
  PROVE  Spec => []AssertionsHold
<1>1. Init => AssertionsInv
  <2> SUFFICES ASSUME Init PROVE AssertionsInv OBVIOUS
  <2>1. PICK case \in Cases : gpu = case[1] /\ request = case[2] /\ queues = Selected(case[1])
    BY DEF Init
  <2>2. request \in CreateInfo /\ (request.mips => request.kind = "image")
    BY <2>1, CasesAssumption
  <2>3. StagesToWaitAt(queues, request) BY <2>1 DEF Waitable
  <2>4. Staged(script) BY <2>2, <2>3, StagedCreate DEF Init
  <2> QED BY <2>1, <2>4 DEF AssertionsInv
<1>2. AssertionsInv /\ [Next]_vars => AssertionsInv'
  <2> SUFFICES ASSUME AssertionsInv, [Next]_vars PROVE AssertionsInv' OBVIOUS
  <2>1. CASE Step
    <3>1. Staged(script') BY <2>1, StagedTail DEF Step, AssertionsInv
    <3>2. UNCHANGED <<gpu, queues>> BY <2>1 DEF Step
    <3> QED BY <3>1, <3>2 DEF AssertionsInv, Staged
  <2>2. CASE Execute BY <2>2 DEF Execute, AssertionsInv, Staged
  <2>3. ASSUME NEW t \in Types, SubmitOther(t) PROVE AssertionsInv'
    BY <2>3 DEF SubmitOther, AssertionsInv, Staged
  <2>4. ASSUME NEW t \in Types, Use(t) PROVE AssertionsInv'
    BY <2>4 DEF Use, AssertionsInv, Staged
  <2>5. CASE UNCHANGED vars BY <2>5 DEF vars, AssertionsInv, Staged
  <2> QED BY <2>1, <2>2, <2>3, <2>4, <2>5 DEF Next
<1>3. AssertionsInv => AssertionsHold
  <2> SUFFICES ASSUME AssertionsInv PROVE AssertionsHold OBVIOUS
  <2>1. PICK case \in Cases : gpu = case[1] BY DEF AssertionsInv
  <2>2. QueuesCreated(gpu) BY <2>1, QueuesCreatedUnless DEF Served
  <2>3. \A i \in DOMAIN script : script[i].call = "wait" => script[i].stages # {}
    BY DEF AssertionsInv, Staged
  <2> QED BY <2>2, <2>3 DEF AssertionsInv, AssertionsHold, QueuesCreated
<1> QED BY <1>1, <1>2, <1>3, PTL DEF Spec

-----------------------------------------------------------------------------
(* Sequences.                                                              *)

\* A sequence, of whatever elements.
IsSeq(s) == \E S : s \in Seq(S)

(* What a sequence, a pair of them put together and one that is made of    *)
(* one element are.                                                        *)
LEMMA SeqIs ==
  ASSUME NEW s, IsSeq(s)
  PROVE  /\ Len(s) \in Nat /\ DOMAIN s = 1..Len(s)
         /\ s = <<>> <=> Len(s) = 0
         /\ s \o <<>> = s /\ <<>> \o s = s
BY DEF IsSeq

(* Two sequences put together: which elements are where.                   *)
LEMMA ConcatIs ==
  ASSUME NEW s, NEW r, IsSeq(s), IsSeq(r)
  PROVE  /\ IsSeq(s \o r) /\ Len(s \o r) = Len(s) + Len(r)
         /\ DOMAIN (s \o r) = 1..(Len(s) + Len(r))
         /\ \A i \in 1..Len(s) : (s \o r)[i] = s[i]
         /\ \A i \in 1..Len(r) : (s \o r)[Len(s) + i] = r[i]
         /\ \A i \in 1..(Len(s) + Len(r)) :
              \/ i \in 1..Len(s) /\ (s \o r)[i] = s[i]
              \/ i - Len(s) \in 1..Len(r) /\ (s \o r)[i] = r[i - Len(s)]
<1>1. PICK S : s \in Seq(S) BY DEF IsSeq
<1>2. PICK R : r \in Seq(R) BY DEF IsSeq
<1> DEFINE U == S \cup R
<1>3. s \in Seq(U) /\ r \in Seq(U) BY <1>1, <1>2
<1> HIDE DEF U
<1>4. s \o r \in Seq(U) /\ Len(s \o r) = Len(s) + Len(r) BY <1>3
<1>5. /\ \A i \in 1..Len(s) : (s \o r)[i] = s[i]
      /\ \A i \in 1..Len(r) : (s \o r)[Len(s) + i] = r[i]
  BY <1>3
<1>6. ASSUME NEW i \in 1..(Len(s) + Len(r))
      PROVE  \/ i \in 1..Len(s) /\ (s \o r)[i] = s[i]
             \/ i - Len(s) \in 1..Len(r) /\ (s \o r)[i] = r[i - Len(s)]
  BY <1>3
<1>7. DOMAIN (s \o r) = 1..(Len(s) + Len(r)) BY <1>4
<1>8. IsSeq(s \o r) BY <1>4 DEF IsSeq
<1> QED BY <1>4, <1>5, <1>6, <1>7, <1>8

(* It does not matter which are put together first.                        *)
LEMMA ConcatAssoc ==
  ASSUME NEW s, NEW r, NEW u, IsSeq(s), IsSeq(r), IsSeq(u)
  PROVE  (s \o r) \o u = s \o (r \o u)
<1>1. PICK S : s \in Seq(S) BY DEF IsSeq
<1>2. PICK R : r \in Seq(R) BY DEF IsSeq
<1>3. PICK T : u \in Seq(T) BY DEF IsSeq
<1> DEFINE U == S \cup R \cup T
<1>4. s \in Seq(U) /\ r \in Seq(U) /\ u \in Seq(U) BY <1>1, <1>2, <1>3
<1> HIDE DEF U
<1> QED BY <1>4, ConcatAssociative

(* A sequence of one element, and what Step takes off one that it begins.  *)
LEMMA SingleIs ==
  ASSUME NEW c
  PROVE  /\ IsSeq(<<c>>) /\ Len(<<c>>) = 1 /\ <<c>>[1] = c /\ <<c>> # <<>>
         /\ \A s : IsSeq(s) => Tail(<<c>> \o s) = s /\ Head(<<c>> \o s) = c /\ <<c>> \o s # <<>>
<1>1. <<c>> \in Seq({c}) OBVIOUS
<1>2. ASSUME NEW s, IsSeq(s) PROVE Tail(<<c>> \o s) = s /\ Head(<<c>> \o s) = c /\ <<c>> \o s # <<>>
  <2>1. PICK S : s \in Seq(S) BY <1>2 DEF IsSeq
  <2> DEFINE U == S \cup {c}
  <2>2. s \in Seq(U) /\ <<c>> \in Seq(U) BY <2>1
  <2> HIDE DEF U
  <2> DEFINE cs == <<c>> \o s
  <2>3. cs \in Seq(U) /\ Len(cs) = 1 + Len(s) /\ cs[1] = c BY <2>2
  <2>4. Tail(cs) \in Seq(U) /\ Len(Tail(cs)) = Len(s) BY <2>2, <2>3
  <2>5. \A i \in 1..Len(s) : Tail(cs)[i] = s[i] BY <2>2, <2>3
  <2>6. Tail(cs) = s BY <2>2, <2>4, <2>5
  <2>7. Head(cs) = c /\ cs # <<>> BY <2>3
  <2> QED BY <2>6, <2>7
<1> QED BY <1>1, <1>2 DEF IsSeq

(* The sequence of no elements.                                            *)
LEMMA EmptyIsSeq == IsSeq(<<>>) /\ Len(<<>>) = 0
<1>1. <<>> \in Seq({}) OBVIOUS
<1> QED BY <1>1 DEF IsSeq

-----------------------------------------------------------------------------
(* Commands, apart from where they are executed.                           *)

\* late has to follow early, which was submitted to its queue before it.
Orders(early, late) ==
    CASE late.op = "wait" -> FALSE
      [] late.op = "signal" -> TRUE
      [] late.op = "access" -> early.op \in {"wait", "barrier"} /\ late.stage \in early.dst
      [] late.op = "barrier" ->
           \/ early.op = "access" /\ early.stage \in late.src
           \/ early.op \in {"wait", "barrier"} /\ early.dst \cap late.src # {}

\* Accessible and InLayout, in a state of the resource.
AccessibleIn(sharing, family, state) ==
    IF sharing # {} THEN family \in sharing
    ELSE state.owner \in {Ignored, family} /\ state.heir = Ignored

Laid(state, levels, layout) == \A n \in levels : state.layout[n] = layout

\* Sound of a command of the family, and its Effect, in a state of the resource.
SoundIn(p, c, family, state) ==
    CASE c.op = "access" ->
           /\ AccessibleIn(p.sharing, family, state)
           /\ Laid(state, c.reads, c.read) /\ Laid(state, c.writes, c.write)
           /\ p.request.staged => c.reads \subseteq state.data
      [] c.op = "barrier" ->
           /\ c.old # "undefined" => Laid(state, c.levels, c.old)
           /\ IF c.from # c.to /\ family = c.to
              THEN state.owner = c.from /\ state.heir = c.to
              ELSE AccessibleIn(p.sharing, family, state)
      [] OTHER -> TRUE

EffectIn(p, c, family, state) ==
    LET owner == IF p.sharing = {} THEN family ELSE Ignored
    IN  CASE c.op = "access" ->
               [state EXCEPT !.owner = owner, !.data = @ \cup c.writes]
          [] c.op = "barrier" /\ c.from # c.to /\ family = c.from ->
               [state EXCEPT !.owner = owner, !.heir = c.to]
          [] c.op = "barrier" /\ ~(c.from # c.to /\ family = c.from) ->
               [state EXCEPT !.owner = owner, !.heir = Ignored,
                  !.layout = [n \in Levels(p.request) |-> IF n \in c.levels THEN c.new ELSE state.layout[n]],
                  !.data = IF c.old = "undefined" THEN @ \ c.levels ELSE @]
          [] OTHER -> state

(* Follows, by the commands.                                               *)
LEMMA FollowsIs == ASSUME NEW x, NEW y PROVE Follows(x, y) <=> Orders(Item(y), Item(x))
BY DEF Follows, Orders

(* Sound and Effect, by the command, its family and the state.             *)
LEMMA SoundIs ==
  ASSUME NEW x, NEW p, p.request = request, p.sharing = Sharing(request)
  PROVE  Sound(x) <=> SoundIn(p, Item(x), x[1][1], resource)
BY DEF Sound, SoundIn, Accessible, AccessibleIn, InLayout, Laid

LEMMA EffectIs ==
  ASSUME NEW x, NEW p, p.request = request, p.sharing = Sharing(request)
  PROVE  Effect(x) = EffectIn(p, Item(x), x[1][1], resource)
BY DEF Effect, EffectIn, Transitioned

-----------------------------------------------------------------------------
(* A plan is what a call of CreateBuffer or CreateImage does, with the     *)
(* states that the resource goes through: the commands that are copied by  *)
(* a first queue, if any, for which the type waits; the commands of the    *)
(* type; the targets, for each of which there is a semaphore, and the      *)
(* stages they wait at; and the types that use the resource afterwards.    *)

\* Whether a first queue copies, and how many commands there are.
Split(p) == p.copied # <<>>
Copies(p) == Len(p.copied)
Commands(p) == Len(p.commands)

\* The calls of Submit and AddWaitSemaphore.
FirstCall(p) == [call |-> "submit", type |-> p.first, commands |-> p.copied, semaphores |-> {p.type}]
FirstWait(p) == [call |-> "wait", type |-> p.type, semaphore |-> p.type, stages |-> p.wait]
LastCall(p) == [call |-> "submit", type |-> p.type, commands |-> p.commands, semaphores |-> p.targets]
WaitCall(p, t) == [call |-> "wait", type |-> t, semaphore |-> t, stages |-> p.dst[t]]

\* The same in a queue.
Awaited(type, stages) == [op |-> "wait", semaphore |-> type, dst |-> stages]
Signalled(types) == [op |-> "signal", semaphores |-> types]

\* The waits of the targets, in some order, and the whole script.
WaitCalls(p, calls) ==
    /\ IsSeq(calls)
    /\ \A i \in DOMAIN calls : \E t \in p.targets : calls[i] = WaitCall(p, t)
    /\ \A t \in p.targets : \E i \in DOMAIN calls : calls[i] = WaitCall(p, t)
Scripted(p, calls) ==
    IF p.commands = <<>> THEN calls = <<>>
    ELSE \E w : /\ WaitCalls(p, w)
                /\ calls = IF Split(p)
                           THEN <<FirstCall(p)>> \o (<<FirstWait(p)>> \o (<<LastCall(p)>> \o w))
                           ELSE <<LastCall(p)>> \o w

\* What the first queue and the queue of the type begin with.
Before(p) == IF Split(p) THEN <<Awaited(p.type, p.wait)>> ELSE <<>>
FirstHead(p) == p.copied \o <<Signalled({p.type})>>
Batch(p) == Before(p) \o p.commands
LastHead(p) == Batch(p) \o (IF p.targets = {} THEN <<>> ELSE <<Signalled(p.targets)>>)

\* The commands in the order they are executed in, and the families they are executed by.
Total(p) == Copies(p) + Commands(p)
Command(p, k) == IF k <= Copies(p) THEN p.copied[k] ELSE p.commands[k - Copies(p)]
Executor(p, k) == p.queues[IF k <= Copies(p) THEN p.first ELSE p.type][1]

\* What the application was promised, and its uses.
Promise(p) == IF p.request.kind = "buffer" THEN "buffer" ELSE "initial"
UseOf(p, stage) == Access(stage, Levels(p.request), Promise(p), {}, Promise(p))
UseStages(p, t) == p.request.stages \cap Supported(t)

\* A use by t on its queue comes after the commands, or t waits for them.
Covered(p, t, stage) ==
    \/ p.commands = <<>>
    \/ /\ p.queues[t] = p.queues[p.type]
       /\ Orders(p.commands[Commands(p)], UseOf(p, stage))
    \/ t \in p.targets /\ stage \in p.dst[t]

PlanTypes(p) ==
    /\ p.first \in Types /\ p.type \in Types /\ p.targets \subseteq Types /\ p.users \subseteq Types
    /\ IsSeq(p.copied) /\ IsSeq(p.commands)
    /\ \A i \in DOMAIN p.copied : p.copied[i].op \in {"access", "barrier"}
    /\ \A i \in DOMAIN p.commands : p.commands[i].op \in {"access", "barrier"}
    /\ p.commands = <<>> => p.copied = <<>> /\ p.targets = {}

\* Each command follows the one before it, if need be by way of a semaphore.
PlanOrdered(p) ==
    /\ \A i \in DOMAIN p.copied : i > 1 => Orders(p.copied[i - 1], p.copied[i])
    /\ \A i \in DOMAIN p.commands : i > 1 => Orders(p.commands[i - 1], p.commands[i])
    /\ Split(p) => /\ p.queues[p.first] # p.queues[p.type] /\ p.type \notin p.targets
                   /\ Orders(Awaited(p.type, p.wait), p.commands[1])

\* So does each use; nothing else is sent where the commands may be left pending.
PlanCovers(p) ==
    /\ \A t \in p.users : \A stage \in UseStages(p, t) : Covered(p, t, stage)
    /\ p.targets = {} /\ p.type # "transfer" /\ p.commands # <<>> => p.users \subseteq {p.type}

(* What a use needs of the resource, and what the users leave as it is.    *)
IsState(state) ==
    state = [layout |-> state.layout, data |-> state.data, owner |-> state.owner, heir |-> state.heir]
Final(p, state) ==
    /\ IsState(state)
    /\ p.users # {} =>
         /\ Laid(state, Levels(p.request), Promise(p))
         /\ p.request.staged => Levels(p.request) \subseteq state.data
         /\ p.sharing = {} =>
              state.heir = Ignored /\ \A t \in p.users : state.owner \in {Ignored, p.queues[t][1]}

\* Each command finds the state it needs, and so does each use, in any order.
PlanSound(p) ==
    /\ \A k \in 0 .. Total(p) - 1 :
         /\ SoundIn(p, Command(p, k + 1), Executor(p, k + 1), p.states[k])
         /\ EffectIn(p, Command(p, k + 1), Executor(p, k + 1), p.states[k]) = p.states[k + 1]
    /\ Final(p, p.states[Total(p)])
    /\ \A t \in p.users :
         IF p.sharing = {} THEN \A u \in p.users : p.queues[t][1] = p.queues[u][1]
         ELSE p.queues[t][1] \in p.sharing

Plan(p) == PlanTypes(p) /\ PlanOrdered(p) /\ PlanCovers(p) /\ PlanSound(p)

-----------------------------------------------------------------------------
(* What is in the queues, and what was executed.                           *)

\* The queue that copies, and the queue of the type.
FirstQueue(p) == p.queues[p.first]
LastQueue(p) == p.queues[p.type]

\* What a queue begins with.
HeadOf(p, q) ==
    IF p.commands # <<>> /\ q = LastQueue(p) THEN LastHead(p)
    ELSE IF Split(p) /\ q = FirstQueue(p) THEN FirstHead(p) ELSE <<>>

\* The i-th of s is the wait of a target, or a use that something before it makes wait.
Rest(p, q, s, i) ==
    \/ s[i].op = "wait" /\ s[i].semaphore \in p.targets
    \/ \E t \in p.users : \E stage \in UseStages(p, t) :
         /\ p.queues[t] = q /\ s[i] = UseOf(p, stage)
         /\ \/ p.commands = <<>>
            \/ q = LastQueue(p) /\ Orders(p.commands[Commands(p)], UseOf(p, stage))
            \/ \E j \in 1 .. i - 1 :
                 s[j].op = "wait" /\ s[j].semaphore \in p.targets /\ stage \in s[j].dst

\* A queue holds what it begins with, as far as it goes, and then the rest.
Begun(p, q, s) ==
    /\ IsSeq(s)
    /\ \A i \in 1..Len(s) :
         IF i <= Len(HeadOf(p, q)) THEN s[i] = HeadOf(p, q)[i] ELSE Rest(p, q, s, i)

\* All of the queues do.
Contents(p) ==
    /\ queues = p.queues /\ request = p.request /\ Sharing(request) = p.sharing
    /\ DOMAIN vkqueue = {p.queues[t] : t \in Types}
    /\ \A q \in DOMAIN vkqueue : Begun(p, q, vkqueue[q])

\* The GPU kept to the order of the queues and to the semaphores.
Closed ==
    /\ done \subseteq Items
    /\ \A x \in done : \A i \in 1 .. x[2] - 1 : Follows(x, <<x[1], i>>) => <<x[1], i>> \in done
    /\ \A x \in done : Item(x).op = "wait" => Item(x).semaphore \in signals
    /\ \A n \in signals : \E x \in done : Item(x).op = "signal" /\ n \in Item(x).semaphores

\* Where the k-th command is; the commands were executed in their order.
Place(p, k) ==
    IF k <= Copies(p) THEN <<FirstQueue(p), k>>
    ELSE <<LastQueue(p), Len(Before(p)) + k - Copies(p)>>
Progress(p) ==
    \E k \in 0..Total(p) :
      /\ \A j \in 1..Total(p) : Place(p, j) \in done <=> j <= k
      /\ k < Total(p) => resource = p.states[k]
      /\ k = Total(p) => Final(p, resource)

(* The lengths and the members of what queues begin with.                  *)
LEMMA Heads ==
  ASSUME NEW p, PlanTypes(p)
  PROVE  /\ Copies(p) \in Nat /\ Commands(p) \in Nat /\ Len(Before(p)) \in {0, 1}
         /\ Total(p) = Copies(p) + Commands(p)
         /\ p.commands # <<>> <=> Commands(p) # 0
         /\ Split(p) <=> Copies(p) # 0
         /\ Split(p) <=> Len(Before(p)) = 1
         /\ Split(p) => Before(p)[1] = Awaited(p.type, p.wait)
         /\ IsSeq(FirstHead(p)) /\ IsSeq(LastHead(p)) /\ IsSeq(Before(p)) /\ IsSeq(Batch(p))
         /\ Len(FirstHead(p)) = Copies(p) + 1
         /\ \A i \in 1..Copies(p) : FirstHead(p)[i] = p.copied[i]
         /\ FirstHead(p)[Copies(p) + 1] = Signalled({p.type})
         /\ Len(LastHead(p)) = Len(Before(p)) + Commands(p) + (IF p.targets = {} THEN 0 ELSE 1)
         /\ Len(Batch(p)) = Len(Before(p)) + Commands(p)
         /\ Split(p) => LastHead(p)[1] = Awaited(p.type, p.wait)
         /\ \A i \in 1..Commands(p) : LastHead(p)[Len(Before(p)) + i] = p.commands[i]
         /\ p.targets # {} =>
              LastHead(p)[Len(Before(p)) + Commands(p) + 1] = Signalled(p.targets)
<1> DEFINE A == p.copied
           B == p.commands
           W == Before(p)
           M == Batch(p)
           Z == IF p.targets = {} THEN <<>> ELSE <<Signalled(p.targets)>>
<1>1. IsSeq(A) /\ IsSeq(B) BY DEF PlanTypes
<1>2. Len(A) \in Nat /\ Len(B) \in Nat /\ (A = <<>> <=> Len(A) = 0) /\ (B = <<>> <=> Len(B) = 0)
  BY <1>1, SeqIs
<1>3. /\ IsSeq(W) /\ (Split(p) => Len(W) = 1 /\ W[1] = Awaited(p.type, p.wait))
      /\ (~Split(p) => Len(W) = 0)
  BY SingleIs, EmptyIsSeq DEF Before
<1>4. /\ IsSeq(Z) /\ (p.targets # {} => Len(Z) = 1 /\ Z[1] = Signalled(p.targets))
      /\ (p.targets = {} => Len(Z) = 0)
  BY SingleIs, EmptyIsSeq
<1>5. /\ IsSeq(<<Signalled({p.type})>>) /\ Len(<<Signalled({p.type})>>) = 1
      /\ <<Signalled({p.type})>>[1] = Signalled({p.type})
  BY SingleIs
<1> DEFINE Y == <<Signalled({p.type})>>
<1>6. FirstHead(p) = A \o Y /\ M = W \o B /\ LastHead(p) = M \o Z
  BY DEF FirstHead, Batch, LastHead
<1> HIDE DEF A, B, W, M, Z, Y
<1>7. /\ IsSeq(FirstHead(p)) /\ Len(FirstHead(p)) = Len(A) + 1
      /\ \A i \in 1..Len(A) : FirstHead(p)[i] = A[i]
      /\ FirstHead(p)[Len(A) + 1] = Signalled({p.type})
  <2>1. IsSeq(Y) /\ Len(Y) = 1 /\ Y[1] = Signalled({p.type}) BY <1>5 DEF Y
  <2>2. 1 \in 1..Len(Y) BY <2>1
  <2>3. /\ IsSeq(A \o Y) /\ Len(A \o Y) = Len(A) + Len(Y)
        /\ \A i \in 1..Len(A) : (A \o Y)[i] = A[i]
        /\ \A i \in 1..Len(Y) : (A \o Y)[Len(A) + i] = Y[i]
    <3>1. IsSeq(A) /\ IsSeq(Y) BY <1>1, <2>1
    <3> QED BY <3>1, ConcatIs
  <2> QED BY <1>6, <2>1, <2>2, <2>3
<1>8. /\ IsSeq(M) /\ Len(M) = Len(W) + Len(B)
      /\ \A i \in 1..Len(W) : M[i] = W[i]
      /\ \A i \in 1..Len(B) : M[Len(W) + i] = B[i]
  BY <1>1, <1>3, <1>6, ConcatIs
<1>9. /\ IsSeq(LastHead(p)) /\ Len(LastHead(p)) = Len(M) + Len(Z)
      /\ \A i \in 1..Len(M) : LastHead(p)[i] = M[i]
      /\ \A i \in 1..Len(Z) : LastHead(p)[Len(M) + i] = Z[i]
  BY <1>4, <1>6, <1>8, ConcatIs
<1>10. Len(W) \in {0, 1} /\ (Split(p) <=> Len(A) # 0) /\ (Split(p) <=> Len(W) = 1)
  BY <1>2, <1>3 DEF Split, A
<1>11. ASSUME Split(p) PROVE LastHead(p)[1] = Awaited(p.type, p.wait)
  <2>0. Len(W) = 1 BY <1>3, <1>11
  <2>1. 1 \in 1..Len(W) /\ 1 \in 1..Len(M) BY <1>2, <1>8, <2>0
  <2> QED BY <1>3, <1>8, <1>9, <1>11, <2>1
<1>12. ASSUME NEW i \in 1..Len(B) PROVE LastHead(p)[Len(W) + i] = B[i]
  <2>1. Len(W) + i \in 1..Len(M) BY <1>2, <1>8, <1>10
  <2> QED BY <1>8, <1>9, <2>1
<1>13. ASSUME p.targets # {} PROVE LastHead(p)[Len(W) + Len(B) + 1] = Signalled(p.targets)
  <2>1. 1 \in 1..Len(Z) BY <1>4, <1>13
  <2> QED BY <1>4, <1>8, <1>9, <1>13, <2>1
<1>14. Len(LastHead(p)) = Len(W) + Len(B) + (IF p.targets = {} THEN 0 ELSE 1)
  BY <1>2, <1>4, <1>8, <1>9, <1>10
<1> QED BY <1>1, <1>2, <1>3, <1>7, <1>8, <1>9, <1>10, <1>11, <1>12, <1>13, <1>14
     DEF Total, Copies, Commands, A, B, W, M

(* The same for any queue, as numbers.                                     *)
LEMMA Sizes ==
  ASSUME NEW p, PlanTypes(p)
  PROVE  /\ Copies(p) \in Nat /\ Commands(p) \in Nat /\ Len(Before(p)) \in {0, 1}
         /\ Total(p) = Copies(p) + Commands(p) /\ Total(p) \in Nat
         /\ p.commands # <<>> <=> Commands(p) # 0
         /\ Split(p) <=> Copies(p) # 0
         /\ Split(p) <=> Len(Before(p)) = 1
         /\ Len(FirstHead(p)) = Copies(p) + 1
         /\ Len(LastHead(p)) = Len(Before(p)) + Commands(p) + (IF p.targets = {} THEN 0 ELSE 1)
         /\ \A q : Len(HeadOf(p, q)) \in Nat
<1>1. /\ Copies(p) \in Nat /\ Commands(p) \in Nat /\ Len(Before(p)) \in {0, 1}
      /\ Total(p) = Copies(p) + Commands(p)
      /\ p.commands # <<>> <=> Commands(p) # 0
      /\ Split(p) <=> Copies(p) # 0
      /\ Split(p) <=> Len(Before(p)) = 1
      /\ Len(FirstHead(p)) = Copies(p) + 1
      /\ Len(LastHead(p)) = Len(Before(p)) + Commands(p) + (IF p.targets = {} THEN 0 ELSE 1)
  BY Heads
<1>2. Total(p) \in Nat BY <1>1
<1>3. \A q : Len(HeadOf(p, q)) \in Nat
  <2>1. Len(FirstHead(p)) \in Nat /\ Len(LastHead(p)) \in Nat BY <1>1
  <2> QED BY <2>1, EmptyIsSeq DEF HeadOf
<1> QED BY <1>1, <1>2, <1>3

(* The places of the commands, and what else is in the heads.              *)
LEMMA PlaceIs ==
  ASSUME NEW p, PlanTypes(p), PlanOrdered(p), NEW k \in 1..Total(p)
  PROVE  /\ Place(p, k)[2] \in 1..Len(HeadOf(p, Place(p, k)[1]))
         /\ HeadOf(p, Place(p, k)[1])[Place(p, k)[2]] = Command(p, k)
         /\ Executor(p, k) = Place(p, k)[1][1]
         /\ Command(p, k).op \in {"access", "barrier"}
         /\ Place(p, k) = <<Place(p, k)[1], Place(p, k)[2]>>
<1> DEFINE a == Copies(p)
           b == Commands(p)
           w == Len(Before(p))
<1>1. a \in Nat /\ b \in Nat /\ w \in {0, 1} /\ Total(p) = a + b /\ Total(p) \in Nat BY Sizes
<1>2. CASE k <= a
  <2>1. Split(p) /\ p.commands # <<>> BY <1>1, <1>2, Sizes DEF PlanTypes, Split
  <2>2. FirstQueue(p) # LastQueue(p) BY <2>1 DEF PlanOrdered, FirstQueue, LastQueue
  <2>3. HeadOf(p, FirstQueue(p)) = FirstHead(p) BY <2>1, <2>2 DEF HeadOf
  <2>4. Place(p, k) = <<FirstQueue(p), k>> /\ Command(p, k) = p.copied[k] BY <1>2 DEF Place, Command
  <2>5. k \in 1..a /\ k \in 1..Len(FirstHead(p)) /\ FirstHead(p)[k] = p.copied[k]
    <3>1. k \in 1..a /\ Len(FirstHead(p)) = a + 1 BY <1>1, <1>2, Sizes
    <3>2. FirstHead(p)[k] = p.copied[k] BY <3>1, Heads
    <3> QED BY <1>1, <3>1, <3>2
  <2>6. Executor(p, k) = FirstQueue(p)[1] BY <1>2 DEF Executor, FirstQueue
  <2>7. p.copied[k].op \in {"access", "barrier"}
    <3>1. DOMAIN p.copied = 1..a BY SeqIs DEF PlanTypes, Copies
    <3> QED BY <2>5, <3>1 DEF PlanTypes
  <2> QED BY <2>3, <2>4, <2>5, <2>6, <2>7
<1>3. CASE k > a
  <2>1. ~(k <= a) /\ k - a \in 1..b BY <1>1, <1>3
  <2>2. p.commands # <<>> BY <1>1, <2>1, Sizes
  <2>3. HeadOf(p, LastQueue(p)) = LastHead(p) BY <2>2 DEF HeadOf
  <2>4. Place(p, k) = <<LastQueue(p), w + k - a>> /\ Command(p, k) = p.commands[k - a]
    BY <2>1 DEF Place, Command
  <2>5. LastHead(p)[w + (k - a)] = p.commands[k - a] BY <2>1, Heads
  <2>6. w + (k - a) = w + k - a BY <1>1, <2>1
  <2>7. Len(LastHead(p)) = w + b + (IF p.targets = {} THEN 0 ELSE 1) BY Sizes
  <2>8. w + k - a \in 1..Len(LastHead(p)) BY <1>1, <2>1, <2>7
  <2>9. Executor(p, k) = LastQueue(p)[1] BY <2>1 DEF Executor, LastQueue
  <2>10. p.commands[k - a].op \in {"access", "barrier"}
    <3>1. DOMAIN p.commands = 1..b BY SeqIs DEF PlanTypes, Commands
    <3> QED BY <2>1, <3>1 DEF PlanTypes
  <2> QED BY <2>3, <2>4, <2>5, <2>6, <2>8, <2>9, <2>10
<1> QED BY <1>1, <1>2, <1>3

(* No two commands have the same place.                                    *)
LEMMA PlacesDiffer ==
  ASSUME NEW p, PlanTypes(p), PlanOrdered(p), NEW j \in 1..Total(p), NEW k \in 1..Total(p),
         Place(p, j) = Place(p, k)
  PROVE  j = k
<1> DEFINE a == Copies(p)
<1>1. a \in Nat /\ Len(Before(p)) \in {0, 1} /\ Total(p) \in Nat BY Sizes
<1>2. a # 0 => FirstQueue(p) # LastQueue(p) BY Sizes DEF PlanOrdered, FirstQueue, LastQueue
<1>3. CASE j <= a /\ k <= a BY <1>3 DEF Place
<1>4. CASE j <= a /\ ~(k <= a)
  <2>1. a # 0 BY <1>1, <1>4
  <2> QED BY <1>2, <1>4, <2>1 DEF Place
<1>5. CASE ~(j <= a) /\ k <= a
  <2>1. a # 0 BY <1>1, <1>5
  <2> QED BY <1>2, <1>5, <2>1 DEF Place
<1>6. CASE ~(j <= a) /\ ~(k <= a)
  <2>1. Len(Before(p)) + j - a = Len(Before(p)) + k - a BY <1>6 DEF Place
  <2> QED BY <1>1, <2>1
<1> QED BY <1>3, <1>4, <1>5, <1>6

(* What a queue begins with is a command, a wait for the copies or a       *)
(* signal.                                                                 *)
LEMMA HeadKinds ==
  ASSUME NEW p, PlanTypes(p), PlanOrdered(p), NEW q, NEW i \in 1..Len(HeadOf(p, q))
  PROVE  \/ \E k \in 1..Total(p) : Place(p, k) = <<q, i>>
         \/ /\ Split(p) /\ q = LastQueue(p) /\ i = 1
            /\ HeadOf(p, q)[i] = Awaited(p.type, p.wait)
         \/ /\ Split(p) /\ q = FirstQueue(p) /\ i = Copies(p) + 1
            /\ HeadOf(p, q)[i] = Signalled({p.type})
         \/ /\ p.commands # <<>> /\ p.targets # {} /\ q = LastQueue(p)
            /\ i = Len(Before(p)) + Commands(p) + 1
            /\ HeadOf(p, q)[i] = Signalled(p.targets)
<1> DEFINE a == Copies(p)
           b == Commands(p)
           w == Len(Before(p))
<1>1. a \in Nat /\ b \in Nat /\ w \in {0, 1} /\ Total(p) = a + b /\ Total(p) \in Nat BY Sizes
<1>0. i \in Nat /\ i >= 1 /\ i <= Len(HeadOf(p, q)) /\ Len(HeadOf(p, q)) \in Nat BY Sizes
<1>2. CASE p.commands # <<>> /\ q = LastQueue(p)
  <2>1. HeadOf(p, q) = LastHead(p) BY <1>2 DEF HeadOf
  <2>2. Len(LastHead(p)) = w + b + (IF p.targets = {} THEN 0 ELSE 1) BY Sizes
  <2>3. CASE i <= w
    <3>0. w # 0
      <4> HIDE DEF w
      <4> QED BY <1>0, <2>3
    <3>1. w = 1 /\ i = 1
      <4>1. w = 1 BY <1>1, <3>0
      <4> HIDE DEF w
      <4> QED BY <1>0, <2>3, <4>1
    <3>2. Split(p) BY <3>1, Sizes
    <3> QED BY <1>2, <2>1, <3>1, <3>2, Heads
  <2>4. CASE i > w /\ i <= w + b
    <3> DEFINE k == a + i - w
    <3>1. k \in 1..Total(p) /\ ~(k <= a) /\ w + k - a = i BY <1>0, <1>1, <2>4
    <3>2. Place(p, k) = <<q, i>> BY <1>2, <3>1 DEF Place
    <3> QED BY <3>1, <3>2
  <2>5. CASE i > w + b
    <3>1. p.targets # {} /\ i = w + b + 1 BY <1>0, <1>1, <2>1, <2>2, <2>5
    <3> QED BY <1>2, <2>1, <3>1, Heads
  <2> QED BY <1>0, <1>1, <2>1, <2>2, <2>3, <2>4, <2>5
<1>3. CASE ~(p.commands # <<>> /\ q = LastQueue(p)) /\ Split(p) /\ q = FirstQueue(p)
  <2>1. HeadOf(p, q) = FirstHead(p) BY <1>3 DEF HeadOf
  <2>2. Len(FirstHead(p)) = a + 1 BY Sizes
  <2>3. CASE i <= a
    <3>1. i \in 1..Total(p) BY <1>0, <1>1, <2>1, <2>2, <2>3
    <3>2. Place(p, i) = <<q, i>> BY <1>3, <2>3 DEF Place
    <3> QED BY <3>1, <3>2
  <2>4. CASE i > a
    <3>1. i = a + 1 BY <1>0, <1>1, <2>1, <2>2, <2>4
    <3> QED BY <1>3, <2>1, <3>1, Heads
  <2> QED BY <1>0, <1>1, <2>1, <2>2, <2>3, <2>4
<1>4. CASE ~(p.commands # <<>> /\ q = LastQueue(p)) /\ ~(Split(p) /\ q = FirstQueue(p))
  <2>1. HeadOf(p, q) = <<>> BY <1>4 DEF HeadOf
  <2> QED BY <1>0, <2>1, EmptyIsSeq
<1> QED BY <1>2, <1>3, <1>4

-----------------------------------------------------------------------------
(* Executing what is in the queues.                                        *)

(* A use finds the resource in its final state and leaves it in one.       *)
LEMMA UseKeeps ==
  ASSUME NEW p, PlanSound(p), NEW t \in p.users, NEW stage, NEW state, Final(p, state)
  PROVE  /\ SoundIn(p, UseOf(p, stage), p.queues[t][1], state)
         /\ Final(p, EffectIn(p, UseOf(p, stage), p.queues[t][1], state))
<1> DEFINE f == p.queues[t][1]
           c == UseOf(p, stage)
<1>1. /\ c.op = "access" /\ c.reads = Levels(p.request) /\ c.read = Promise(p)
      /\ c.writes = {} /\ c.write = Promise(p)
  BY DEF UseOf, Access
<1> HIDE DEF c
<1>2. /\ state = [layout |-> state.layout, data |-> state.data, owner |-> state.owner,
                  heir |-> state.heir]
      /\ Laid(state, Levels(p.request), Promise(p))
      /\ p.request.staged => Levels(p.request) \subseteq state.data
      /\ p.sharing = {} =>
           state.heir = Ignored /\ \A u \in p.users : state.owner \in {Ignored, p.queues[u][1]}
  BY DEF Final, IsState
<1>3. AccessibleIn(p.sharing, f, state) BY <1>2 DEF AccessibleIn, PlanSound
<1>4. SoundIn(p, c, f, state) BY <1>1, <1>2, <1>3 DEF SoundIn, Laid
<1> DEFINE owner == IF p.sharing = {} THEN f ELSE Ignored
           after == EffectIn(p, c, f, state)
<1>5. after = [state EXCEPT !.owner = owner, !.data = @ \cup c.writes] BY <1>1 DEF EffectIn
<1>6. after = [layout |-> state.layout, data |-> state.data, owner |-> owner, heir |-> state.heir]
  <2>1. state.data \cup c.writes = state.data BY <1>1
  <2> DEFINE a == state.layout
             d == state.data
             h == state.heir
             o == state.owner
  <2>2. after = [state EXCEPT !.owner = owner, !.data = d] BY <1>5, <2>1
  <2>3. state = [layout |-> a, data |-> d, owner |-> o, heir |-> h] BY <1>2
  <2> HIDE DEF a, d, h, o, after, owner
  <2>4. after = [layout |-> a, data |-> d, owner |-> owner, heir |-> h] BY <2>2, <2>3
  <2> QED BY <2>4 DEF a, d, h
<1>7. p.sharing = {} => \A u \in p.users : owner \in {Ignored, p.queues[u][1]}
  BY DEF PlanSound
<1> HIDE DEF after, owner
<1>8. /\ after.layout = state.layout /\ after.data = state.data /\ after.owner = owner
      /\ after.heir = state.heir /\ IsState(after)
  BY <1>6 DEF IsState
<1>9. Laid(after, Levels(p.request), Promise(p)) BY <1>2, <1>8 DEF Laid
<1>10. Final(p, after) BY <1>2, <1>7, <1>8, <1>9 DEF Final
<1> QED BY <1>4, <1>10 DEF after, c

(* An item is a command of the plan, its waits and signals, or comes after.*)
LEMMA Kinds ==
  ASSUME NEW p, Plan(p), Contents(p), NEW x \in Items
  PROVE  /\ x = <<x[1], x[2]>> /\ x[1] \in DOMAIN vkqueue /\ x[2] \in 1..Len(vkqueue[x[1]])
         /\ Len(vkqueue[x[1]]) \in Nat /\ Item(x) = vkqueue[x[1]][x[2]]
         /\ \/ \E k \in 1..Total(p) :
                 x = Place(p, k) /\ Item(x) = Command(p, k) /\ x[1][1] = Executor(p, k)
            \/ /\ Split(p) /\ x[1] = LastQueue(p) /\ x[2] = 1
               /\ Item(x) = Awaited(p.type, p.wait)
            \/ /\ Split(p) /\ x[1] = FirstQueue(p) /\ x[2] = Copies(p) + 1
               /\ Item(x) = Signalled({p.type})
            \/ /\ p.commands # <<>> /\ p.targets # {} /\ x[1] = LastQueue(p)
               /\ x[2] = Len(Before(p)) + Commands(p) + 1
               /\ Item(x) = Signalled(p.targets)
            \/ /\ ~ (x[2] <= Len(HeadOf(p, x[1])))
               /\ Rest(p, x[1], vkqueue[x[1]], x[2])
<1>1. PICK q \in DOMAIN vkqueue : x \in {q} \X (DOMAIN vkqueue[q]) BY DEF Items
<1>2. x = <<q, x[2]>> /\ x[1] = q /\ x[2] \in DOMAIN vkqueue[q] BY <1>1
<1>3. IsSeq(vkqueue[q]) /\ Begun(p, q, vkqueue[q]) BY DEF Contents, Begun
<1>4. DOMAIN vkqueue[q] = 1..Len(vkqueue[q]) /\ Len(vkqueue[q]) \in Nat BY <1>3, SeqIs
<1>5. Item(x) = vkqueue[q][x[2]] BY <1>2 DEF Item
<1> DEFINE i == x[2]
           h == HeadOf(p, q)
<1>6. i \in 1..Len(vkqueue[q]) BY <1>2, <1>4
<1>7. CASE i <= Len(h)
  <2>1. Len(h) \in Nat BY Sizes DEF Plan
  <2>2. i \in 1..Len(h) BY <1>4, <1>6, <1>7, <2>1
  <2>3. Item(x) = h[i] BY <1>3, <1>5, <1>6, <1>7 DEF Begun
  <2>4. CASE \E k \in 1..Total(p) : Place(p, k) = <<q, i>>
    <3>1. PICK k \in 1..Total(p) : Place(p, k) = <<q, i>> BY <2>4
    <3>2. /\ HeadOf(p, Place(p, k)[1])[Place(p, k)[2]] = Command(p, k)
          /\ Executor(p, k) = Place(p, k)[1][1]
      BY PlaceIs DEF Plan
    <3>3. h[i] = Command(p, k) /\ Executor(p, k) = q[1] BY <3>1, <3>2
    <3> QED BY <1>1, <1>2, <1>4, <1>5, <1>6, <2>3, <3>1, <3>3
  <2>5. \/ \E k \in 1..Total(p) : Place(p, k) = <<q, i>>
        \/ /\ Split(p) /\ q = LastQueue(p) /\ i = 1
           /\ h[i] = Awaited(p.type, p.wait)
        \/ /\ Split(p) /\ q = FirstQueue(p) /\ i = Copies(p) + 1
           /\ h[i] = Signalled({p.type})
        \/ /\ p.commands # <<>> /\ p.targets # {} /\ q = LastQueue(p)
           /\ i = Len(Before(p)) + Commands(p) + 1
           /\ h[i] = Signalled(p.targets)
    BY <2>2, HeadKinds DEF Plan
  <2> QED BY <1>2, <1>4, <1>5, <1>6, <2>3, <2>4, <2>5
<1>8. CASE ~ (i <= Len(h))
  <2>1. Rest(p, q, vkqueue[q], i) BY <1>3, <1>6, <1>8 DEF Begun
  <2> QED BY <1>2, <1>4, <1>5, <1>6, <1>8, <2>1
<1> QED BY <1>7, <1>8

(* What comes after the head is a wait or a use.                           *)
LEMMA RestIs ==
  ASSUME NEW p, NEW q, NEW s, NEW i, Rest(p, q, s, i)
  PROVE  s[i].op \in {"wait", "access"}
<1>1. CASE s[i].op = "wait" BY <1>1
<1>2. CASE \E t \in p.users : \E stage \in UseStages(p, t) : s[i] = UseOf(p, stage)
  <2>1. PICK stage : s[i] = UseOf(p, stage) BY <1>2
  <2> QED BY <2>1 DEF UseOf, Access
<1> QED BY <1>1, <1>2 DEF Rest

(* A semaphore is signalled once what comes before its signal was executed.*)
LEMMA FirstSignal ==
  ASSUME NEW p, Plan(p), Contents(p), Closed, Split(p), p.type \in signals,
         NEW i \in 1..Copies(p)
  PROVE  Place(p, i) \in done
<1>1. PICK x \in done : Item(x).op = "signal" /\ p.type \in Item(x).semaphores BY DEF Closed
<1>2. x \in Items BY DEF Closed
<1>3. p.type \notin p.targets BY DEF Plan, PlanOrdered
<1>4. \A k \in 1..Total(p) : Command(p, k).op # "signal" BY PlaceIs DEF Plan
<1>5. \A q, s, n : Rest(p, q, s, n) => s[n].op # "signal" BY RestIs
<1>6. /\ x = <<x[1], x[2]>> /\ Item(x) = vkqueue[x[1]][x[2]]
      /\ x[1] = FirstQueue(p) /\ x[2] = Copies(p) + 1
  <2>1. Awaited(p.type, p.wait).op = "wait" /\ Signalled(p.targets).semaphores = p.targets
    BY DEF Awaited, Signalled
  <2>2. ~ \E k \in 1..Total(p) : Item(x) = Command(p, k) BY <1>1, <1>4
  <2>3. Item(x) # Awaited(p.type, p.wait) /\ Item(x) # Signalled(p.targets)
    BY <1>1, <1>3, <2>1
  <2>4. x = <<x[1], x[2]>> /\ Item(x) = vkqueue[x[1]][x[2]] BY <1>2, Kinds
  <2>5. ~ Rest(p, x[1], vkqueue[x[1]], x[2]) BY <1>1, <1>5, <2>4
  <2> QED BY <1>2, <2>2, <2>3, <2>4, <2>5, Kinds
<1>7. Copies(p) \in Nat BY Sizes DEF Plan
<1>8. i \in 1 .. x[2] - 1 BY <1>6, <1>7
<1>9. Follows(x, <<x[1], i>>) BY <1>1, FollowsIs DEF Orders
<1>10. <<x[1], i>> \in done BY <1>8, <1>9 DEF Closed
<1>11. Place(p, i) = <<FirstQueue(p), i>> BY <1>7 DEF Place
<1> QED BY <1>6, <1>10, <1>11

(* A target's semaphore is signalled once all the commands were executed.  *)
LEMMA TargetSignal ==
  ASSUME NEW p, Plan(p), Contents(p), Closed, NEW n \in p.targets, n \in signals
  PROVE  Total(p) \in 1..Total(p) /\ Place(p, Total(p)) \in done
<1>1. PICK x \in done : Item(x).op = "signal" /\ n \in Item(x).semaphores BY DEF Closed
<1>2. x \in Items BY DEF Closed
<1>3. Split(p) => p.type \notin p.targets BY DEF Plan, PlanOrdered
<1>4. \A k \in 1..Total(p) : Command(p, k).op # "signal" BY PlaceIs DEF Plan
<1>5. \A q, s, m : Rest(p, q, s, m) => s[m].op # "signal" BY RestIs
<1>6. /\ x = <<x[1], x[2]>> /\ Item(x) = vkqueue[x[1]][x[2]] /\ p.commands # <<>>
      /\ x[1] = LastQueue(p) /\ x[2] = Len(Before(p)) + Commands(p) + 1
  <2>1. Awaited(p.type, p.wait).op = "wait" /\ Signalled({p.type}).semaphores = {p.type}
    BY DEF Awaited, Signalled
  <2> QED BY <1>1, <1>2, <1>3, <1>4, <1>5, <2>1, Kinds
<1> DEFINE a == Copies(p)
           b == Commands(p)
           w == Len(Before(p))
           i == w + b
<1>7. a \in Nat /\ b \in Nat /\ b # 0 /\ w \in {0, 1} /\ Total(p) = a + b
  BY <1>6, Sizes DEF Plan
<1>8. i \in 1 .. x[2] - 1 /\ Total(p) \in 1..Total(p)
  <2> HIDE DEF a, b, w
  <2>1. x[2] = w + b + 1 BY <1>6 DEF w, b
  <2> QED BY <1>7, <2>1
<1>9. Follows(x, <<x[1], i>>) BY <1>1, FollowsIs DEF Orders
<1>10. <<x[1], i>> \in done BY <1>8, <1>9 DEF Closed
<1>11. Place(p, Total(p)) = <<LastQueue(p), i>>
  <2>1. ~(a + b <= a) /\ w + (a + b) - a = w + b
    <3> HIDE DEF a, b, w, i
    <3> QED BY <1>7
  <2> QED BY <1>7, <2>1 DEF Place
<1> QED BY <1>6, <1>8, <1>10, <1>11

(* Where a queue has got as far, it has the command in its place.          *)
LEMMA PlaceItem ==
  ASSUME NEW p, Plan(p), Contents(p), NEW k \in 1..Total(p),
         Place(p, k)[1] \in DOMAIN vkqueue, Place(p, k)[2] <= Len(vkqueue[Place(p, k)[1]])
  PROVE  Item(Place(p, k)) = Command(p, k)
<1> DEFINE q == Place(p, k)[1]
           i == Place(p, k)[2]
<1>1. i \in 1..Len(HeadOf(p, q)) /\ HeadOf(p, q)[i] = Command(p, k) BY PlaceIs DEF Plan
<1>2. Begun(p, q, vkqueue[q]) BY DEF Contents
<1>3. Len(vkqueue[q]) \in Nat /\ Len(HeadOf(p, q)) \in Nat
  <2>1. IsSeq(vkqueue[q]) BY <1>2 DEF Begun
  <2> QED BY <2>1, SeqIs, Sizes DEF Plan
<1>4. i \in 1..Len(vkqueue[q]) /\ i <= Len(HeadOf(p, q)) BY <1>1, <1>3
<1>5. vkqueue[q][i] = HeadOf(p, q)[i] BY <1>2, <1>4 DEF Begun
<1> QED BY <1>1, <1>5 DEF Item

(* A command is ready only after the one before it.                        *)
LEMMA ReadyCommand ==
  ASSUME NEW p, Plan(p), Contents(p), Closed, NEW k \in 1..Total(p), k > 1,
         Place(p, k) \in Items, Ready(Place(p, k))
  PROVE  Place(p, k - 1) \in done
<1> DEFINE a == Copies(p)
           b == Commands(p)
           w == Len(Before(p))
           x == Place(p, k)
           y == Place(p, k - 1)
<1>1. /\ a \in Nat /\ b \in Nat /\ w \in {0, 1} /\ Total(p) = a + b /\ Total(p) \in Nat
      /\ (Split(p) <=> a # 0) /\ (Split(p) <=> w = 1)
  BY Sizes DEF Plan
<1>2. k \in Nat /\ k - 1 \in 1..Total(p) BY <1>1
<1>3. /\ x = <<x[1], x[2]>> /\ x[1] \in DOMAIN vkqueue /\ x[2] \in 1..Len(vkqueue[x[1]])
      /\ Len(vkqueue[x[1]]) \in Nat
  BY Kinds
<1>4. Item(x) = Command(p, k) BY <1>1, <1>3, PlaceItem
<1>5. ASSUME y = <<x[1], x[2] - 1>>, x[2] > 1, Orders(Command(p, k - 1), Command(p, k))
      PROVE  y \in done
  <2>1. y[1] = x[1] /\ y[2] = x[2] - 1 BY <1>5
  <2>2. y[1] \in DOMAIN vkqueue /\ y[2] <= Len(vkqueue[y[1]]) BY <1>3, <2>1
  <2>3. Item(y) = Command(p, k - 1) BY <1>2, <2>2, PlaceItem
  <2>4. Follows(x, y) BY <1>4, <1>5, <2>3, FollowsIs
  <2>5. x[2] - 1 \in 1 .. x[2] - 1 BY <1>3, <1>5
  <2> QED BY <1>5, <2>4, <2>5 DEF Ready
<1>6. CASE k <= a
  <2>1. x = <<FirstQueue(p), k>> BY <1>6 DEF Place
  <2>2. k - 1 <= a BY <1>1, <1>2, <1>6
  <2>3. y = <<FirstQueue(p), k - 1>> BY <2>2 DEF Place
  <2>4. Command(p, k) = p.copied[k] /\ Command(p, k - 1) = p.copied[k - 1]
    BY <1>6, <2>2 DEF Command
  <2>5. k \in DOMAIN p.copied
    <3>1. DOMAIN p.copied = 1..a BY SeqIs DEF Plan, PlanTypes, Copies
    <3> QED BY <1>1, <1>2, <1>6, <3>1
  <2>6. Orders(p.copied[k - 1], p.copied[k]) BY <2>5 DEF Plan, PlanOrdered
  <2>7. x[1] = FirstQueue(p) /\ x[2] = k BY <2>1
  <2> HIDE DEF x, y
  <2>8. y \in done BY <1>5, <2>3, <2>4, <2>6, <2>7
  <2> QED BY <2>8 DEF y
<1>7. CASE k = a + 1
  <2>1. a # 0 /\ w = 1 /\ Split(p) BY <1>1, <1>7
  <2>2. w + k - a = 2
    <3> HIDE DEF a, w
    <3> QED BY <1>1, <1>7, <2>1
  <2>3. ~(k <= a) BY <1>1, <1>7
  <2>4. x = <<LastQueue(p), 2>> BY <2>2, <2>3 DEF Place
  <2>5. Command(p, k) = p.commands[1]
    <3>1. k - a = 1 BY <1>1, <1>7
    <3> QED BY <2>3, <3>1 DEF Command
  <2>6. HeadOf(p, LastQueue(p)) = LastHead(p)
    <3>1. p.commands # <<>> BY <2>1 DEF Plan, PlanTypes, Split
    <3> QED BY <3>1 DEF HeadOf
  <2>7. Len(LastHead(p)) >= 1
    <3>1. Len(LastHead(p)) = w + b + (IF p.targets = {} THEN 0 ELSE 1) BY Sizes DEF Plan
    <3> QED BY <1>1, <2>1, <3>1
  <2>8. LastHead(p)[1] = Awaited(p.type, p.wait) BY <2>1, Heads DEF Plan
  <2>9. vkqueue[LastQueue(p)][1] = LastHead(p)[1]
    <3>1. LastQueue(p) \in DOMAIN vkqueue /\ 1 \in 1..Len(vkqueue[LastQueue(p)]) BY <1>3, <2>4
    <3>2. Begun(p, LastQueue(p), vkqueue[LastQueue(p)]) BY <3>1 DEF Contents
    <3> QED BY <2>6, <2>7, <3>1, <3>2 DEF Begun
  <2> DEFINE z == <<LastQueue(p), 1>>
  <2>10. Item(z) = Awaited(p.type, p.wait) BY <2>8, <2>9 DEF Item
  <2>11. Orders(Item(z), Item(x)) BY <1>4, <2>1, <2>5, <2>10 DEF Plan, PlanOrdered
  <2>12. Follows(x, z) BY <2>11, FollowsIs
  <2>13. z \in done
    <3>1. 1 \in 1 .. x[2] - 1 /\ z = <<x[1], 1>> BY <2>4
    <3> QED BY <2>12, <3>1 DEF Ready
  <2>14. p.type \in signals BY <2>10, <2>13 DEF Closed, Awaited
  <2>15. a \in 1..a /\ k - 1 = a BY <1>1, <1>7, <2>1
  <2>16. Place(p, a) \in done BY <2>1, <2>14, <2>15, FirstSignal
  <2> QED BY <2>15, <2>16
<1>8. CASE k > a + 1
  <2>1. ~(k <= a) /\ ~(k - 1 <= a) /\ k - a \in 1..b /\ k - a > 1 BY <1>1, <1>2, <1>8
  <2>2. x = <<LastQueue(p), w + k - a>> BY <2>1 DEF Place
  <2>3. y = <<LastQueue(p), w + (k - 1) - a>> BY <2>1 DEF Place
  <2>4. Command(p, k) = p.commands[k - a] /\ Command(p, k - 1) = p.commands[k - a - 1]
    <3>1. (k - 1) - a = k - a - 1 BY <1>1, <1>2
    <3> QED BY <2>1, <3>1 DEF Command
  <2>5. k - a \in DOMAIN p.commands
    <3>1. DOMAIN p.commands = 1..b BY SeqIs DEF Plan, PlanTypes, Commands
    <3> QED BY <2>1, <3>1
  <2>6. Orders(p.commands[k - a - 1], p.commands[k - a]) BY <2>1, <2>5 DEF Plan, PlanOrdered
  <2>7. w + (k - 1) - a = (w + k - a) - 1 /\ w + k - a > 1
    <3> HIDE DEF a, w
    <3> QED BY <1>1, <1>2, <2>1
  <2>8. x[1] = LastQueue(p) /\ x[2] = w + k - a BY <2>2
  <2>9. y = <<x[1], x[2] - 1>> /\ x[2] > 1 BY <2>3, <2>7, <2>8
  <2> QED BY <1>5, <2>4, <2>6, <2>9
<1>9. k <= a \/ k = a + 1 \/ k > a + 1 BY <1>1, <1>2
<1> QED BY <1>6, <1>7, <1>8, <1>9

(* A use is ready only after all of them.                                  *)
LEMMA ReadyUse ==
  ASSUME NEW p, Plan(p), Contents(p), Closed, NEW x \in Items, Ready(x),
         ~(x[2] <= Len(HeadOf(p, x[1]))), Rest(p, x[1], vkqueue[x[1]], x[2]),
         Item(x).op # "wait"
  PROVE  /\ Total(p) = 0 \/ (Total(p) \in 1..Total(p) /\ Place(p, Total(p)) \in done)
         /\ \E t \in p.users : \E stage : p.queues[t] = x[1] /\ Item(x) = UseOf(p, stage)
<1> DEFINE a == Copies(p)
           b == Commands(p)
           w == Len(Before(p))
           q == x[1]
           s == vkqueue[q]
<1>1. /\ a \in Nat /\ b \in Nat /\ w \in {0, 1} /\ Total(p) = a + b /\ Total(p) \in Nat
      /\ (p.commands # <<>> <=> b # 0) /\ (Split(p) <=> a # 0)
      /\ Len(LastHead(p)) = w + b + (IF p.targets = {} THEN 0 ELSE 1)
  BY Sizes DEF Plan
<1>2. /\ x = <<x[1], x[2]>> /\ x[1] \in DOMAIN vkqueue /\ x[2] \in 1..Len(vkqueue[x[1]])
      /\ Len(vkqueue[x[1]]) \in Nat /\ Item(x) = s[x[2]]
  BY Kinds
<1>20. PICK t \in p.users : \E stage \in UseStages(p, t) :
         /\ p.queues[t] = q /\ s[x[2]] = UseOf(p, stage)
         /\ \/ p.commands = <<>>
            \/ q = LastQueue(p) /\ Orders(p.commands[Commands(p)], UseOf(p, stage))
            \/ \E j \in 1 .. x[2] - 1 :
                 s[j].op = "wait" /\ s[j].semaphore \in p.targets /\ stage \in s[j].dst
  BY <1>2 DEF Rest
<1>3. PICK stage \in UseStages(p, t) :
         /\ p.queues[t] = q /\ s[x[2]] = UseOf(p, stage)
         /\ \/ p.commands = <<>>
            \/ q = LastQueue(p) /\ Orders(p.commands[Commands(p)], UseOf(p, stage))
            \/ \E j \in 1 .. x[2] - 1 :
                 s[j].op = "wait" /\ s[j].semaphore \in p.targets /\ stage \in s[j].dst
  BY <1>20
<1>4. CASE p.commands = <<>>
  <2>1. ~Split(p) BY <1>4 DEF Plan, PlanTypes, Split
  <2>2. Total(p) = 0 BY <1>1, <1>4, <2>1
  <2> QED BY <1>2, <1>3, <2>2
<1>5. CASE p.commands # <<>> /\ q = LastQueue(p) /\ Orders(p.commands[b], UseOf(p, stage))
  <2>1. HeadOf(p, q) = LastHead(p) BY <1>5 DEF HeadOf
  <2>2. Total(p) \in 1..Total(p) /\ ~(Total(p) <= a) /\ b \in Nat \ {0} BY <1>1, <1>5
  <2>3. Place(p, Total(p)) = <<q, w + b>>
    <3>1. w + (a + b) - a = w + b
      <4> HIDE DEF a, b, w
      <4> QED BY <1>1
    <3> QED BY <1>1, <1>5, <2>2, <3>1 DEF Place
  <2>4. w + b \in 1 .. x[2] - 1 /\ w + b <= Len(s)
    <3>1. ~(x[2] <= w + b + (IF p.targets = {} THEN 0 ELSE 1)) BY <1>1, <2>1
    <3> HIDE DEF w, b, s, q
    <3>2. x[2] \in Nat /\ x[2] <= Len(s) /\ Len(s) \in Nat BY <1>2 DEF s, q
    <3> QED BY <1>1, <2>2, <3>1, <3>2
  <2>5. Item(Place(p, Total(p))) = Command(p, Total(p)) BY <1>2, <2>2, <2>3, <2>4, PlaceItem
  <2>6. Command(p, Total(p)) = p.commands[b]
    <3>1. (a + b) - a = b BY <1>1
    <3> QED BY <1>1, <2>2, <3>1 DEF Command
  <2>7. Follows(x, <<q, w + b>>) BY <1>2, <1>3, <1>5, <2>3, <2>5, <2>6, FollowsIs
  <2>8. <<q, w + b>> \in done BY <2>4, <2>7 DEF Ready
  <2> QED BY <1>2, <1>3, <2>2, <2>3, <2>8
<1>6. CASE \E j \in 1 .. x[2] - 1 :
             s[j].op = "wait" /\ s[j].semaphore \in p.targets /\ stage \in s[j].dst
  <2>1. PICK j \in 1 .. x[2] - 1 :
           s[j].op = "wait" /\ s[j].semaphore \in p.targets /\ stage \in s[j].dst
    BY <1>6
  <2>2. Item(<<q, j>>) = s[j] BY DEF Item
  <2>3. Item(x).op = "access" /\ Item(x).stage = stage BY <1>2, <1>3 DEF UseOf, Access
  <2>4. Orders(s[j], Item(x)) BY <2>1, <2>3 DEF Orders
  <2>5. Follows(x, <<q, j>>) BY <2>2, <2>4, FollowsIs
  <2>6. <<q, j>> \in done BY <2>5 DEF Ready
  <2>7. s[j].semaphore \in signals BY <2>1, <2>2, <2>6 DEF Closed
  <2> QED BY <1>2, <1>3, <2>1, <2>7, TargetSignal
<1> QED BY <1>3, <1>4, <1>5, <1>6

(* What is ready is sound, and the resource is then as it is planned.      *)
LEMMA ReadySound ==
  ASSUME NEW p, Plan(p), Contents(p), Closed, Progress(p), NEW x \in Items, Ready(x)
  PROVE  /\ Sound(x)
         /\ \E k \in 0..Total(p) :
              /\ \A j \in 1..Total(p) : Place(p, j) \in done \cup {x} <=> j <= k
              /\ k < Total(p) => Effect(x) = p.states[k]
              /\ k = Total(p) => Final(p, Effect(x))
<1>0. Total(p) \in Nat BY Sizes DEF Plan
<1>1. PICK n \in 0..Total(p) :
         /\ \A j \in 1..Total(p) : Place(p, j) \in done <=> j <= n
         /\ n < Total(p) => resource = p.states[n]
         /\ n = Total(p) => Final(p, resource)
  BY DEF Progress
<1>2. p.request = request /\ p.sharing = Sharing(request) BY DEF Contents
<1>3. /\ Sound(x) <=> SoundIn(p, Item(x), x[1][1], resource)
      /\ Effect(x) = EffectIn(p, Item(x), x[1][1], resource)
  BY <1>2, SoundIs, EffectIs
<1>4. x \notin done BY DEF Ready
<1>5. CASE \E k \in 1..Total(p) :
             x = Place(p, k) /\ Item(x) = Command(p, k) /\ x[1][1] = Executor(p, k)
  <2>1. PICK k \in 1..Total(p) :
           x = Place(p, k) /\ Item(x) = Command(p, k) /\ x[1][1] = Executor(p, k)
    BY <1>5
  <2>2. ~ (k <= n) BY <1>1, <1>4, <2>1
  <2>3. k > 1 => k - 1 <= n
    <3>1. SUFFICES ASSUME k > 1 PROVE k - 1 <= n OBVIOUS
    <3>2. Place(p, k - 1) \in done BY <2>1, <3>1, ReadyCommand
    <3>3. k - 1 \in 1..Total(p) BY <1>0, <3>1
    <3> QED BY <1>1, <3>2, <3>3
  <2>4. n = k - 1 /\ k = n + 1 /\ n \in 0 .. Total(p) - 1 /\ n < Total(p) BY <1>0, <1>1, <2>2, <2>3
  <2>5. resource = p.states[n] BY <1>1, <2>4
  <2>6. /\ SoundIn(p, Command(p, n + 1), Executor(p, n + 1), p.states[n])
        /\ EffectIn(p, Command(p, n + 1), Executor(p, n + 1), p.states[n]) = p.states[n + 1]
        /\ Final(p, p.states[Total(p)])
    BY <2>4 DEF Plan, PlanSound
  <2>7. Sound(x) /\ Effect(x) = p.states[k] BY <1>3, <2>1, <2>4, <2>5, <2>6
  <2>8. ASSUME NEW j \in 1..Total(p) PROVE Place(p, j) \in done \cup {x} <=> j <= k
    <3>1. Place(p, j) = x <=> j = k BY <2>1, PlacesDiffer DEF Plan
    <3>2. Place(p, j) \in done <=> j <= n BY <1>1
    <3>3. j <= k <=> j <= n \/ j = k BY <1>0, <1>1, <2>4
    <3> QED BY <3>1, <3>2, <3>3
  <2>9. k \in 0..Total(p) BY <1>0
  <2>10. k = Total(p) => Final(p, Effect(x)) BY <2>6, <2>7
  <2> QED BY <2>7, <2>8, <2>9, <2>10
<1>6. ASSUME ~ \E k \in 1..Total(p) : x = Place(p, k)
      PROVE  \A j \in 1..Total(p) : Place(p, j) \in done \cup {x} <=> j <= n
  BY <1>1, <1>6
<1>7. CASE Item(x).op \in {"wait", "signal"}
  <2>1. Sound(x) BY <1>3, <1>7 DEF SoundIn
  <2>2. Effect(x) = resource BY <1>3, <1>7 DEF EffectIn
  <2>3. ASSUME NEW k \in 1..Total(p), x = Place(p, k) PROVE FALSE
    <3>1. /\ x[1] \in DOMAIN vkqueue /\ x[2] \in 1..Len(vkqueue[x[1]])
          /\ Len(vkqueue[x[1]]) \in Nat
      BY Kinds
    <3>2. x[2] <= Len(vkqueue[x[1]]) BY <3>1
    <3>3. Item(x) = Command(p, k) BY <2>3, <3>1, <3>2, PlaceItem
    <3>4. Command(p, k).op \in {"access", "barrier"} BY PlaceIs DEF Plan
    <3> QED BY <1>7, <3>3, <3>4
  <2> QED BY <1>1, <1>6, <2>1, <2>2, <2>3
<1>8. CASE /\ ~ (x[2] <= Len(HeadOf(p, x[1]))) /\ Rest(p, x[1], vkqueue[x[1]], x[2])
           /\ Item(x).op # "wait"
  <2>1. Total(p) = 0 \/ (Total(p) \in 1..Total(p) /\ Place(p, Total(p)) \in done)
    BY <1>8, ReadyUse
  <2>2. PICK t \in p.users : \E stage : p.queues[t] = x[1] /\ Item(x) = UseOf(p, stage)
    BY <1>8, ReadyUse
  <2>3. PICK stage : p.queues[t] = x[1] /\ Item(x) = UseOf(p, stage) BY <2>2
  <2>4. n = Total(p)
    <3>1. CASE Total(p) = 0 BY <1>1, <3>1
    <3>2. CASE Total(p) \in 1..Total(p) /\ Place(p, Total(p)) \in done
      <4>1. Total(p) <= n BY <1>1, <3>2
      <4> QED BY <1>0, <1>1, <4>1
    <3> QED BY <2>1, <3>1, <3>2
  <2>5. Final(p, resource) BY <1>1, <2>4
  <2>6. /\ SoundIn(p, Item(x), x[1][1], resource)
        /\ Final(p, EffectIn(p, Item(x), x[1][1], resource))
    BY <2>3, <2>5, UseKeeps DEF Plan
  <2>7. Sound(x) /\ Final(p, Effect(x)) BY <1>3, <2>6
  <2>8. ASSUME NEW k \in 1..Total(p), x = Place(p, k) PROVE FALSE
    <3>1. Place(p, k)[2] \in 1..Len(HeadOf(p, Place(p, k)[1])) BY PlaceIs DEF Plan
    <3>2. Len(HeadOf(p, Place(p, k)[1])) \in Nat BY Sizes DEF Plan
    <3>3. Place(p, k)[2] <= Len(HeadOf(p, Place(p, k)[1])) BY <3>1, <3>2
    <3> QED BY <1>8, <2>8, <3>3
  <2>9. ~ (n < Total(p)) BY <1>0, <2>4
  <2> QED BY <1>1, <1>6, <2>7, <2>8, <2>9
<1>9. /\ Awaited(p.type, p.wait).op = "wait" /\ Signalled({p.type}).op = "signal"
      /\ Signalled(p.targets).op = "signal"
  BY DEF Awaited, Signalled
<1> QED BY <1>5, <1>7, <1>8, <1>9, Kinds

(* What the GPU executes keeps to the plan.                                *)
LEMMA ExecuteKeeps ==
  ASSUME NEW p, Plan(p), Contents(p), Closed, Progress(p), Execute
  PROVE  Contents(p)' /\ Closed' /\ Progress(p)'
<1>1. PICK x \in Items :
         /\ Ready(x) /\ done' = done \cup {x} /\ resource' = Effect(x)
         /\ signals' = IF Item(x).op = "signal" THEN signals \cup Item(x).semaphores ELSE signals
  BY DEF Execute
<1>2. UNCHANGED <<gpu, queues, request, vkqueue>> BY DEF Execute
<1>3. Contents(p)'
  <2>1. Sharing(request)' = Sharing(request) BY <1>2 DEF Sharing, Physical, PhysicalOn, Family, Concurrent
  <2> QED BY <1>2, <2>1 DEF Contents
<1>4. Progress(p)' BY <1>1, ReadySound DEF Progress
<1>5. /\ Items' = Items /\ \A y : Item(y)' = Item(y)
      /\ \A y, z : Follows(y, z)' <=> Follows(y, z)
  BY <1>2 DEF Items, Item, Follows
<1>6. Closed'
  <2>1. done' \subseteq Items' BY <1>1, <1>5 DEF Closed
  <2>2. ASSUME NEW y \in done', NEW i \in 1 .. y[2] - 1, Follows(y, <<y[1], i>>)
        PROVE  <<y[1], i>> \in done'
    BY <1>1, <2>2 DEF Closed, Ready
  <2>3. ASSUME NEW y \in done', Item(y).op = "wait" PROVE Item(y).semaphore \in signals'
    BY <1>1, <2>3 DEF Closed, Ready
  <2>4. ASSUME NEW n \in signals'
        PROVE  \E y \in done' : Item(y).op = "signal" /\ n \in Item(y).semaphores
    <3>1. CASE n \in signals BY <1>1, <3>1 DEF Closed
    <3>2. CASE n \notin signals BY <1>1, <3>2
    <3> QED BY <3>1, <3>2
  <2> QED BY <1>5, <2>1, <2>2, <2>3, <2>4 DEF Closed
<1> QED BY <1>3, <1>4, <1>6

\* Every queue goes on from where it was.
Extends(old, new) ==
    /\ DOMAIN new = DOMAIN old
    /\ \A q \in DOMAIN old : \A i \in DOMAIN old[q] : i \in DOMAIN new[q] /\ new[q][i] = old[q][i]
Grows == Extends(vkqueue, vkqueue')

(* What is submitted changes nothing about what was executed.              *)
LEMMA GrowKeeps ==
  ASSUME NEW p, Plan(p), Contents(p), Closed, Progress(p), Grows,
         UNCHANGED <<done, signals, resource>>
  PROVE  Closed' /\ Progress(p)'
<1>1. Progress(p)' BY DEF Progress
<1>2. ASSUME NEW x \in Items
      PROVE  /\ x \in Items' /\ Item(x)' = Item(x)
             /\ \A i \in 1 .. x[2] - 1 :
                  Follows(x, <<x[1], i>>)' <=> Follows(x, <<x[1], i>>)
  <2>1. /\ x = <<x[1], x[2]>> /\ x[1] \in DOMAIN vkqueue /\ x[2] \in 1..Len(vkqueue[x[1]])
        /\ Len(vkqueue[x[1]]) \in Nat
    BY Kinds
  <2>2. DOMAIN vkqueue[x[1]] = 1..Len(vkqueue[x[1]]) BY <2>1, SeqIs DEF Contents, Begun
  <2>3. x \in Items' BY <2>1, <2>2 DEF Grows, Extends, Items
  <2>4. Item(x)' = Item(x) BY <2>1, <2>2 DEF Grows, Extends, Item
  <2>5. ASSUME NEW i \in 1 .. x[2] - 1
        PROVE  Follows(x, <<x[1], i>>)' <=> Follows(x, <<x[1], i>>)
    <3>1. i \in DOMAIN vkqueue[x[1]] BY <2>1, <2>2
    <3>2. Item(<<x[1], i>>)' = Item(<<x[1], i>>) BY <2>1, <3>1 DEF Grows, Extends, Item
    <3> QED BY <2>4, <3>2 DEF Follows
  <2> QED BY <2>3, <2>4, <2>5
<1>3. \A x \in done : x \in Items BY DEF Closed
<1>4. Closed' BY <1>2, <1>3 DEF Closed
<1> QED BY <1>1, <1>4

-----------------------------------------------------------------------------
(* What is submitted.                                                      *)

\* What t has submitted once the resource is created, and what it waits for.
UsesOf(p, t, u) ==
    /\ IsSeq(u)
    /\ \A i \in 1..Len(u) : t \in p.users /\ \E stage \in UseStages(p, t) : u[i] = UseOf(p, stage)
WaitsOf(p, t, w) ==
    /\ IsSeq(w)
    /\ \A i \in 1..Len(w) : t \in p.targets /\ w[i] = Awaited(t, p.dst[t])
\* The wait of t is in the queue.
HasWait(p, t, s) ==
    \E i \in 1..Len(s) : s[i].op = "wait" /\ s[i].semaphore \in p.targets /\ s[i].dst = p.dst[t]

\* Everything that a queue begins with was submitted to it.
Loaded(p, q, s) == Begun(p, q, s) /\ Len(HeadOf(p, q)) <= Len(s)

(* The sets of sequences are never looked into.                            *)
LEMMA NothingIs ==
  ASSUME NEW p, NEW t
  PROVE  UsesOf(p, t, <<>>) /\ WaitsOf(p, t, <<>>)
BY EmptyIsSeq DEF UsesOf, WaitsOf

(* What a queue begins with was submitted to it.                           *)
LEMMA HeadIsSeq ==
  ASSUME NEW p, PlanTypes(p), NEW q
  PROVE  IsSeq(HeadOf(p, q)) /\ Loaded(p, q, HeadOf(p, q))
<1>1. IsSeq(HeadOf(p, q)) BY Heads, EmptyIsSeq DEF HeadOf
<1>2. Len(HeadOf(p, q)) \in Nat BY <1>1, SeqIs
<1>3. Begun(p, q, HeadOf(p, q)) BY <1>1, <1>2 DEF Begun
<1> QED BY <1>1, <1>2, <1>3 DEF Loaded

(* A prefix of what the queue begins with.                                 *)
LEMMA PrefixFilled ==
  ASSUME NEW p, PlanTypes(p), NEW q, NEW s, IsSeq(s), Len(s) <= Len(HeadOf(p, q)),
         \A i \in 1..Len(s) : s[i] = HeadOf(p, q)[i]
  PROVE  Begun(p, q, s)
<1>1. Len(s) \in Nat /\ Len(HeadOf(p, q)) \in Nat BY SeqIs, HeadIsSeq
<1>2. \A i \in 1..Len(s) : i <= Len(HeadOf(p, q)) BY <1>1
<1> QED BY <1>2 DEF Begun

(* A type's waits and uses go after what is in its queue.                  *)
LEMMA AppendLine ==
  ASSUME NEW p, Plan(p), NEW t \in Types, NEW s, Loaded(p, p.queues[t], s),
         NEW w, NEW u, WaitsOf(p, t, w), UsesOf(p, t, u),
         u # <<>> /\ t \in p.targets => HasWait(p, t, s) \/ w # <<>>
  PROVE  /\ Loaded(p, p.queues[t], s \o (w \o u))
         /\ w # <<>> => HasWait(p, t, s \o (w \o u))
         /\ \A v : HasWait(p, v, s) => HasWait(p, v, s \o (w \o u))
<1> DEFINE q == p.queues[t]
           r == w \o u
           z == s \o r
           h == HeadOf(p, q)
<1>1. IsSeq(s) /\ IsSeq(w) /\ IsSeq(u) BY DEF Loaded, Begun, WaitsOf, UsesOf
<1>2. Len(s) \in Nat /\ Len(w) \in Nat /\ Len(u) \in Nat /\ Len(h) \in Nat
      /\ (w = <<>> <=> Len(w) = 0) /\ (u = <<>> <=> Len(u) = 0)
  BY <1>1, SeqIs, HeadIsSeq DEF Plan
<1>3. /\ IsSeq(r) /\ Len(r) = Len(w) + Len(u)
      /\ \A i \in 1..Len(w) : r[i] = w[i]
      /\ \A i \in 1..(Len(w) + Len(u)) :
           \/ i \in 1..Len(w) /\ r[i] = w[i]
           \/ i - Len(w) \in 1..Len(u) /\ r[i] = u[i - Len(w)]
  BY <1>1, ConcatIs
<1> HIDE DEF r
<1>4. /\ IsSeq(z) /\ Len(z) = Len(s) + Len(r)
      /\ \A i \in 1..Len(s) : z[i] = s[i]
      /\ \A i \in 1..Len(r) : z[Len(s) + i] = r[i]
      /\ \A i \in 1..(Len(s) + Len(r)) :
           \/ i \in 1..Len(s) /\ z[i] = s[i]
           \/ i - Len(s) \in 1..Len(r) /\ z[i] = r[i - Len(s)]
  <2>1. IsSeq(s) /\ IsSeq(r) BY <1>1, <1>3
  <2> QED BY ONLY <2>1, ConcatIs
<1> HIDE DEF z
<1>5. Begun(p, q, s) /\ Len(h) <= Len(s) BY DEF Loaded
<1>6. ASSUME NEW i \in 1..Len(s)
      PROVE  IF i <= Len(h) THEN z[i] = h[i] ELSE Rest(p, q, z, i)
  <2>1. CASE i <= Len(h) BY <1>4, <1>5, <2>1 DEF Begun
  <2>2. CASE ~ (i <= Len(h))
    <3>1. Rest(p, q, s, i) BY <1>5, <2>2 DEF Begun
    <3>2. z[i] = s[i] /\ \A j \in 1 .. i - 1 : z[j] = s[j]
      <4>1. \A j \in 1 .. i - 1 : j \in 1..Len(s) BY <1>2
      <4> QED BY <1>4, <4>1
    <3>3. Rest(p, q, z, i) BY <3>1, <3>2 DEF Rest
    <3> QED BY <2>2, <3>3
  <2> QED BY <2>1, <2>2
<1>7. w # <<>> =>
        /\ Len(s) + 1 \in 1..Len(z) /\ Len(w) >= 1
        /\ z[Len(s) + 1].op = "wait" /\ z[Len(s) + 1].semaphore \in p.targets
        /\ z[Len(s) + 1].dst = p.dst[t]
  <2> SUFFICES ASSUME w # <<>>
               PROVE  /\ Len(s) + 1 \in 1..Len(z) /\ Len(w) >= 1
                      /\ z[Len(s) + 1].op = "wait" /\ z[Len(s) + 1].semaphore \in p.targets
                      /\ z[Len(s) + 1].dst = p.dst[t]
    OBVIOUS
  <2>1. 1 \in 1..Len(w) /\ Len(w) >= 1 BY <1>2
  <2>2. 1 \in 1..Len(r) /\ Len(s) + 1 \in 1..Len(z) BY <1>2, <1>3, <1>4, <2>1
  <2>3. z[Len(s) + 1] = w[1] BY <1>3, <1>4, <2>1, <2>2
  <2>4. t \in p.targets /\ w[1] = Awaited(t, p.dst[t]) BY <2>1 DEF WaitsOf
  <2> QED BY <2>1, <2>2, <2>3, <2>4 DEF Awaited
<1>8. ASSUME NEW n \in 1..Len(r) PROVE Rest(p, q, z, Len(s) + n)
  <2> DEFINE i == Len(s) + n
  <2>1. z[i] = r[n] BY <1>4
  <2>2. CASE n \in 1..Len(w) /\ r[n] = w[n]
    <3>1. t \in p.targets /\ w[n] = Awaited(t, p.dst[t]) BY <2>2 DEF WaitsOf
    <3> QED BY <2>1, <2>2, <3>1 DEF Rest, Awaited
  <2>3. CASE n - Len(w) \in 1..Len(u) /\ r[n] = u[n - Len(w)]
    <3>1. t \in p.users /\ \E stage \in UseStages(p, t) : u[n - Len(w)] = UseOf(p, stage)
      BY <2>3 DEF UsesOf
    <3>2. PICK stage \in UseStages(p, t) : z[i] = UseOf(p, stage) BY <2>1, <2>3, <3>1
    <3>3. Covered(p, t, stage) BY <3>1 DEF Plan, PlanCovers
    <3>4. CASE p.commands = <<>> BY <3>1, <3>2, <3>4 DEF Rest
    <3>5. CASE /\ p.queues[t] = p.queues[p.type]
               /\ Orders(p.commands[Commands(p)], UseOf(p, stage))
      BY <3>1, <3>2, <3>5 DEF Rest, LastQueue
    <3>6. CASE t \in p.targets /\ stage \in p.dst[t]
      <4>1. u # <<>> BY <1>2, <2>3
      <4>2. CASE HasWait(p, t, s)
        <5>1. PICK j \in 1..Len(s) :
                 s[j].op = "wait" /\ s[j].semaphore \in p.targets /\ s[j].dst = p.dst[t]
          BY <4>2 DEF HasWait
        <5>2. z[j] = s[j] /\ j \in 1 .. i - 1 BY <1>2, <1>4
        <5>3. z[j].op = "wait" /\ z[j].semaphore \in p.targets /\ stage \in z[j].dst
          BY <3>6, <5>1, <5>2
        <5> QED BY <3>1, <3>2, <5>2, <5>3 DEF Rest
      <4>3. CASE w # <<>>
        <5>1. Len(s) + 1 \in 1 .. i - 1 BY <1>2, <1>7, <2>3, <4>3
        <5>2. z[Len(s) + 1].op = "wait" /\ z[Len(s) + 1].semaphore \in p.targets
              /\ stage \in z[Len(s) + 1].dst
          BY <1>7, <3>6, <4>3
        <5> QED BY <3>1, <3>2, <5>1, <5>2 DEF Rest
      <4> QED BY <3>6, <4>1, <4>2, <4>3
    <3> QED BY <3>3, <3>4, <3>5, <3>6 DEF Covered
  <2> QED BY <1>3, <2>2, <2>3
<1>9. ASSUME NEW i \in 1..Len(z)
      PROVE  IF i <= Len(h) THEN z[i] = h[i] ELSE Rest(p, q, z, i)
  <2>1. CASE i \in 1..Len(s) BY <1>6, <2>1
  <2>2. CASE i - Len(s) \in 1..Len(r)
    <3>1. Rest(p, q, z, Len(s) + (i - Len(s))) BY <1>8, <2>2
    <3>2. Len(s) + (i - Len(s)) = i /\ ~ (i <= Len(h)) BY <1>2, <1>5, <2>2
    <3> QED BY <3>1, <3>2
  <2> QED BY <1>4, <2>1, <2>2
<1>10. Loaded(p, q, z)
  <2>1. Len(r) \in Nat BY <1>3, SeqIs
  <2>2. Len(h) <= Len(z) BY <1>2, <1>4, <1>5, <2>1
  <2> QED BY <1>4, <1>9, <2>2 DEF Loaded, Begun
<1>11. w # <<>> => HasWait(p, t, z) BY <1>7 DEF HasWait
<1>12. ASSUME NEW v, HasWait(p, v, s) PROVE HasWait(p, v, z)
  <2>1. PICK j \in 1..Len(s) :
           s[j].op = "wait" /\ s[j].semaphore \in p.targets /\ s[j].dst = p.dst[v]
    BY <1>12 DEF HasWait
  <2>2. Len(r) \in Nat BY <1>3, SeqIs
  <2>3. z[j] = s[j] /\ j \in 1..Len(z) BY <1>2, <1>4, <2>2
  <2> QED BY <2>1, <2>3 DEF HasWait
<1> QED BY <1>10, <1>11, <1>12 DEF z, r

\* The VkQueues after what SubmitQueue appends to them.
Sent(vk, qs, ws, types, pending, type, signal) ==
    LET sent(t, q) == IF t \in types /\ qs[t] = q THEN ws[t] \o pending[t] ELSE <<>>
    IN  [q \in DOMAIN vk |->
           vk[q] \o sent("transfer", q)
             \o (IF type = "transfer" THEN <<>> ELSE sent(type, q))
             \o (IF qs[type] = q THEN signal ELSE <<>>)]

\* Everything is a sequence.
Sendable(vk, ws, pending, type, signal) ==
    /\ type \in Types /\ IsSeq(signal) /\ \A q \in DOMAIN vk : IsSeq(vk[q])
    /\ \A t \in Types : IsSeq(ws[t]) /\ IsSeq(pending[t])

(* What SubmitQueue makes of the queues, by the types it submits for.      *)
LEMMA SentIs ==
  ASSUME NEW vk, NEW qs, NEW ws, NEW types, NEW pending, NEW type, NEW signal,
         Sendable(vk, ws, pending, type, signal)
  PROVE  /\ Extends(vk, Sent(vk, qs, ws, types, pending, type, signal))
         /\ \A q \in DOMAIN vk :
              /\ types = {} /\ signal = <<>> =>
                   Sent(vk, qs, ws, types, pending, type, signal)[q] = vk[q]
              /\ types = {type} =>
                   Sent(vk, qs, ws, types, pending, type, signal)[q]
                     = IF q = qs[type] THEN (vk[q] \o (ws[type] \o pending[type])) \o signal
                       ELSE vk[q]
              /\ types = {"transfer", type} /\ type # "transfer" /\ signal = <<>> =>
                   LET s == IF q = qs["transfer"]
                            THEN vk[q] \o (ws["transfer"] \o pending["transfer"]) ELSE vk[q]
                   IN  Sent(vk, qs, ws, types, pending, type, signal)[q]
                         = IF q = qs[type] THEN s \o (ws[type] \o pending[type]) ELSE s
<1>0. /\ type \in Types /\ IsSeq(signal) /\ \A q \in DOMAIN vk : IsSeq(vk[q])
      /\ \A t \in Types : IsSeq(ws[t]) /\ IsSeq(pending[t])
  BY DEF Sendable
<1> DEFINE A(q) == IF "transfer" \in types /\ qs["transfer"] = q
                   THEN ws["transfer"] \o pending["transfer"] ELSE <<>>
           B(q) == IF type = "transfer" THEN <<>>
                   ELSE IF type \in types /\ qs[type] = q
                        THEN ws[type] \o pending[type] ELSE <<>>
           C(q) == IF qs[type] = q THEN signal ELSE <<>>
<1> DEFINE new == Sent(vk, qs, ws, types, pending, type, signal)
<1>1. new = [q \in DOMAIN vk |-> vk[q] \o A(q) \o B(q) \o C(q)]
  BY DEF Sent
<1> HIDE DEF new
<1>3. "transfer" \in Types BY DEF Types
<1>4. /\ IsSeq(ws["transfer"] \o pending["transfer"]) /\ IsSeq(ws[type] \o pending[type])
  <2>1. /\ IsSeq(ws["transfer"]) /\ IsSeq(pending["transfer"])
        /\ IsSeq(ws[type]) /\ IsSeq(pending[type])
    BY <1>0, <1>3
  <2> QED BY <2>1, ConcatIs
<1>5. \A q : IsSeq(A(q)) /\ IsSeq(B(q)) /\ IsSeq(C(q))
  BY <1>0, <1>4, EmptyIsSeq
<1>6. ASSUME NEW q \in DOMAIN vk
      PROVE  /\ IsSeq(vk[q] \o A(q)) /\ IsSeq(vk[q] \o A(q) \o B(q))
             /\ \A i \in DOMAIN vk[q] : /\ i \in DOMAIN (vk[q] \o A(q) \o B(q) \o C(q))
                                             /\ (vk[q] \o A(q) \o B(q) \o C(q))[i] = vk[q][i]
  <2> DEFINE a == A(q)
             b == B(q)
             c == C(q)
             v == vk[q]
  <2>1. IsSeq(v) /\ IsSeq(a) /\ IsSeq(b) /\ IsSeq(c) BY <1>0, <1>5, <1>6
  <2> HIDE DEF a, b, c, v
  <2>2. /\ Len(v) \in Nat /\ Len(a) \in Nat /\ Len(b) \in Nat /\ Len(c) \in Nat
        /\ DOMAIN v = 1..Len(v)
    BY <2>1, SeqIs
  <2>3. /\ IsSeq(v \o a) /\ Len(v \o a) = Len(v) + Len(a)
        /\ \A i \in 1..Len(v) : (v \o a)[i] = v[i]
    BY <2>1, ConcatIs
  <2> DEFINE va == v \o a
  <2>4. IsSeq(va) BY <2>3
  <2> HIDE DEF va
  <2>5. /\ IsSeq(va \o b) /\ Len(va \o b) = Len(va) + Len(b)
        /\ \A i \in 1..Len(va) : (va \o b)[i] = va[i]
    BY <2>1, <2>4, ConcatIs
  <2> DEFINE vab == va \o b
  <2>6. IsSeq(vab) BY <2>5
  <2> HIDE DEF vab
  <2>7. /\ DOMAIN (vab \o c) = 1..(Len(vab) + Len(c))
        /\ \A i \in 1..Len(vab) : (vab \o c)[i] = vab[i]
    BY <2>1, <2>6, ConcatIs
  <2>8. Len(va) = Len(v) + Len(a) /\ Len(vab) = Len(va) + Len(b) BY <2>3, <2>5 DEF va, vab
  <2>9. ASSUME NEW i \in DOMAIN v
        PROVE  i \in DOMAIN (vab \o c) /\ (vab \o c)[i] = v[i]
    <3>1. i \in 1..Len(v) /\ i \in 1..Len(va) /\ i \in 1..Len(vab) BY <2>2, <2>8, <2>9
    <3>2. i \in 1..(Len(vab) + Len(c)) BY <2>2, <2>8, <3>1
    <3>3. (vab \o c)[i] = vab[i] BY <2>7, <3>1
    <3>4. vab[i] = va[i] BY <2>5, <3>1 DEF vab
    <3>5. va[i] = v[i] BY <2>3, <3>1 DEF va
    <3> QED BY <2>7, <3>2, <3>3, <3>4, <3>5
  <2> QED BY <2>4, <2>6, <2>9 DEF vab, va, v, a, b, c
<1>7. Extends(vk, new) BY <1>1, <1>6 DEF Extends
<1>9. ASSUME NEW q \in DOMAIN vk
      PROVE  \A s : IsSeq(s) => s \o <<>> = s
  BY SeqIs
<1>10. ASSUME types = {}, signal = <<>> PROVE \A q \in DOMAIN vk : new[q] = vk[q]
  <2>1. ASSUME NEW q \in DOMAIN vk PROVE vk[q] \o A(q) \o B(q) \o C(q) = vk[q]
    <3>1. A(q) = <<>> /\ B(q) = <<>> /\ C(q) = <<>> BY <1>10
    <3>2. vk[q] \o <<>> = vk[q] BY <1>0, SeqIs
    <3> HIDE DEF A, B, C
    <3> QED BY <3>1, <3>2
  <2> HIDE DEF A, B, C
  <2> QED BY <1>1, <2>1
<1>11. ASSUME types = {type}
       PROVE  \A q \in DOMAIN vk :
                new[q] = IF q = qs[type] THEN (vk[q] \o (ws[type] \o pending[type])) \o signal
                         ELSE vk[q]
  <2>1. ASSUME NEW q \in DOMAIN vk
        PROVE  vk[q] \o A(q) \o B(q) \o C(q)
                 = IF q = qs[type]
                   THEN (vk[q] \o (ws[type] \o pending[type])) \o signal
                   ELSE vk[q]
    <3> DEFINE l == ws[type] \o pending[type]
    <3>1. q = qs[type] /\ type = "transfer" => A(q) = l /\ B(q) = <<>> /\ C(q) = signal
      BY <1>11
    <3>2. q = qs[type] /\ type # "transfer" => A(q) = <<>> /\ B(q) = l /\ C(q) = signal
      BY <1>11
    <3>3. q # qs[type] => A(q) = <<>> /\ B(q) = <<>> /\ C(q) = <<>> BY <1>11
    <3>4. vk[q] \o <<>> = vk[q] BY <1>0, SeqIs
    <3>5. (vk[q] \o l) \o <<>> = vk[q] \o l
      <4>1. IsSeq(vk[q] \o l)
        <5>1. IsSeq(vk[q]) /\ IsSeq(l) BY <1>0, <1>4
        <5> HIDE DEF l
        <5> QED BY <5>1, ConcatIs
      <4> QED BY <4>1, SeqIs
    <3> HIDE DEF A, B, C, l
    <3>6. vk[q] \o A(q) \o B(q) \o C(q)
            = IF q = qs[type] THEN (vk[q] \o l) \o signal ELSE vk[q]
      <4>1. CASE q = qs[type] /\ type = "transfer" BY <3>1, <3>5, <4>1
      <4>2. CASE q = qs[type] /\ type # "transfer" BY <3>2, <3>4, <4>2
      <4>3. CASE q # qs[type] BY <3>3, <3>4, <4>3
      <4> QED BY <4>1, <4>2, <4>3
    <3> QED BY <3>6 DEF l
  <2> HIDE DEF A, B, C
  <2> QED BY <1>1, <2>1
<1>12. ASSUME types = {"transfer", type}, type # "transfer", signal = <<>>, NEW q \in DOMAIN vk
       PROVE  LET s == IF q = qs["transfer"]
                       THEN vk[q] \o (ws["transfer"] \o pending["transfer"])
                       ELSE vk[q]
              IN  new[q] = IF q = qs[type] THEN s \o (ws[type] \o pending[type]) ELSE s
  <2> DEFINE l == ws["transfer"] \o pending["transfer"]
             m == ws[type] \o pending[type]
             s == IF q = qs["transfer"] THEN vk[q] \o l ELSE vk[q]
  <2>1. /\ A(q) = IF q = qs["transfer"] THEN l ELSE <<>>
        /\ B(q) = IF q = qs[type] THEN m ELSE <<>>
        /\ C(q) = <<>>
    BY <1>12
  <2>2. vk[q] \o <<>> = vk[q] BY <1>0, SeqIs
  <2>3. IsSeq(vk[q] \o A(q)) /\ IsSeq(vk[q] \o A(q) \o B(q)) BY <1>6
  <2>4. /\ (vk[q] \o A(q)) \o <<>> = vk[q] \o A(q)
        /\ (vk[q] \o A(q) \o B(q)) \o <<>> = vk[q] \o A(q) \o B(q)
    BY <2>3, SeqIs
  <2>5. new[q] = vk[q] \o A(q) \o B(q) \o C(q) BY <1>1
  <2> HIDE DEF A, B, C, l, m
  <2>6. vk[q] \o A(q) = s BY <2>1, <2>2
  <2>7. new[q] = IF q = qs[type] THEN s \o m ELSE s BY <2>1, <2>4, <2>5, <2>6
  <2> QED BY <2>7 DEF l, m
<1> HIDE DEF A, B, C
<1> QED BY <1>7, <1>10, <1>11, <1>12 DEF new

(* For no type, one of them, and transfers and another.                    *)
LEMMA SentNothing ==
  ASSUME NEW vk, NEW qs, NEW ws, NEW pending, NEW type, Sendable(vk, ws, pending, type, <<>>)
  PROVE  /\ Extends(vk, Sent(vk, qs, ws, {}, pending, type, <<>>))
         /\ \A q \in DOMAIN vk : Sent(vk, qs, ws, {}, pending, type, <<>>)[q] = vk[q]
BY SentIs

\* The line of the type, and the signal, were appended to its queue.
OneSent(vk, qs, ws, pending, type, signal, new) ==
    /\ Extends(vk, new)
    /\ \A q \in DOMAIN vk :
         new[q] = IF q = qs[type] THEN (vk[q] \o (ws[type] \o pending[type])) \o signal
                  ELSE vk[q]

(* For one type, its waits and its commands go to its queue.               *)
LEMMA SentOne ==
  ASSUME NEW vk, NEW qs, NEW ws, NEW pending, NEW type, NEW signal,
         Sendable(vk, ws, pending, type, signal)
  PROVE  OneSent(vk, qs, ws, pending, type, signal, Sent(vk, qs, ws, {type}, pending, type, signal))
BY SentIs DEF OneSent

\* The line of transfers was appended, and then that of the type.
TwoSent(vk, qs, ws, pending, type, new) ==
    /\ Extends(vk, new)
    /\ \A q \in DOMAIN vk :
         LET s == IF q = qs["transfer"]
                  THEN vk[q] \o (ws["transfer"] \o pending["transfer"]) ELSE vk[q]
         IN  new[q] = IF q = qs[type] THEN s \o (ws[type] \o pending[type]) ELSE s

(* For transfers and another type, in that order.                          *)
LEMMA SentTwo ==
  ASSUME NEW vk, NEW qs, NEW ws, NEW pending, NEW type, type # "transfer",
         Sendable(vk, ws, pending, type, <<>>)
  PROVE  TwoSent(vk, qs, ws, pending, type,
                 Sent(vk, qs, ws, {"transfer", type}, pending, type, <<>>))
BY SentIs DEF TwoSent

(* Which of the types it submits for.                                      *)
LEMMA FlushedIs ==
  ASSUME NEW type \in Types, NEW pending
  PROVE  /\ type = "transfer" \/ pending["transfer"] = <<>> => Flushed(type, pending, TRUE) = {type}
         /\ Flushed(type, pending, TRUE) \in {{type}, {"transfer", type}}
         /\ pending["transfer"] = <<>> /\ pending[type] = <<>> => Flushed(type, pending, FALSE) = {}
BY DEF Flushed

-----------------------------------------------------------------------------
(* How far CreateBuffer and CreateImage have got.                          *)

\* Nothing for any type, and the queues of the device.
None == [t \in Types |-> <<>>]
Queues(p) == {p.queues[t] : t \in Types}

\* What is in the first queue and in that of the type; nothing is in others.
QueuesOf(p, first, last) ==
    [q \in Queues(p) |-> IF q = LastQueue(p) THEN last
                         ELSE IF Split(p) /\ q = FirstQueue(p) THEN first ELSE <<>>]
QueuesAre(p, first, last) == vkqueue = QueuesOf(p, first, last)

\* The type waits for the copies, or its queue does.
Held(p) ==
    \/ QueuesAre(p, FirstHead(p), <<>>) /\ waits = [t \in Types |-> IF t = p.type THEN Before(p) ELSE <<>>]
    \/ QueuesAre(p, FirstHead(p), Before(p)) /\ waits = None

\* Nothing was submitted; the copies were; the type waits for them.
Opening(p) ==
    /\ Split(p) /\ QueuesAre(p, <<>>, <<>>) /\ waits = None /\ submissions = None
    /\ \E w : /\ WaitCalls(p, w)
              /\ script = <<FirstCall(p)>> \o (<<FirstWait(p)>> \o (<<LastCall(p)>> \o w))
Copied(p) ==
    /\ Split(p) /\ QueuesAre(p, FirstHead(p), <<>>) /\ waits = None /\ submissions = None
    /\ \E w : WaitCalls(p, w) /\ script = <<FirstWait(p)>> \o (<<LastCall(p)>> \o w)
Waiting(p) ==
    /\ p.commands # <<>> /\ Held(p) /\ submissions = None
    /\ \E w : WaitCalls(p, w) /\ script = <<LastCall(p)>> \o w

\* The commands of the type are submitted and not flushed.
Pending(p) ==
    /\ p.commands # <<>> /\ p.targets = {} /\ script = <<>> /\ Held(p)
    /\ DOMAIN submissions = Types
    /\ \E u : UsesOf(p, p.type, u) /\ submissions[p.type] = p.commands \o u
    /\ \A t \in Types \ {p.type} :
         /\ UsesOf(p, t, submissions[t])
         /\ p.type # "transfer" => submissions[t] = <<>>

\* Everything is in the queues but for the waits of the targets, and the uses.
Landed(p) ==
    /\ DOMAIN vkqueue = Queues(p) /\ \A q \in Queues(p) : Loaded(p, q, vkqueue[q])
    /\ DOMAIN submissions = Types
    /\ \A t \in Types : WaitsOf(p, t, waits[t]) /\ UsesOf(p, t, submissions[t])
    /\ IsSeq(script) /\ \A i \in 1..Len(script) : \E t \in p.targets : script[i] = WaitCall(p, t)
    /\ \A t \in p.targets :
         \/ \E i \in 1..Len(script) : script[i] = WaitCall(p, t)
         \/ waits[t] # <<>> \/ HasWait(p, t, vkqueue[p.queues[t]])
    /\ script # <<>> => \A t \in Types : submissions[t] = <<>>

\* One of these.
Phases(p) == Opening(p) \/ Copied(p) \/ Waiting(p) \/ Pending(p) \/ Landed(p)

\* What p is a plan of.
PlanOf(p) ==
    /\ queues = p.queues /\ request = p.request /\ Sharing(request) = p.sharing
    /\ Usable => \A t \in Types : OwnedBy(request, t) => t \in p.users

(* The queues of the types are among those of the device.                  *)
LEMMA QueuesOfTypes ==
  ASSUME NEW p, PlanTypes(p)
  PROVE  /\ FirstQueue(p) \in Queues(p) /\ LastQueue(p) \in Queues(p)
         /\ \A t \in Types : p.queues[t] \in Queues(p)
BY DEF PlanTypes, Queues, FirstQueue, LastQueue

(* What the queues begin with, as far as it was submitted.                 *)
LEMMA QueuesAreFilled ==
  ASSUME NEW p, Plan(p), p.commands # <<>>, NEW first \in {<<>>, FirstHead(p)},
         NEW last \in {<<>>, Before(p)}, QueuesAre(p, first, last)
  PROVE  /\ DOMAIN vkqueue = Queues(p)
         /\ \A q \in Queues(p) : Begun(p, q, vkqueue[q]) /\ IsSeq(vkqueue[q])
<1>1. DOMAIN vkqueue = Queues(p) BY DEF QueuesAre, QueuesOf
<1>2. \A q \in Queues(p) : Len(HeadOf(p, q)) \in Nat BY Sizes DEF Plan
<1>3. \A q \in Queues(p) : Begun(p, q, <<>>)
  <2>1. ASSUME NEW q \in Queues(p) PROVE Len(<<>>) <= Len(HeadOf(p, q))
    BY <1>2, EmptyIsSeq
  <2> QED BY <2>1, EmptyIsSeq, PrefixFilled DEF Plan
<1>4. IsSeq(FirstHead(p)) /\ IsSeq(Before(p)) /\ IsSeq(<<>>) BY Heads, EmptyIsSeq DEF Plan
<1>5. Begun(p, LastQueue(p), Before(p))
  <2>1. HeadOf(p, LastQueue(p)) = LastHead(p) BY DEF HeadOf
  <2>2. CASE Split(p)
    <3>1. Len(Before(p)) = 1 /\ Before(p)[1] = LastHead(p)[1] BY <2>2, Heads DEF Plan
    <3>2. Len(LastHead(p)) = Len(Before(p)) + Commands(p) + (IF p.targets = {} THEN 0 ELSE 1)
          /\ Commands(p) \in Nat
      BY Sizes DEF Plan
    <3>3. Len(Before(p)) <= Len(LastHead(p)) BY <3>1, <3>2
    <3>4. \A i \in 1..Len(Before(p)) : Before(p)[i] = LastHead(p)[i] BY <3>1
    <3> QED BY <1>4, <2>1, <3>3, <3>4, PrefixFilled DEF Plan
  <2>3. CASE ~Split(p)
    <3>1. Before(p) = <<>> BY <2>3 DEF Before
    <3> QED BY <1>3, <3>1, QueuesOfTypes DEF Plan
  <2> QED BY <2>2, <2>3
<1>6. Split(p) /\ FirstQueue(p) # LastQueue(p) => Begun(p, FirstQueue(p), FirstHead(p))
  <2>1. SUFFICES ASSUME Split(p), FirstQueue(p) # LastQueue(p)
                 PROVE  Begun(p, FirstQueue(p), FirstHead(p))
    OBVIOUS
  <2>2. HeadOf(p, FirstQueue(p)) = FirstHead(p) BY <2>1 DEF HeadOf
  <2> QED BY <2>2, HeadIsSeq DEF Plan, Loaded
<1>7. ASSUME NEW q \in Queues(p) PROVE Begun(p, q, vkqueue[q]) /\ IsSeq(vkqueue[q])
  <2>1. CASE q = LastQueue(p) BY <1>3, <1>4, <1>5, <2>1 DEF QueuesAre, QueuesOf
  <2>2. CASE q # LastQueue(p) /\ Split(p) /\ q = FirstQueue(p)
    BY <1>3, <1>4, <1>6, <2>2 DEF QueuesAre, QueuesOf
  <2>3. CASE q # LastQueue(p) /\ ~ (Split(p) /\ q = FirstQueue(p))
    BY <1>3, <1>4, <2>3 DEF QueuesAre, QueuesOf
  <2> QED BY <2>1, <2>2, <2>3
<1> QED BY <1>1, <1>7

(* In every phase the queues keep to the plan; the waits and submissions   *)
(* of the types are sequences.                                             *)
LEMMA HeldIs ==
  ASSUME NEW p, Plan(p), p.commands # <<>>, Held(p)
  PROVE  /\ DOMAIN vkqueue = Queues(p)
         /\ \A q \in Queues(p) : Begun(p, q, vkqueue[q]) /\ IsSeq(vkqueue[q])
         /\ \A t \in Types : IsSeq(waits[t])
<1>1. IsSeq(Before(p)) /\ IsSeq(<<>>) BY Heads, EmptyIsSeq DEF Plan
<1>2. \A t \in Types : IsSeq(waits[t]) BY <1>1 DEF Held, None
<1>3. CASE QueuesAre(p, FirstHead(p), <<>>) BY <1>2, <1>3, QueuesAreFilled
<1>4. CASE QueuesAre(p, FirstHead(p), Before(p)) BY <1>2, <1>4, QueuesAreFilled
<1> QED BY <1>3, <1>4 DEF Held

(* In every phase the queues begin as they are planned to.                 *)
LEMMA PhasesFilled ==
  ASSUME NEW p, Plan(p), Phases(p)
  PROVE  /\ DOMAIN vkqueue = Queues(p)
         /\ \A q \in Queues(p) : Begun(p, q, vkqueue[q]) /\ IsSeq(vkqueue[q])
         /\ \A t \in Types : IsSeq(waits[t]) /\ IsSeq(submissions[t])
         /\ DOMAIN submissions = Types
<1>1. Split(p) => p.commands # <<>> BY DEF Split, Plan, PlanTypes
<1>2. DOMAIN None = Types /\ \A t \in Types : None[t] = <<>> BY DEF None
<1>3. CASE Opening(p) BY <1>1, <1>2, <1>3, QueuesAreFilled, EmptyIsSeq DEF Opening
<1>4. CASE Copied(p) BY <1>1, <1>2, <1>4, QueuesAreFilled, EmptyIsSeq DEF Copied
<1>5. CASE Waiting(p) BY <1>2, <1>5, HeldIs, EmptyIsSeq DEF Waiting
<1>6. CASE Pending(p)
  <2>1. PICK u : UsesOf(p, p.type, u) /\ submissions[p.type] = p.commands \o u
    BY <1>6 DEF Pending
  <2>2. IsSeq(p.commands) /\ IsSeq(u) BY <2>1 DEF UsesOf, Plan, PlanTypes
  <2>3. IsSeq(submissions[p.type]) BY <2>1, <2>2, ConcatIs
  <2>4. \A t \in Types \ {p.type} : IsSeq(submissions[t]) BY <1>6 DEF Pending, UsesOf
  <2> QED BY <1>6, <2>3, <2>4, HeldIs DEF Pending
<1>7. CASE Landed(p) BY <1>7 DEF Landed, Loaded, Begun, WaitsOf, UsesOf
<1> QED BY <1>3, <1>4, <1>5, <1>6, <1>7 DEF Phases

(* So what the queues hold is as planned.                                  *)
LEMMA PhasesContents ==
  ASSUME NEW p, Plan(p), PlanOf(p), Phases(p)
  PROVE  Contents(p)
BY PhasesFilled DEF Contents, PlanOf, Queues

(* The next call.                                                          *)
LEMMA NextCall ==
  ASSUME NEW c, NEW w, IsSeq(w), script = <<c>> \o w, Step
  PROVE  /\ script' = w
         /\ c.call = "submit" => SubmitCommands(c.type, c.commands, c.semaphores)
         /\ c.call = "wait" => AddWaitSemaphore(c.type, c.semaphore, c.stages)
<1>1. Tail(<<c>> \o w) = w /\ Head(<<c>> \o w) = c BY SingleIs
<1>2. script' = w BY <1>1 DEF Step
<1>3. \/ c.call = "submit" /\ SubmitCommands(c.type, c.commands, c.semaphores)
      \/ c.call = "wait" /\ AddWaitSemaphore(c.type, c.semaphore, c.stages)
  BY <1>1 DEF Step
<1> QED BY <1>2, <1>3

\* p is planned, and being carried out.
Ongoing(p) == Plan(p) /\ PlanOf(p) /\ Phases(p)

(* What the steps need to know of a plan that is carried out.              *)
LEMMA OngoingIs ==
  ASSUME NEW p, Ongoing(p)
  PROVE  /\ Plan(p) /\ PlanTypes(p) /\ queues = p.queues /\ DOMAIN vkqueue = Queues(p)
         /\ \A q \in DOMAIN vkqueue : IsSeq(vkqueue[q])
         /\ \A t \in Types : IsSeq(waits[t]) /\ IsSeq(submissions[t])
         /\ DOMAIN submissions = Types
         /\ p.type \in Types /\ p.first \in Types /\ "transfer" \in Types
         /\ IsSeq(p.commands) /\ IsSeq(p.copied)
         /\ p.commands \o <<>> = p.commands /\ <<>> \o p.commands = p.commands
         /\ <<>> \o p.copied = p.copied /\ <<>> \o <<>> = <<>>
<1>1. /\ DOMAIN vkqueue = Queues(p)
      /\ \A q \in DOMAIN vkqueue : IsSeq(vkqueue[q])
      /\ \A t \in Types : IsSeq(waits[t]) /\ IsSeq(submissions[t])
      /\ DOMAIN submissions = Types
  BY PhasesFilled DEF Ongoing
<1>2. Plan(p) /\ PlanTypes(p) /\ queues = p.queues BY DEF Ongoing, Plan, PlanOf
<1>3. IsSeq(p.commands) /\ IsSeq(p.copied) BY <1>2 DEF PlanTypes
<1>4. /\ p.commands \o <<>> = p.commands /\ <<>> \o p.commands = p.commands
      /\ <<>> \o p.copied = p.copied /\ <<>> \o <<>> = <<>>
  BY <1>3, SeqIs, EmptyIsSeq
<1> QED BY <1>1, <1>2, <1>3, <1>4 DEF PlanTypes, Types

(* The copies are submitted to the first queue.                            *)
LEMMA OpeningStep ==
  ASSUME NEW p, Ongoing(p), Opening(p), Step
  PROVE  Copied(p)' /\ Grows
<1>1. PICK w : /\ WaitCalls(p, w)
               /\ script = <<FirstCall(p)>> \o (<<FirstWait(p)>> \o (<<LastCall(p)>> \o w))
  BY DEF Opening
<1> DEFINE l == <<LastCall(p)>> \o w
           r == <<FirstWait(p)>> \o l
           c == FirstCall(p)
<1>2. IsSeq(w) BY <1>1 DEF WaitCalls
<1>3. IsSeq(l)
  <2>1. IsSeq(<<LastCall(p)>>) BY SingleIs
  <2> QED BY <1>2, <2>1, ConcatIs
<1> HIDE DEF l
<1>4. IsSeq(r)
  <2>1. IsSeq(<<FirstWait(p)>>) BY SingleIs
  <2> QED BY <1>3, <2>1, ConcatIs
<1>5. script = <<c>> \o r BY <1>1 DEF l
<1> HIDE DEF r
<1>6. /\ c.call = "submit" /\ c.type = p.first /\ c.commands = p.copied
      /\ c.semaphores = {p.type}
  BY DEF FirstCall
<1> HIDE DEF c
<1>7. script' = r /\ SubmitCommands(p.first, p.copied, {p.type}) BY <1>4, <1>5, <1>6, NextCall
<1> DEFINE pending == [submissions EXCEPT ![p.first] = @ \o p.copied]
           signal == <<[op |-> "signal", semaphores |-> {p.type}]>>
<1>8. pending = [t \in Types |-> IF t = p.first THEN p.copied ELSE <<>>]
  BY OngoingIs DEF Opening, None
<1>9. /\ Send(Flushed(p.first, pending, TRUE), pending, p.first, signal)
      /\ waits' = [t \in Types |-> Unsent(Flushed(p.first, pending, TRUE), t)]
  BY <1>7 DEF SubmitCommands
<1> HIDE DEF pending
<1>10. Flushed(p.first, pending, TRUE) = {p.first} BY <1>8, FlushedIs, OngoingIs
<1>11. /\ vkqueue' = Sent(vkqueue, queues, waits, {p.first}, pending, p.first, signal)
       /\ submissions' = [t \in Types |-> IF t \in {p.first} THEN <<>> ELSE pending[t]]
  BY <1>9, <1>10 DEF Send, Sent
<1>12. IsSeq(signal) BY SingleIs
<1>13. signal = <<Signalled({p.type})>> BY DEF Signalled
<1> HIDE DEF signal
<1>14. \A t \in Types : IsSeq(waits[t]) /\ IsSeq(pending[t]) BY <1>8, OngoingIs, EmptyIsSeq
<1>15. /\ Grows
       /\ submissions' = [t \in Types |-> IF t \in {p.first} THEN <<>> ELSE pending[t]]
       /\ vkqueue' = [q \in DOMAIN vkqueue |->
                            IF q = queues[p.first]
                            THEN (vkqueue[q] \o (waits[p.first] \o pending[p.first])) \o signal
                            ELSE vkqueue[q]]
  <2>1. Sendable(vkqueue, waits, pending, p.first, signal) BY <1>12, <1>14, OngoingIs DEF Sendable
  <2> DEFINE new == Sent(vkqueue, queues, waits, {p.first}, pending, p.first, signal)
  <2>2. OneSent(vkqueue, queues, waits, pending, p.first, signal, new) BY <2>1, SentOne
  <2>3. new = [q \in DOMAIN vkqueue |-> new[q]] BY DEF Sent
  <2> HIDE DEF new
  <2>4. new = [q \in DOMAIN vkqueue |->
                 IF q = queues[p.first]
                 THEN (vkqueue[q] \o (waits[p.first] \o pending[p.first])) \o signal
                 ELSE vkqueue[q]]
    BY <2>2, <2>3 DEF OneSent
  <2> QED BY <1>11, <2>2, <2>4 DEF Grows, OneSent, new
<1>16. submissions' = None BY <1>8, <1>15 DEF None
<1>17. waits' = None BY <1>9 DEF None, Opening, Unsent
<1>18. QueuesAre(p, FirstHead(p), <<>>)'
  <2>1. /\ waits[p.first] = <<>> /\ pending[p.first] = p.copied
        /\ \A q \in DOMAIN vkqueue : vkqueue[q] = <<>>
    BY <1>8, OngoingIs DEF Opening, None, QueuesAre, QueuesOf
  <2>2. ASSUME NEW q \in DOMAIN vkqueue
        PROVE  vkqueue[q] \o (waits[p.first] \o pending[p.first]) = p.copied
    BY <2>1, OngoingIs
  <2>3. vkqueue' = [q \in DOMAIN vkqueue |->
                      IF q = FirstQueue(p) THEN FirstHead(p) ELSE <<>>]
    BY <1>13, <1>15, <2>1, <2>2, OngoingIs DEF FirstHead, FirstQueue
  <2>4. Split(p) /\ FirstQueue(p) # LastQueue(p)
    BY DEF Opening, Ongoing, Plan, PlanOrdered, FirstQueue, LastQueue
  <2> QED BY <2>3, <2>4, OngoingIs DEF QueuesAre, QueuesOf
<1>19. script' = <<FirstWait(p)>> \o (<<LastCall(p)>> \o w) BY <1>7 DEF r, l
<1> QED BY <1>1, <1>15, <1>16, <1>17, <1>18, <1>19 DEF Copied, Opening

(* The type is made to wait for them.                                      *)
LEMMA CopiedStep ==
  ASSUME NEW p, Ongoing(p), Copied(p), Step
  PROVE  Waiting(p)' /\ Grows
<1>1. PICK w : WaitCalls(p, w) /\ script = <<FirstWait(p)>> \o (<<LastCall(p)>> \o w)
  BY DEF Copied
<1> DEFINE l == <<LastCall(p)>> \o w
           c == FirstWait(p)
<1>2. IsSeq(w) BY <1>1 DEF WaitCalls
<1>3. IsSeq(l)
  <2>1. IsSeq(<<LastCall(p)>>) BY SingleIs
  <2> QED BY <1>2, <2>1, ConcatIs
<1>4. script = <<c>> \o l BY <1>1
<1> HIDE DEF l
<1>5. /\ c.call = "wait" /\ c.type = p.type /\ c.semaphore = p.type /\ c.stages = p.wait
  BY DEF FirstWait
<1> HIDE DEF c
<1>6. script' = l /\ AddWaitSemaphore(p.type, p.type, p.wait) BY <1>3, <1>4, <1>5, NextCall
<1>7. submissions["transfer"] = <<>> /\ submissions[p.type] = <<>> BY OngoingIs DEF Copied, None
<1>8. Flushed(p.type, submissions, FALSE) = {} BY <1>7, FlushedIs, OngoingIs
<1>9. /\ vkqueue' = Sent(vkqueue, queues, waits, {}, submissions, p.type, <<>>)
      /\ submissions' = [t \in Types |-> IF t \in {} THEN <<>> ELSE submissions[t]]
  BY <1>6, <1>8 DEF AddWaitSemaphore, Send, Sent
<1>10. /\ Grows
       /\ submissions' = [t \in Types |-> IF t \in {} THEN <<>> ELSE submissions[t]]
       /\ vkqueue' = [q \in DOMAIN vkqueue |-> vkqueue[q]]
  <2>1. Sendable(vkqueue, waits, submissions, p.type, <<>>) BY OngoingIs, EmptyIsSeq DEF Sendable
  <2> DEFINE new == Sent(vkqueue, queues, waits, {}, submissions, p.type, <<>>)
  <2>2. Extends(vkqueue, new) /\ \A q \in DOMAIN vkqueue : new[q] = vkqueue[q]
    BY <2>1, SentNothing
  <2>3. new = [q \in DOMAIN vkqueue |-> new[q]] BY DEF Sent
  <2> HIDE DEF new
  <2>4. new = [q \in DOMAIN vkqueue |-> vkqueue[q]] BY <2>2, <2>3
  <2> QED BY <1>9, <2>2, <2>4 DEF Grows, new
<1>11. submissions' = None BY <1>10 DEF Copied, None
<1>12. QueuesAre(p, FirstHead(p), <<>>)' BY <1>10 DEF QueuesAre, QueuesOf, Copied
<1>13. waits' = [t \in Types |-> IF t = p.type THEN Before(p) ELSE <<>>]
  <2>1. waits' = [t \in Types |-> Unsent({}, t) \o
                    IF t = p.type THEN <<Awaited(p.type, p.wait)>> ELSE <<>>]
    BY <1>6, <1>8 DEF AddWaitSemaphore, Awaited
  <2>2. <<>> \o <<Awaited(p.type, p.wait)>> = <<Awaited(p.type, p.wait)>> /\ <<>> \o <<>> = <<>>
    BY SingleIs, SeqIs, EmptyIsSeq
  <2>3. \A t \in Types : Unsent({}, t) = <<>> BY DEF Unsent, Copied, None
  <2>4. Before(p) = <<Awaited(p.type, p.wait)>> BY DEF Before, Copied
  <2>5. ASSUME NEW t \in Types
        PROVE  Unsent({}, t) \o (IF t = p.type THEN <<Awaited(p.type, p.wait)>> ELSE <<>>)
                 = IF t = p.type THEN Before(p) ELSE <<>>
    BY <2>2, <2>3, <2>4
  <2> QED BY <2>1, <2>5
<1>14. p.commands # <<>> BY DEF Copied, Ongoing, Plan, PlanTypes, Split
<1>15. script' = <<LastCall(p)>> \o w BY <1>6 DEF l
<1> QED BY <1>1, <1>10, <1>11, <1>12, <1>13, <1>14, <1>15 DEF Waiting, Held

(* What is held back goes to the queue of the type.                        *)
LEMMA HeldLine ==
  ASSUME NEW p, Plan(p), Held(p), p.type \in Types
  PROVE  \E last : /\ QueuesAre(p, FirstHead(p), last)
                   /\ \A r : IsSeq(r) => last \o (waits[p.type] \o r) = Before(p) \o r
<1>1. IsSeq(Before(p)) BY Heads DEF Plan
<1>2. \A r : IsSeq(r) => IsSeq(Before(p) \o r) BY <1>1, ConcatIs
<1>3. \A r : IsSeq(r) => <<>> \o r = r BY SeqIs
<1>4. CASE /\ QueuesAre(p, FirstHead(p), <<>>)
           /\ waits = [t \in Types |-> IF t = p.type THEN Before(p) ELSE <<>>]
  <2>1. waits[p.type] = Before(p) BY <1>4
  <2>2. \A r : IsSeq(r) => <<>> \o (waits[p.type] \o r) = Before(p) \o r BY <1>2, <1>3, <2>1
  <2> QED BY <1>4, <2>2
<1>5. CASE QueuesAre(p, FirstHead(p), Before(p)) /\ waits = None
  <2>1. waits[p.type] = <<>> BY <1>5 DEF None
  <2>2. \A r : IsSeq(r) => Before(p) \o (waits[p.type] \o r) = Before(p) \o r BY <1>3, <2>1
  <2> QED BY <1>5, <2>2
<1> QED BY <1>4, <1>5 DEF Held

\* What the queues are after the line of the type, and a signal.
TypeSent(p, vk, ws, pending, signal, first, last, new) ==
    /\ Extends(vk, new)
    /\ new = QueuesOf(p, first, (last \o (ws[p.type] \o pending[p.type])) \o signal)

(* Submitting for the type leaves the other queues as they are.            *)
LEMMA TypeSends ==
  ASSUME NEW p, PlanTypes(p), NEW vk, NEW ws, NEW pending, NEW signal, NEW first, NEW last,
         Sendable(vk, ws, pending, p.type, signal), vk = QueuesOf(p, first, last)
  PROVE  TypeSent(p, vk, ws, pending, signal, first, last,
                  Sent(vk, p.queues, ws, {p.type}, pending, p.type, signal))
<1> DEFINE new == Sent(vk, p.queues, ws, {p.type}, pending, p.type, signal)
           line == (last \o (ws[p.type] \o pending[p.type])) \o signal
<1>1. OneSent(vk, p.queues, ws, pending, p.type, signal, new) BY SentOne
<1>2. new = [q \in DOMAIN vk |-> new[q]] BY DEF Sent
<1> HIDE DEF new
<1>3. DOMAIN vk = Queues(p) /\ LastQueue(p) \in Queues(p) /\ LastQueue(p) = p.queues[p.type]
  BY QueuesOfTypes DEF QueuesOf, LastQueue
<1>4. \A q \in Queues(p) : new[q] = IF q = LastQueue(p) THEN line ELSE vk[q]
  BY <1>1, <1>3 DEF OneSent, QueuesOf
<1> HIDE DEF line
<1>5. new = QueuesOf(p, first, line) BY <1>2, <1>3, <1>4 DEF QueuesOf
<1> QED BY <1>1, <1>5 DEF OneSent, TypeSent, new, line

(* Its queue is made to wait before it submits anything else.              *)
LEMMA WaitingSubmit ==
  ASSUME NEW p, Ongoing(p), Waiting(p), NEW t \in Types, SubmitOther(t)
  PROVE  Waiting(p)' /\ Grows
<1>1. \A u \in Types : submissions[u] = <<>> BY DEF Waiting, None
<1>2. waits[t] # <<>> BY <1>1 DEF SubmitOther
<1>3. /\ t = p.type /\ QueuesAre(p, FirstHead(p), <<>>)
      /\ waits = [u \in Types |-> IF u = p.type THEN Before(p) ELSE <<>>]
  BY <1>2 DEF Waiting, Held, None
<1>4. Flushed(p.type, submissions, TRUE) = {p.type} BY <1>1, FlushedIs, OngoingIs
<1>5. /\ vkqueue' = Sent(vkqueue, p.queues, waits, {p.type}, submissions, p.type, <<>>)
      /\ submissions' = [u \in Types |-> IF u \in {p.type} THEN <<>> ELSE submissions[u]]
      /\ waits' = [u \in Types |-> Unsent({p.type}, u)]
      /\ script' = script
  BY <1>3, <1>4, OngoingIs DEF SubmitOther, Send, Sent
<1>6. Sendable(vkqueue, waits, submissions, p.type, <<>>) BY OngoingIs, EmptyIsSeq DEF Sendable
<1> DEFINE line == (<<>> \o (waits[p.type] \o submissions[p.type])) \o <<>>
<1>7. Grows /\ vkqueue' = QueuesOf(p, FirstHead(p), line)
  <2>1. vkqueue = QueuesOf(p, FirstHead(p), <<>>) /\ PlanTypes(p) BY <1>3, OngoingIs DEF QueuesAre
  <2>2. TypeSent(p, vkqueue, waits, submissions, <<>>, FirstHead(p), <<>>, vkqueue')
    BY <1>5, <1>6, <2>1, TypeSends
  <2> QED BY <2>2 DEF TypeSent, Grows
<1>8. line = Before(p)
  <2>1. waits[p.type] = Before(p) /\ submissions[p.type] = <<>> BY <1>1, <1>3, OngoingIs
  <2>2. IsSeq(Before(p)) BY Heads, OngoingIs
  <2>3. Before(p) \o <<>> = Before(p) /\ <<>> \o Before(p) = Before(p) BY <2>2, SeqIs
  <2> QED BY <2>1, <2>3
<1>9. QueuesAre(p, FirstHead(p), Before(p))' BY <1>7, <1>8 DEF QueuesAre
<1>10. waits' = None
  <2>1. \A u \in Types : Unsent({p.type}, u) = <<>> BY <1>3 DEF Unsent
  <2> QED BY <1>5, <2>1 DEF None
<1>11. submissions' = None BY <1>1, <1>5 DEF None
<1> QED BY <1>5, <1>7, <1>9, <1>10, <1>11 DEF Waiting, Held

(* Nothing else is submitted before that.                                  *)
LEMMA EarlySubmit ==
  ASSUME NEW p, Opening(p) \/ Copied(p), NEW t \in Types
  PROVE  ~SubmitOther(t)
BY DEF SubmitOther, Opening, Copied, None

(* Once the queues have what they begin with, the targets have to wait.    *)
LEMMA HeadsLanded ==
  ASSUME NEW p, Plan(p), p.commands # <<>>,
         NEW vk, vk = QueuesOf(p, FirstHead(p), LastHead(p))
  PROVE  DOMAIN vk = Queues(p) /\ \A q \in Queues(p) : Loaded(p, q, vk[q])
<1>1. DOMAIN vk = Queues(p) BY DEF QueuesOf
<1>2. \A q \in Queues(p) : vk[q] = HeadOf(p, q) BY DEF QueuesOf, HeadOf
<1>3. \A q : Loaded(p, q, HeadOf(p, q)) BY HeadIsSeq DEF Plan
<1> QED BY <1>1, <1>2, <1>3

(* The commands of the type are submitted, and flushed if others wait.     *)
LEMMA WaitingStep ==
  ASSUME NEW p, Ongoing(p), Waiting(p), Step
  PROVE  (Pending(p)' \/ Landed(p)') /\ Grows
<1>1. PICK w : WaitCalls(p, w) /\ script = <<LastCall(p)>> \o w BY DEF Waiting
<1> DEFINE c == LastCall(p)
<1>2. IsSeq(w) BY <1>1 DEF WaitCalls
<1>3. DOMAIN w = 1..Len(w) /\ Len(w) \in Nat /\ (w = <<>> <=> Len(w) = 0) BY <1>2, SeqIs
<1>4. /\ c.call = "submit" /\ c.type = p.type /\ c.commands = p.commands
      /\ c.semaphores = p.targets
  BY DEF LastCall
<1>5. script = <<c>> \o w BY <1>1
<1> HIDE DEF c
<1>6. script' = w /\ SubmitCommands(p.type, p.commands, p.targets)
  BY <1>2, <1>4, <1>5, NextCall
<1> DEFINE pending == [submissions EXCEPT ![p.type] = @ \o p.commands]
           signal == <<[op |-> "signal", semaphores |-> p.targets]>>
<1>7. pending = [t \in Types |-> IF t = p.type THEN p.commands ELSE <<>>]
  BY OngoingIs DEF Waiting, None
<1>8. \A t \in Types : IsSeq(waits[t]) /\ IsSeq(pending[t]) BY <1>7, OngoingIs, EmptyIsSeq
<1>9. ASSUME p.targets = {} PROVE Pending(p)' /\ Grows
  <2>1. /\ vkqueue' = Sent(vkqueue, queues, waits, {}, pending, p.type, <<>>)
        /\ submissions' = [t \in Types |-> IF t \in {} THEN <<>> ELSE pending[t]]
        /\ waits' = [t \in Types |-> Unsent({}, t)]
    BY <1>6, <1>9 DEF SubmitCommands, Send, Sent
  <2> HIDE DEF pending
  <2>2. Sendable(vkqueue, waits, pending, p.type, <<>>) BY <1>8, OngoingIs, EmptyIsSeq DEF Sendable
  <2>3. Grows /\ \A q \in DOMAIN vkqueue : vkqueue'[q] = vkqueue[q]
    <3> DEFINE new == Sent(vkqueue, queues, waits, {}, pending, p.type, <<>>)
    <3>1. Extends(vkqueue, new) /\ \A q \in DOMAIN vkqueue : new[q] = vkqueue[q]
      BY <2>2, SentNothing
    <3> HIDE DEF new
    <3> QED BY <2>1, <3>1 DEF Grows, new
  <2>4. vkqueue' = vkqueue
    <3>1. vkqueue' = [q \in DOMAIN vkqueue |-> vkqueue'[q]] BY <2>1 DEF Sent
    <3>2. vkqueue = [q \in DOMAIN vkqueue |-> vkqueue[q]]
      BY DEF Waiting, Held, QueuesAre, QueuesOf
    <3> QED BY <2>3, <3>1, <3>2
  <2>5. waits' = waits
    <3>1. \A t \in Types : Unsent({}, t) = waits[t] BY DEF Unsent
    <3>2. waits = [t \in Types |-> waits[t]] BY DEF Waiting, Held, None
    <3> QED BY <2>1, <3>1, <3>2
  <2>6. Held(p)' BY <2>4, <2>5 DEF Waiting, Held, QueuesAre
  <2>7. script' = <<>>
    <3>1. \A i \in 1..Len(w) : FALSE BY <1>1, <1>3, <1>9 DEF WaitCalls
    <3>2. Len(w) = 0 BY <1>3, <3>1
    <3> QED BY <1>3, <1>6, <3>2
  <2>10. DOMAIN submissions' = Types BY <2>1
  <2>8. /\ submissions'[p.type] = p.commands \o <<>> /\ UsesOf(p, p.type, <<>>)
        /\ \A t \in Types \ {p.type} : submissions'[t] = <<>> /\ UsesOf(p, t, <<>>)
    BY <1>7, <2>1, OngoingIs, NothingIs
  <2>9. Pending(p)' BY <1>9, <2>6, <2>7, <2>8, <2>10 DEF Pending, Waiting
  <2> QED BY <2>3, <2>9
<1>10. ASSUME p.targets # {} PROVE Landed(p)' /\ Grows
  <2>1. Flushed(p.type, pending, TRUE) = {p.type} BY <1>7, FlushedIs, OngoingIs
  <2>13. /\ Send(Flushed(p.type, pending, TRUE), pending, p.type, signal)
         /\ waits' = [t \in Types |-> Unsent(Flushed(p.type, pending, TRUE), t)]
    BY <1>6, <1>10 DEF SubmitCommands
  <2> HIDE DEF pending, signal
  <2>2. /\ vkqueue' = Sent(vkqueue, p.queues, waits, {p.type}, pending, p.type, signal)
        /\ submissions' = [t \in Types |-> IF t \in {p.type} THEN <<>> ELSE pending[t]]
        /\ waits' = [t \in Types |-> Unsent({p.type}, t)]
    BY <2>1, <2>13, OngoingIs DEF Send, Sent
  <2>3. signal = <<Signalled(p.targets)>> /\ IsSeq(signal) BY SingleIs DEF Signalled, signal
  <2>4. Sendable(vkqueue, waits, pending, p.type, signal) BY <1>8, <2>3, OngoingIs DEF Sendable
  <2>5. PICK last : /\ QueuesAre(p, FirstHead(p), last)
                    /\ \A r : IsSeq(r) => last \o (waits[p.type] \o r) = Before(p) \o r
    BY HeldLine, OngoingIs DEF Waiting
  <2>6. TypeSent(p, vkqueue, waits, pending, signal, FirstHead(p), last, vkqueue')
    <3>1. vkqueue = QueuesOf(p, FirstHead(p), last) /\ PlanTypes(p) BY <2>5, OngoingIs DEF QueuesAre
    <3> QED BY <2>2, <2>4, <3>1, TypeSends
  <2>7. (last \o (waits[p.type] \o pending[p.type])) \o signal = LastHead(p)
    <3>1. pending[p.type] = p.commands BY <1>7, OngoingIs
    <3>2. last \o (waits[p.type] \o p.commands) = Batch(p) BY <2>5, OngoingIs DEF Batch
    <3> QED BY <1>10, <2>3, <3>1, <3>2 DEF LastHead
  <2>8. Grows /\ vkqueue' = QueuesOf(p, FirstHead(p), LastHead(p))
    BY <2>6, <2>7 DEF TypeSent, Grows
  <2>9. DOMAIN vkqueue' = Queues(p) /\ \A q \in Queues(p) : Loaded(p, q, vkqueue'[q])
    BY <2>8, OngoingIs, HeadsLanded DEF Waiting
  <2>10. \A t \in Types : waits'[t] = <<>> /\ submissions'[t] = <<>>
    <3>1. \A t \in Types : Unsent({p.type}, t) = <<>> BY DEF Unsent, Waiting, Held, None
    <3> QED BY <1>7, <2>2, <3>1
  <2>14. DOMAIN submissions' = Types BY <2>2
  <2>11. \A t \in Types : WaitsOf(p, t, waits'[t]) /\ UsesOf(p, t, submissions'[t])
    BY <2>10, NothingIs
  <2>12. /\ \A i \in 1..Len(w) : \E t \in p.targets : w[i] = WaitCall(p, t)
         /\ \A t \in p.targets : \E i \in 1..Len(w) : w[i] = WaitCall(p, t)
    BY <1>1, <1>3 DEF WaitCalls
  <2> QED BY <1>2, <1>6, <2>8, <2>9, <2>10, <2>11, <2>12, <2>14 DEF Landed
<1> QED BY <1>9, <1>10

(* A target is made to wait.                                               *)
LEMMA LandedStep ==
  ASSUME NEW p, Ongoing(p), Landed(p), Step
  PROVE  Landed(p)' /\ Grows
<1>1. script # <<>> BY DEF Step
<1>2. IsSeq(script) /\ Len(script) \in Nat BY SeqIs DEF Landed
<1>3. Len(script) # 0 BY <1>1, <1>2, SeqIs
<1>4. PICK t \in p.targets : script[1] = WaitCall(p, t)
  <2>1. 1 \in 1..Len(script) BY <1>2, <1>3
  <2> QED BY <2>1 DEF Landed
<1>5. t \in Types BY <1>4 DEF Ongoing, Plan, PlanTypes
<1> DEFINE c == WaitCall(p, t)
<1>6. c.call = "wait" /\ c.type = t /\ c.semaphore = t /\ c.stages = p.dst[t] BY DEF WaitCall
<1>7. Head(script) = c
  <2>1. PICK S : script \in Seq(S) BY <1>2 DEF IsSeq
  <2>2. Head(script) = script[1] BY <1>1, <2>1
  <2> QED BY <1>4, <2>2
<1> HIDE DEF c
<1>8. script' = Tail(script) /\ AddWaitSemaphore(t, t, p.dst[t]) BY <1>6, <1>7 DEF Step
<1>9. \A u \in Types : submissions[u] = <<>> BY <1>1 DEF Landed
<1>10. Flushed(t, submissions, FALSE) = {} BY <1>5, <1>9, FlushedIs, OngoingIs
<1>11. /\ vkqueue' = Sent(vkqueue, queues, waits, {}, submissions, t, <<>>)
       /\ submissions' = [u \in Types |-> IF u \in {} THEN <<>> ELSE submissions[u]]
       /\ waits' = [u \in Types |-> Unsent({}, u) \o
                                     IF u = t THEN <<Awaited(t, p.dst[t])>> ELSE <<>>]
  BY <1>8, <1>10 DEF AddWaitSemaphore, Send, Sent, Awaited
<1>12. Sendable(vkqueue, waits, submissions, t, <<>>) BY <1>5, OngoingIs, EmptyIsSeq DEF Sendable
<1>13. /\ Grows /\ DOMAIN vkqueue' = DOMAIN vkqueue
       /\ \A q \in DOMAIN vkqueue : vkqueue'[q] = vkqueue[q]
  <2> DEFINE new == Sent(vkqueue, queues, waits, {}, submissions, t, <<>>)
  <2>1. Extends(vkqueue, new) /\ \A q \in DOMAIN vkqueue : new[q] = vkqueue[q]
    BY <1>12, SentNothing
  <2> HIDE DEF new
  <2> QED BY <1>11, <2>1 DEF Grows, Extends, new
<1>14. DOMAIN submissions' = Types /\ \A u \in Types : submissions'[u] = <<>> BY <1>9, <1>11
<1>15. ASSUME NEW u \in Types \ {t} PROVE waits'[u] = waits[u]
  <2>1. waits[u] \o <<>> = waits[u] BY OngoingIs, SeqIs
  <2> QED BY <1>11, <2>1 DEF Unsent
<1>16. waits'[t] = waits[t] \o <<Awaited(t, p.dst[t])>> BY <1>5, <1>11 DEF Unsent
<1>17. WaitsOf(p, t, waits'[t]) /\ waits'[t] # <<>>
  <2> DEFINE a == Awaited(t, p.dst[t])
             r == <<a>>
             s == waits[t]
  <2>1. IsSeq(r) /\ Len(r) = 1 /\ r[1] = a BY SingleIs
  <2>2. WaitsOf(p, t, s) /\ IsSeq(s) /\ Len(s) \in Nat
    <3>1. WaitsOf(p, t, s) BY <1>5 DEF Landed
    <3> QED BY <3>1, SeqIs DEF WaitsOf
  <2> HIDE DEF r, s
  <2>3. /\ IsSeq(s \o r) /\ Len(s \o r) = Len(s) + Len(r)
        /\ \A i \in 1..(Len(s) + Len(r)) :
             \/ i \in 1..Len(s) /\ (s \o r)[i] = s[i]
             \/ i - Len(s) \in 1..Len(r) /\ (s \o r)[i] = r[i - Len(s)]
    BY <2>1, <2>2, ConcatIs
  <2>4. ASSUME NEW i \in 1..Len(s \o r) PROVE (s \o r)[i] = a
    <3>1. CASE i \in 1..Len(s) /\ (s \o r)[i] = s[i] BY <2>2, <3>1 DEF WaitsOf
    <3>2. CASE i - Len(s) \in 1..Len(r) /\ (s \o r)[i] = r[i - Len(s)]
      <4>1. i - Len(s) = 1 BY <2>1, <3>2
      <4> QED BY <2>1, <3>2, <4>1
    <3> QED BY <2>3, <3>1, <3>2
  <2>5. WaitsOf(p, t, s \o r) BY <1>4, <2>3, <2>4 DEF WaitsOf
  <2>6. s \o r # <<>>
    <3>1. Len(s \o r) # 0 BY <2>1, <2>2, <2>3
    <3> QED BY <2>3, <3>1, SeqIs
  <2> QED BY <1>16, <2>5, <2>6 DEF s, r
<1>18. \A u \in Types : WaitsOf(p, u, waits'[u]) /\ UsesOf(p, u, submissions'[u])
  BY <1>14, <1>15, <1>17, NothingIs DEF Landed
<1>19. /\ IsSeq(script') /\ Len(script') = Len(script) - 1
       /\ \A i \in 1..Len(script') : script'[i] = script[i + 1]
  <2>1. PICK S : script \in Seq(S) BY <1>2 DEF IsSeq
  <2>2. /\ Tail(script) \in Seq(S) /\ Len(Tail(script)) = Len(script) - 1
        /\ \A i \in 1..Len(Tail(script)) : Tail(script)[i] = script[i + 1]
    BY <1>1, <2>1
  <2> QED BY <1>8, <2>2 DEF IsSeq
<1>20. \A i \in 1..Len(script') : \E u \in p.targets : script'[i] = WaitCall(p, u)
  <2>1. \A i \in 1..Len(script') : i + 1 \in 1..Len(script) BY <1>2, <1>3, <1>19
  <2> QED BY <1>19, <2>1 DEF Landed
<1>21. ASSUME NEW u \in p.targets
       PROVE  \/ \E i \in 1..Len(script') : script'[i] = WaitCall(p, u)
              \/ waits'[u] # <<>> \/ HasWait(p, u, vkqueue'[p.queues[u]])
  <2>1. CASE u = t BY <1>17, <2>1
  <2>2. CASE u # t
    <3>1. u \in Types BY <1>21 DEF Ongoing, Plan, PlanTypes
    <3>2. CASE waits[u] # <<>> BY <1>15, <2>2, <3>1, <3>2
    <3>3. CASE HasWait(p, u, vkqueue[p.queues[u]])
      <4>1. p.queues[u] \in DOMAIN vkqueue BY <3>1, QueuesOfTypes, OngoingIs
      <4> QED BY <1>13, <3>3, <4>1
    <3>4. CASE \E i \in 1..Len(script) : script[i] = WaitCall(p, u)
      <4>1. PICK i \in 1..Len(script) : script[i] = WaitCall(p, u) BY <3>4
      <4>2. WaitCall(p, u).type = u /\ WaitCall(p, t).type = t BY DEF WaitCall
      <4>3. i # 1 BY <1>4, <2>2, <4>1, <4>2
      <4>4. i - 1 \in 1..Len(script') /\ (i - 1) + 1 = i BY <1>2, <1>19, <4>3
      <4>5. script'[i - 1] = script[i] BY <1>19, <4>4
      <4> QED BY <4>1, <4>4, <4>5
    <3> QED BY <3>2, <3>3, <3>4 DEF Landed
  <2> QED BY <2>1, <2>2
<1>22. DOMAIN vkqueue' = Queues(p) /\ \A q \in Queues(p) : Loaded(p, q, vkqueue'[q])
  BY <1>13 DEF Landed
<1> QED BY <1>13, <1>14, <1>18, <1>19, <1>20, <1>21, <1>22 DEF Landed

(* The application has the handle once every call was made, and submits    *)
(* its use to its type.                                                    *)
LEMMA UseIs ==
  ASSUME NEW p, Ongoing(p), NEW t \in Types, Use(t)
  PROVE  /\ Pending(p) \/ Landed(p)
         /\ Grows /\ DOMAIN vkqueue' = DOMAIN vkqueue /\ script = <<>> /\ script' = script
         /\ \A q \in DOMAIN vkqueue : vkqueue'[q] = vkqueue[q]
         /\ vkqueue' = [q \in DOMAIN vkqueue |-> vkqueue'[q]]
         /\ waits' = [u \in Types |-> waits[u]]
         /\ \E c : /\ UsesOf(p, t, <<c>>)
                   /\ submissions' = [u \in Types |-> IF u = t THEN submissions[u] \o <<c>>
                                                      ELSE submissions[u]]
<1>1. script = <<>> /\ Usable /\ OwnedBy(request, t) /\ script' = script BY DEF Use
<1>2. Pending(p) \/ Landed(p)
  <2>1. ASSUME NEW c, NEW w, IsSeq(w) PROVE script # <<c>> \o w BY <1>1, <2>1, SingleIs
  <2>2. \A w : IsSeq(w) => IsSeq(<<LastCall(p)>> \o w)
    <3>1. IsSeq(<<LastCall(p)>>) BY SingleIs
    <3> QED BY <3>1, ConcatIs
  <2>3. ASSUME NEW w, IsSeq(w) PROVE IsSeq(<<FirstWait(p)>> \o (<<LastCall(p)>> \o w))
    <3>1. IsSeq(<<FirstWait(p)>>) BY SingleIs
    <3>2. IsSeq(<<LastCall(p)>> \o w) BY <2>2, <2>3
    <3> QED BY <3>1, <3>2, ConcatIs
  <2>4. ~Opening(p) BY <2>1, <2>3 DEF Opening, WaitCalls
  <2>5. ~Copied(p) BY <2>1, <2>2 DEF Copied, WaitCalls
  <2>6. ~Waiting(p) BY <2>1 DEF Waiting, WaitCalls
  <2> QED BY <2>4, <2>5, <2>6 DEF Ongoing, Phases
<1>3. PICK stage \in request.stages \cap Supported(t) :
         SubmitCommands(t, <<Access(stage, Levels(request), Promised, {}, Promised)>>, {})
  BY DEF Use
<1> DEFINE c == UseOf(p, stage)
           pending == [submissions EXCEPT ![t] = @ \o <<c>>]
<1>4. Access(stage, Levels(request), Promised, {}, Promised) = c
  BY DEF UseOf, Promise, Promised, Ongoing, PlanOf
<1>5. UsesOf(p, t, <<c>>)
  <2>1. t \in p.users /\ stage \in UseStages(p, t) BY <1>1, <1>3 DEF Ongoing, PlanOf, UseStages
  <2> HIDE DEF c
  <2>2. IsSeq(<<c>>) /\ Len(<<c>>) = 1 /\ <<c>>[1] = c BY SingleIs
  <2>3. \A i \in 1..Len(<<c>>) : i = 1 BY <2>2
  <2> QED BY <2>1, <2>2, <2>3 DEF UsesOf, c
<1> HIDE DEF c
<1>6. SubmitCommands(t, <<c>>, {}) BY <1>3, <1>4
<1>7. /\ vkqueue' = Sent(vkqueue, queues, waits, {}, pending, t, <<>>)
      /\ submissions' = [u \in Types |-> IF u \in {} THEN <<>> ELSE pending[u]]
      /\ waits' = [u \in Types |-> Unsent({}, u)]
  BY <1>6 DEF SubmitCommands, Send, Sent
<1>8. pending = [u \in Types |-> IF u = t THEN submissions[u] \o <<c>> ELSE submissions[u]]
  BY OngoingIs
<1> HIDE DEF pending
<1>9. \A u \in Types : IsSeq(pending[u])
  <2>1. IsSeq(submissions[t]) /\ IsSeq(<<c>>) BY OngoingIs, SingleIs
  <2>2. IsSeq(submissions[t] \o <<c>>) BY <2>1, ConcatIs
  <2> QED BY <1>8, <2>2, OngoingIs
<1>10. Sendable(vkqueue, waits, pending, t, <<>>) BY <1>9, OngoingIs, EmptyIsSeq DEF Sendable
<1>11. Grows /\ DOMAIN vkqueue' = DOMAIN vkqueue /\ \A q \in DOMAIN vkqueue : vkqueue'[q] = vkqueue[q]
  <2> DEFINE new == Sent(vkqueue, queues, waits, {}, pending, t, <<>>)
  <2>1. Extends(vkqueue, new) /\ \A q \in DOMAIN vkqueue : new[q] = vkqueue[q]
    BY <1>10, SentNothing
  <2> HIDE DEF new
  <2> QED BY <1>7, <2>1 DEF Grows, Extends, new
<1>12. vkqueue' = [q \in DOMAIN vkqueue |-> vkqueue'[q]] BY <1>7 DEF Sent
<1>13. waits' = [u \in Types |-> waits[u]] BY <1>7 DEF Unsent
<1>14. submissions' = [u \in Types |-> IF u = t THEN submissions[u] \o <<c>> ELSE submissions[u]]
  BY <1>7, <1>8
<1> QED BY <1>1, <1>2, <1>5, <1>11, <1>12, <1>13, <1>14

(* Uses after uses are uses.                                               *)
LEMMA UsesJoin ==
  ASSUME NEW p, NEW t, NEW u, NEW v, UsesOf(p, t, u), UsesOf(p, t, v)
  PROVE  UsesOf(p, t, u \o v)
<1>1. /\ IsSeq(u \o v) /\ Len(u \o v) = Len(u) + Len(v)
      /\ \A i \in 1..(Len(u) + Len(v)) :
           \/ i \in 1..Len(u) /\ (u \o v)[i] = u[i]
           \/ i - Len(u) \in 1..Len(v) /\ (u \o v)[i] = v[i - Len(u)]
  <2>1. IsSeq(u) /\ IsSeq(v) BY DEF UsesOf
  <2> QED BY <2>1, ConcatIs
<1>2. ASSUME NEW i \in 1..Len(u \o v)
      PROVE  t \in p.users /\ \E stage \in UseStages(p, t) : (u \o v)[i] = UseOf(p, stage)
  BY <1>1 DEF UsesOf
<1> QED BY <1>1, <1>2 DEF UsesOf

(* A use while the commands are pending is left pending after them.        *)
LEMMA PendingUse ==
  ASSUME NEW p, Ongoing(p), Pending(p), NEW t \in Types, Use(t)
  PROVE  Pending(p)'
<1>1. PICK c : /\ UsesOf(p, t, <<c>>)
               /\ submissions' = [u \in Types |-> IF u = t THEN submissions[u] \o <<c>>
                                                  ELSE submissions[u]]
  BY UseIs
<1>2. vkqueue' = vkqueue
  <2>1. vkqueue = [q \in DOMAIN vkqueue |-> vkqueue[q]]
    BY DEF Pending, Held, QueuesAre, QueuesOf
  <2> QED BY <2>1, UseIs
<1>3. waits' = waits
  <2>1. waits = [u \in Types |-> waits[u]] BY DEF Pending, Held, None
  <2> QED BY <2>1, UseIs
<1>4. Held(p)' BY <1>2, <1>3 DEF Pending, Held, QueuesAre
<1>5. PICK v : UsesOf(p, p.type, v) /\ submissions[p.type] = p.commands \o v BY DEF Pending
<1>6. \E w : UsesOf(p, p.type, w) /\ submissions'[p.type] = p.commands \o w
  <2>1. CASE t = p.type
    <3>1. UsesOf(p, p.type, v \o <<c>>) BY <1>1, <1>5, <2>1, UsesJoin
    <3>2. IsSeq(p.commands) /\ IsSeq(v) /\ IsSeq(<<c>>) BY <1>1, <1>5, OngoingIs DEF UsesOf
    <3>3. (p.commands \o v) \o <<c>> = p.commands \o (v \o <<c>>)
      <4> DEFINE d == <<c>>
                 k == p.commands
      <4>1. IsSeq(k) /\ IsSeq(v) /\ IsSeq(d) BY <3>2
      <4> HIDE DEF d, k
      <4>2. (k \o v) \o d = k \o (v \o d) BY <4>1, ConcatAssoc
      <4> QED BY <4>2 DEF d, k
    <3>4. submissions'[p.type] = p.commands \o (v \o <<c>>) BY <1>1, <1>5, <2>1, <3>3
    <3> QED BY <3>1, <3>4
  <2>2. CASE t # p.type
    <3>1. submissions'[p.type] = submissions[p.type] BY <1>1, <2>2, OngoingIs
    <3> QED BY <1>5, <3>1
  <2> QED BY <2>1, <2>2
<1>7. ASSUME NEW u \in Types \ {p.type}
      PROVE  /\ UsesOf(p, u, submissions'[u])
             /\ p.type # "transfer" => submissions'[u] = <<>>
  <2>1. UsesOf(p, u, submissions[u]) /\ (p.type # "transfer" => submissions[u] = <<>>)
    BY DEF Pending
  <2>2. CASE u = t
    <3>1. UsesOf(p, u, submissions'[u]) BY <1>1, <2>1, <2>2, UsesJoin
    <3>2. p.type = "transfer"
      <4>1. IsSeq(<<c>>) /\ Len(<<c>>) = 1 BY SingleIs
      <4>2. t \in p.users BY <1>1, <4>1 DEF UsesOf
      <4>3. p.targets = {} /\ p.commands # <<>> BY DEF Pending
      <4> QED BY <2>2, <4>2, <4>3 DEF Ongoing, Plan, PlanCovers
    <3> QED BY <3>1, <3>2
  <2>3. CASE u # t BY <1>1, <2>1, <2>3
  <2> QED BY <2>2, <2>3
<1>8. DOMAIN submissions' = Types BY <1>1
<1>9. script' = <<>> BY UseIs
<1> QED BY <1>4, <1>6, <1>7, <1>8, <1>9 DEF Pending

(* A use afterwards is left pending.                                       *)
LEMMA LandedUse ==
  ASSUME NEW p, Ongoing(p), Landed(p), NEW t \in Types, Use(t)
  PROVE  Landed(p)'
<1>1. PICK c : /\ UsesOf(p, t, <<c>>)
               /\ submissions' = [u \in Types |-> IF u = t THEN submissions[u] \o <<c>>
                                                  ELSE submissions[u]]
  BY UseIs
<1>2. /\ DOMAIN vkqueue' = DOMAIN vkqueue /\ script = <<>> /\ script' = script
      /\ \A q \in DOMAIN vkqueue : vkqueue'[q] = vkqueue[q]
      /\ \A u \in Types : waits'[u] = waits[u]
  BY UseIs
<1>3. ASSUME NEW u \in Types PROVE WaitsOf(p, u, waits'[u]) /\ UsesOf(p, u, submissions'[u])
  <2>1. WaitsOf(p, u, waits[u]) /\ UsesOf(p, u, submissions[u]) BY DEF Landed
  <2>2. CASE u = t
    <3>1. UsesOf(p, t, submissions[t] \o <<c>>) BY <1>1, <2>1, <2>2, UsesJoin
    <3> QED BY <1>1, <1>2, <2>1, <2>2, <3>1
  <2>3. CASE u # t BY <1>1, <1>2, <2>1, <2>3
  <2> QED BY <2>2, <2>3
<1>4. DOMAIN submissions' = Types BY <1>1
<1>5. DOMAIN vkqueue = Queues(p) /\ \A q \in Queues(p) : Loaded(p, q, vkqueue'[q])
  BY <1>2 DEF Landed
<1>6. \A u \in p.targets : u \in Types /\ p.queues[u] \in Queues(p)
  BY QueuesOfTypes, OngoingIs DEF PlanTypes
<1>7. \A u \in p.targets : \/ \E i \in 1..Len(script') : script'[i] = WaitCall(p, u)
                           \/ waits'[u] # <<>> \/ HasWait(p, u, vkqueue'[p.queues[u]])
  <2>1. ASSUME NEW u \in p.targets
        PROVE  \/ \E i \in 1..Len(script') : script'[i] = WaitCall(p, u)
               \/ waits'[u] # <<>> \/ HasWait(p, u, vkqueue'[p.queues[u]])
    <3>1. waits'[u] = waits[u] /\ vkqueue'[p.queues[u]] = vkqueue[p.queues[u]]
      BY <1>2, <1>5, <1>6
    <3> QED BY <1>2, <3>1 DEF Landed
  <2> QED BY <2>1
<1> QED BY <1>2, <1>3, <1>4, <1>5, <1>7 DEF Landed

(* What is pending goes to the queue of the type.                          *)
LEMMA PendingLine ==
  ASSUME NEW p, Ongoing(p), Pending(p)
  PROVE  \E last, v :
           /\ QueuesAre(p, FirstHead(p), last) /\ UsesOf(p, p.type, v)
           /\ last \o (waits[p.type] \o submissions[p.type]) = LastHead(p) \o v
           /\ IsSeq(LastHead(p) \o v) /\ Loaded(p, LastQueue(p), LastHead(p) \o v)
<1>1. PICK v : UsesOf(p, p.type, v) /\ submissions[p.type] = p.commands \o v BY DEF Pending
<1>2. PICK last : /\ QueuesAre(p, FirstHead(p), last)
                  /\ \A r : IsSeq(r) => last \o (waits[p.type] \o r) = Before(p) \o r
  BY HeldLine, OngoingIs DEF Pending
<1>3. IsSeq(v) /\ IsSeq(p.commands) /\ IsSeq(Before(p)) /\ IsSeq(LastHead(p))
  BY <1>1, OngoingIs, Heads DEF UsesOf
<1>4. IsSeq(p.commands \o v) /\ IsSeq(LastHead(p) \o v) BY <1>3, ConcatIs
<1>5. LastHead(p) = Before(p) \o p.commands
  <2>1. IsSeq(Before(p) \o p.commands) BY <1>3, ConcatIs
  <2>2. (Before(p) \o p.commands) \o <<>> = Before(p) \o p.commands BY <2>1, SeqIs
  <2> QED BY <2>2 DEF LastHead, Batch, Pending
<1>6. (Before(p) \o p.commands) \o v = Before(p) \o (p.commands \o v)
  <2> DEFINE b == Before(p)
             k == p.commands
  <2>1. IsSeq(b) /\ IsSeq(v) /\ IsSeq(k) BY <1>3
  <2> HIDE DEF b, k
  <2>2. (b \o k) \o v = b \o (k \o v) BY <2>1, ConcatAssoc
  <2> QED BY <2>2 DEF b, k
<1>7. last \o (waits[p.type] \o submissions[p.type]) = LastHead(p) \o v
  BY <1>1, <1>2, <1>4, <1>5, <1>6
<1>8. Loaded(p, LastQueue(p), LastHead(p) \o v)
  <2>1. Loaded(p, p.queues[p.type], LastHead(p))
    <3>1. HeadOf(p, LastQueue(p)) = LastHead(p) BY DEF HeadOf, Pending
    <3> QED BY <3>1, HeadIsSeq, OngoingIs DEF LastQueue
  <2>2. WaitsOf(p, p.type, <<>>) /\ p.targets = {} /\ p.type \in Types /\ Plan(p)
    BY NothingIs, OngoingIs DEF Pending
  <2>3. Loaded(p, p.queues[p.type], LastHead(p) \o (<<>> \o v)) BY <1>1, <2>1, <2>2, AppendLine
  <2>4. <<>> \o v = v BY <1>3, SeqIs
  <2> QED BY <2>3, <2>4 DEF LastQueue
<1> QED BY <1>1, <1>2, <1>4, <1>7, <1>8

(* Once somebody submits for the type, its commands are in the queue.      *)
LEMMA PendingSubmit ==
  ASSUME NEW p, Ongoing(p), Pending(p), NEW t \in Types, SubmitOther(t)
  PROVE  Landed(p)' /\ Grows
<1>1. PICK last, v :
         /\ QueuesAre(p, FirstHead(p), last) /\ UsesOf(p, p.type, v)
         /\ last \o (waits[p.type] \o submissions[p.type]) = LastHead(p) \o v
         /\ IsSeq(LastHead(p) \o v) /\ Loaded(p, LastQueue(p), LastHead(p) \o v)
  BY PendingLine
<1> DEFINE s == LastHead(p) \o v
<1>2. /\ DOMAIN vkqueue = Queues(p) /\ LastQueue(p) \in Queues(p)
      /\ \A q \in Queues(p) \ {LastQueue(p)} : vkqueue[q] = HeadOf(p, q)
      /\ vkqueue[LastQueue(p)] = last
  BY <1>1, QueuesOfTypes, OngoingIs DEF QueuesAre, QueuesOf, HeadOf
<1>3. \A q \in Queues(p) \ {LastQueue(p)} : Loaded(p, q, vkqueue[q])
  BY <1>2, HeadIsSeq, OngoingIs
<1>4. ASSUME NEW u \in Types, u # p.type PROVE waits[u] = <<>>
  BY <1>4 DEF Pending, Held, None
<1>5. p.targets = {} /\ script = <<>> /\ script' = script BY DEF Pending, SubmitOther
<1>6. ASSUME NEW types, Flushed(t, submissions, TRUE) = types, p.type \in types
      PROVE  /\ vkqueue' = Sent(vkqueue, p.queues, waits, types, submissions, t, <<>>)
             /\ DOMAIN submissions' = Types
             /\ \A u \in Types : WaitsOf(p, u, waits'[u]) /\ UsesOf(p, u, submissions'[u])
  <2>1. /\ vkqueue' = Sent(vkqueue, p.queues, waits, types, submissions, t, <<>>)
        /\ submissions' = [u \in Types |-> IF u \in types THEN <<>> ELSE submissions[u]]
        /\ waits' = [u \in Types |-> Unsent(types, u)]
    BY <1>6, OngoingIs DEF SubmitOther, Send, Sent
  <2>2. \A u \in Types : waits'[u] = <<>> BY <1>4, <1>6, <2>1 DEF Unsent
  <2>3. \A u \in Types : submissions'[u] = <<>> \/ (u # p.type /\ submissions'[u] = submissions[u])
    BY <1>6, <2>1
  <2>4. \A u \in Types \ {p.type} : UsesOf(p, u, submissions[u]) BY DEF Pending
  <2> QED BY <2>1, <2>2, <2>3, <2>4, NothingIs
<1>7. ASSUME /\ DOMAIN submissions' = Types
             /\ \A u \in Types : WaitsOf(p, u, waits'[u]) /\ UsesOf(p, u, submissions'[u]),
             DOMAIN vkqueue' = Queues(p), \A q \in Queues(p) : Loaded(p, q, vkqueue'[q])
      PROVE  Landed(p)'
  <2>1. IsSeq(script') /\ Len(script') = 0 BY <1>5, EmptyIsSeq
  <2>2. \A i \in 1..Len(script') : FALSE BY <2>1
  <2> QED BY <1>5, <1>7, <2>1, <2>2 DEF Landed
<1>8. Sendable(vkqueue, waits, submissions, t, <<>>) BY OngoingIs, EmptyIsSeq DEF Sendable
<1>9. CASE t = p.type
  <2>1. p.type = "transfer" \/ submissions["transfer"] = <<>> BY OngoingIs DEF Pending
  <2>2. Flushed(t, submissions, TRUE) = {t} BY <1>9, <2>1, FlushedIs
  <2>3. vkqueue' = Sent(vkqueue, p.queues, waits, {p.type}, submissions, p.type, <<>>)
    BY <1>6, <1>9, <2>2
  <2>4. TypeSent(p, vkqueue, waits, submissions, <<>>, FirstHead(p), last, vkqueue')
    <3>1. vkqueue = QueuesOf(p, FirstHead(p), last) /\ PlanTypes(p) BY <1>1, OngoingIs DEF QueuesAre
    <3> QED BY <1>8, <1>9, <2>3, <3>1, TypeSends
  <2>5. s \o <<>> = s BY <1>1, SeqIs
  <2>6. Grows /\ vkqueue' = QueuesOf(p, FirstHead(p), s) BY <1>1, <2>4, <2>5 DEF TypeSent, Grows
  <2> HIDE DEF s
  <2>7. /\ DOMAIN vkqueue' = Queues(p) /\ vkqueue'[LastQueue(p)] = s
        /\ \A q \in Queues(p) \ {LastQueue(p)} : vkqueue'[q] = HeadOf(p, q)
    BY <1>2, <2>6 DEF QueuesOf, HeadOf, Pending
  <2>8. \A q \in Queues(p) : Loaded(p, q, vkqueue'[q])
    BY <1>1, <1>2, <1>3, <2>7 DEF s
  <2>9. Landed(p)' BY <1>6, <1>7, <1>9, <2>2, <2>7, <2>8
  <2> QED BY <2>6, <2>9
<1>10. CASE t # p.type
  <2>1. submissions[t] # <<>> BY <1>4, <1>10 DEF SubmitOther
  <2>2. p.type = "transfer" /\ UsesOf(p, t, submissions[t]) BY <1>10, <2>1 DEF Pending
  <2>3. p.queues[t] = p.queues[p.type]
    <3>1. IsSeq(submissions[t]) BY <2>2 DEF UsesOf
    <3>2. 1 \in 1..Len(submissions[t])
      <4>1. Len(submissions[t]) \in Nat /\ Len(submissions[t]) # 0 BY <2>1, <3>1, SeqIs
      <4> QED BY <4>1
    <3>3. t \in p.users /\ \E stage \in UseStages(p, t) : TRUE BY <2>2, <3>2 DEF UsesOf
    <3>4. PICK stage \in UseStages(p, t) : Covered(p, t, stage)
      BY <3>3 DEF Ongoing, Plan, PlanCovers
    <3> QED BY <3>4 DEF Covered, Pending
  <2>4. Flushed(t, submissions, TRUE) = {"transfer", t}
    <3>1. submissions["transfer"] # <<>>
      <4>1. PICK u : UsesOf(p, p.type, u) /\ submissions[p.type] = p.commands \o u BY DEF Pending
      <4>2. IsSeq(u) /\ IsSeq(p.commands) BY <4>1, OngoingIs DEF UsesOf
      <4>3. Len(p.commands \o u) = Len(p.commands) + Len(u) /\ IsSeq(p.commands \o u)
        BY <4>2, ConcatIs
      <4>4. Len(p.commands) \in Nat /\ Len(u) \in Nat /\ Len(p.commands) # 0
        BY <4>2, SeqIs DEF Pending
      <4>5. Len(p.commands \o u) # 0 BY <4>3, <4>4
      <4> QED BY <2>2, <4>1, <4>3, <4>5, SeqIs
    <3> QED BY <3>1 DEF Flushed
  <2>5. vkqueue' = Sent(vkqueue, p.queues, waits, {"transfer", t}, submissions, t, <<>>)
    BY <1>6, <2>2, <2>4
  <2>6. TwoSent(vkqueue, p.queues, waits, submissions, t, vkqueue')
    BY <1>8, <1>10, <2>2, <2>5, SentTwo
  <2> HIDE DEF s
  <2>7. /\ Grows /\ DOMAIN vkqueue' = Queues(p)
        /\ vkqueue'[LastQueue(p)] = s \o (waits[t] \o submissions[t])
        /\ \A q \in Queues(p) \ {LastQueue(p)} : vkqueue'[q] = vkqueue[q]
    <3>1. LastQueue(p) = p.queues["transfer"] /\ LastQueue(p) = p.queues[t]
      BY <2>2, <2>3 DEF LastQueue
    <3>2. vkqueue[LastQueue(p)] \o (waits["transfer"] \o submissions["transfer"]) = s
      BY <1>1, <1>2, <2>2 DEF s
    <3> QED BY <1>2, <2>6, <3>1, <3>2 DEF TwoSent, Grows, Extends
  <2>8. Loaded(p, LastQueue(p), s \o (waits[t] \o submissions[t]))
    <3>1. Loaded(p, p.queues[t], s) /\ LastQueue(p) = p.queues[t]
      BY <1>1, <2>3 DEF LastQueue, s
    <3>2. WaitsOf(p, t, waits[t]) BY <1>4, <1>10, NothingIs
    <3> QED BY <1>5, <2>2, <3>1, <3>2, OngoingIs, AppendLine
  <2>9. \A q \in Queues(p) : Loaded(p, q, vkqueue'[q]) BY <1>3, <2>7, <2>8
  <2>10. Landed(p)' BY <1>6, <1>7, <2>2, <2>4, <2>7, <2>9
  <2> QED BY <2>7, <2>10
<1> QED BY <1>9, <1>10

\* The line of t was appended to its queue.
Appended(p, vk, t, w, u, new) ==
    /\ DOMAIN new = Queues(p)
    /\ \A q \in Queues(p) : new[q] = IF q = p.queues[t] THEN vk[q] \o (w \o u) ELSE vk[q]

\* The queues have their heads, and the waits that there were.
Kept(p, vk, t, w, new) ==
    /\ DOMAIN new = Queues(p) /\ \A q \in Queues(p) : Loaded(p, q, new[q])
    /\ w # <<>> => HasWait(p, t, new[p.queues[t]])
    /\ \A v \in Types : HasWait(p, v, vk[p.queues[v]]) => HasWait(p, v, new[p.queues[v]])

(* What a type has pending, and its waits, go to the end of its queue.     *)
LEMMA OneFlush ==
  ASSUME NEW p, Plan(p), NEW vk, \A q \in Queues(p) : Loaded(p, q, vk[q]), NEW t \in Types,
         NEW w, NEW u, WaitsOf(p, t, w), UsesOf(p, t, u),
         u # <<>> /\ t \in p.targets => HasWait(p, t, vk[p.queues[t]]) \/ w # <<>>,
         NEW new, Appended(p, vk, t, w, u, new)
  PROVE  Kept(p, vk, t, w, new)
<1> DEFINE q == p.queues[t]
           s == vk[q]
           r == s \o (w \o u)
<1>1. q \in Queues(p) /\ \A v \in Types : p.queues[v] \in Queues(p) BY DEF Queues
<1>2. new[q] = r /\ \A k \in Queues(p) \ {q} : new[k] = vk[k] BY <1>1 DEF Appended
<1>3. Loaded(p, q, s) BY <1>1
<1>4. Loaded(p, q, r) /\ (w # <<>> => HasWait(p, t, r)) /\ \A v : HasWait(p, v, s) => HasWait(p, v, r)
  BY <1>3, AppendLine
<1> HIDE DEF r
<1>5. \A k \in Queues(p) : Loaded(p, k, new[k]) BY <1>2, <1>4
<1>6. ASSUME NEW v \in Types, HasWait(p, v, vk[p.queues[v]])
      PROVE  HasWait(p, v, new[p.queues[v]])
  <2>1. CASE p.queues[v] = q BY <1>2, <1>4, <1>6, <2>1
  <2>2. CASE p.queues[v] # q BY <1>1, <1>2, <1>6, <2>2
  <2> QED BY <2>1, <2>2
<1>7. w # <<>> => HasWait(p, t, new[q]) BY <1>2, <1>4
<1> QED BY <1>5, <1>6, <1>7 DEF Kept, Appended

(* Waits and uses are flushed.                                             *)
LEMMA LandedSubmit ==
  ASSUME NEW p, Ongoing(p), Landed(p), NEW t \in Types, SubmitOther(t)
  PROVE  Landed(p)' /\ Grows
<1>1. /\ DOMAIN vkqueue = Queues(p) /\ \A q \in Queues(p) : Loaded(p, q, vkqueue[q])
      /\ \A u \in Types : WaitsOf(p, u, waits[u]) /\ UsesOf(p, u, submissions[u])
  BY DEF Landed
<1>2. \A u \in p.targets : u \in Types /\ p.queues[u] \in Queues(p)
  BY QueuesOfTypes, OngoingIs DEF PlanTypes
<1>3. ASSUME NEW u \in Types, submissions[u] # <<>> /\ u \in p.targets
      PROVE  HasWait(p, u, vkqueue[p.queues[u]]) \/ waits[u] # <<>>
  <2>1. script = <<>> BY <1>3 DEF Landed
  <2>2. \A i \in 1..Len(script) : FALSE
    <3>1. Len(script) = 0 BY <2>1, EmptyIsSeq
    <3> QED BY <3>1
  <2> QED BY <1>3, <2>2 DEF Landed
<1>4. Sendable(vkqueue, waits, submissions, t, <<>>) BY OngoingIs, EmptyIsSeq DEF Sendable
<1>5. script' = script BY DEF SubmitOther
<1>6. ASSUME NEW types, Flushed(t, submissions, TRUE) = types
      PROVE  /\ vkqueue' = Sent(vkqueue, p.queues, waits, types, submissions, t, <<>>)
             /\ submissions' = [u \in Types |-> IF u \in types THEN <<>> ELSE submissions[u]]
             /\ waits' = [u \in Types |-> Unsent(types, u)]
  BY <1>6, OngoingIs DEF SubmitOther, Send, Sent
<1>7. ASSUME NEW types, Flushed(t, submissions, TRUE) = types,
             DOMAIN vkqueue' = Queues(p) /\ \A q \in Queues(p) : Loaded(p, q, vkqueue'[q]),
             \A u \in types : waits[u] # <<>> => HasWait(p, u, vkqueue'[p.queues[u]]),
             \A u \in Types : HasWait(p, u, vkqueue[p.queues[u]]) => HasWait(p, u, vkqueue'[p.queues[u]])
      PROVE  Landed(p)'
  <2>1. /\ DOMAIN submissions' = Types
        /\ \A u \in Types : submissions'[u] = IF u \in types THEN <<>> ELSE submissions[u]
        /\ \A u \in Types : waits'[u] = IF u \in types THEN <<>> ELSE waits[u]
    <3>1. /\ submissions' = [u \in Types |-> IF u \in types THEN <<>> ELSE submissions[u]]
          /\ waits' = [u \in Types |-> Unsent(types, u)]
      BY <1>7, OngoingIs DEF SubmitOther, Send
    <3>2. /\ DOMAIN submissions' = Types
          /\ \A u \in Types : submissions'[u] = IF u \in types THEN <<>> ELSE submissions[u]
      BY <3>1
    <3>3. \A u \in Types : waits'[u] = Unsent(types, u) BY <3>1
    <3> QED BY <3>2, <3>3 DEF Unsent
  <2>2. \A u \in Types : WaitsOf(p, u, waits'[u]) /\ UsesOf(p, u, submissions'[u])
    BY <1>1, <2>1, NothingIs
  <2>3. ASSUME NEW u \in p.targets
        PROVE  \/ \E i \in 1..Len(script') : script'[i] = WaitCall(p, u)
               \/ waits'[u] # <<>> \/ HasWait(p, u, vkqueue'[p.queues[u]])
    <3>1. \/ \E i \in 1..Len(script) : script[i] = WaitCall(p, u)
          \/ waits[u] # <<>> \/ HasWait(p, u, vkqueue[p.queues[u]])
      BY DEF Landed
    <3> QED BY <1>2, <1>5, <1>7, <2>1, <3>1
  <2>4. script' # <<>> => \A u \in Types : submissions'[u] = <<>>
    BY <1>5, <2>1 DEF Landed
  <2>5. IsSeq(script') /\ \A i \in 1..Len(script') : \E u \in p.targets : script'[i] = WaitCall(p, u)
    BY <1>5 DEF Landed
  <2> QED BY <1>7, <2>1, <2>2, <2>3, <2>4, <2>5 DEF Landed
<1>8. CASE Flushed(t, submissions, TRUE) = {t}
  <2>1. vkqueue' = Sent(vkqueue, p.queues, waits, {t}, submissions, t, <<>>) BY <1>6, <1>8
  <2>2. OneSent(vkqueue, p.queues, waits, submissions, t, <<>>, vkqueue') BY <1>4, <2>1, SentOne
  <2>3. Appended(p, vkqueue, t, waits[t], submissions[t], vkqueue')
    <3>1. \A q \in Queues(p) : IsSeq(vkqueue[q]) BY <1>1, OngoingIs
    <3>2. IsSeq(waits[t] \o submissions[t])
      <4>1. IsSeq(waits[t]) /\ IsSeq(submissions[t]) BY OngoingIs
      <4> QED BY <4>1, ConcatIs
    <3> DEFINE l == waits[t] \o submissions[t]
    <3>3. ASSUME NEW q \in Queues(p) PROVE (vkqueue[q] \o l) \o <<>> = vkqueue[q] \o l
      <4>1. IsSeq(vkqueue[q]) /\ IsSeq(l) BY <3>1, <3>2
      <4> HIDE DEF l
      <4>2. IsSeq(vkqueue[q] \o l) BY <4>1, ConcatIs
      <4> QED BY <4>2, SeqIs
    <3> HIDE DEF l
    <3>4. \A q \in Queues(p) : vkqueue'[q] = IF q = p.queues[t] THEN vkqueue[q] \o l ELSE vkqueue[q]
      BY <1>1, <2>2, <3>3 DEF OneSent, l
    <3>5. DOMAIN vkqueue' = Queues(p) BY <1>1, <2>2 DEF OneSent, Extends
    <3> QED BY <3>4, <3>5 DEF Appended, l
  <2>4. Kept(p, vkqueue, t, waits[t], vkqueue') BY <1>1, <1>3, <2>3, OngoingIs, OneFlush
  <2>5. Landed(p)' BY <1>7, <1>8, <2>4 DEF Kept
  <2>6. Grows BY <2>2 DEF OneSent, Grows
  <2> QED BY <2>5, <2>6
<1>9. CASE t # "transfer" /\ Flushed(t, submissions, TRUE) = {"transfer", t}
  <2>1. vkqueue' = Sent(vkqueue, p.queues, waits, {"transfer", t}, submissions, t, <<>>)
    BY <1>6, <1>9
  <2>2. TwoSent(vkqueue, p.queues, waits, submissions, t, vkqueue') BY <1>4, <1>9, <2>1, SentTwo
  <2> DEFINE l == waits["transfer"] \o submissions["transfer"]
             mid == [q \in Queues(p) |-> IF q = p.queues["transfer"] THEN vkqueue[q] \o l
                                         ELSE vkqueue[q]]
  <2>3. Appended(p, vkqueue, "transfer", waits["transfer"], submissions["transfer"], mid)
    BY DEF Appended
  <2>4. Appended(p, mid, t, waits[t], submissions[t], vkqueue')
    <3> DEFINE m == waits[t] \o submissions[t]
    <3> HIDE DEF l, m
    <3>1. DOMAIN vkqueue' = Queues(p) BY <1>1, <2>2 DEF TwoSent, Extends
    <3>2. \A q \in Queues(p) :
            vkqueue'[q] = IF q = p.queues[t]
                          THEN (IF q = p.queues["transfer"] THEN vkqueue[q] \o l ELSE vkqueue[q]) \o m
                          ELSE IF q = p.queues["transfer"] THEN vkqueue[q] \o l ELSE vkqueue[q]
      BY <1>1, <2>2 DEF TwoSent, l, m
    <3>3. \A q \in Queues(p) : vkqueue'[q] = IF q = p.queues[t] THEN mid[q] \o m ELSE mid[q]
      BY <3>2
    <3> QED BY <3>1, <3>3 DEF Appended, m
  <2> HIDE DEF mid
  <2>5. Kept(p, vkqueue, "transfer", waits["transfer"], mid)
    BY <1>1, <1>3, <2>3, OngoingIs, OneFlush
  <2>6. /\ \A q \in Queues(p) : Loaded(p, q, mid[q])
        /\ HasWait(p, t, vkqueue[p.queues[t]]) => HasWait(p, t, mid[p.queues[t]])
    BY <2>5 DEF Kept
  <2>7. Kept(p, mid, t, waits[t], vkqueue')
    <3>1. submissions[t] # <<>> /\ t \in p.targets => HasWait(p, t, mid[p.queues[t]]) \/ waits[t] # <<>>
      BY <1>3, <2>6
    <3> QED BY <1>1, <2>4, <2>6, <3>1, OngoingIs, OneFlush
  <2>8. \A u \in {"transfer", t} : waits[u] # <<>> => HasWait(p, u, vkqueue'[p.queues[u]])
    BY <2>5, <2>7, OngoingIs DEF Kept
  <2>9. \A u \in Types : HasWait(p, u, vkqueue[p.queues[u]]) => HasWait(p, u, vkqueue'[p.queues[u]])
    BY <2>5, <2>7 DEF Kept
  <2>10. Landed(p)' BY <1>7, <1>9, <2>7, <2>8, <2>9 DEF Kept
  <2>11. Grows BY <2>2 DEF TwoSent, Grows
  <2> QED BY <2>10, <2>11
<1> QED BY <1>8, <1>9, FlushedIs

(* Every step of the system keeps to the plan.                             *)
LEMMA OngoingNext ==
  ASSUME NEW p, Ongoing(p), Closed, Progress(p), [Next]_vars
  PROVE  Ongoing(p)' /\ Closed' /\ Progress(p)'
<1>1. Plan(p) /\ PlanOf(p) /\ Phases(p) /\ Contents(p) BY PhasesContents DEF Ongoing
<1>2. UNCHANGED <<queues, request>> => PlanOf(p)'
  <2>1. SUFFICES ASSUME UNCHANGED <<queues, request>> PROVE PlanOf(p)' OBVIOUS
  <2>2. Sharing(request)' = Sharing(request) /\ (Usable' <=> Usable)
    BY <2>1 DEF Sharing, Physical, PhysicalOn, Family, Concurrent, Usable, Refused
  <2>3. \A t : OwnedBy(request, t)' <=> OwnedBy(request, t)
    BY <2>1 DEF OwnedBy, Physical, PhysicalOn
  <2> QED BY <1>1, <2>1, <2>2, <2>3 DEF PlanOf
<1>3. ASSUME Phases(p)', Grows, UNCHANGED <<queues, request, done, signals, resource>>
      PROVE  Ongoing(p)' /\ Closed' /\ Progress(p)'
  <2>1. Closed' /\ Progress(p)' BY <1>1, <1>3, GrowKeeps
  <2> QED BY <1>1, <1>2, <1>3, <2>1 DEF Ongoing
<1>4. CASE Step
  <2>1. UNCHANGED <<queues, request, done, signals, resource>> BY <1>4 DEF Step
  <2>2. Phases(p)' /\ Grows
    <3>1. CASE Opening(p) BY <1>4, <3>1, OpeningStep DEF Phases
    <3>2. CASE Copied(p) BY <1>4, <3>2, CopiedStep DEF Phases
    <3>3. CASE Waiting(p) BY <1>4, <3>3, WaitingStep DEF Phases
    <3>4. CASE Landed(p) BY <1>4, <3>4, LandedStep DEF Phases
    <3>5. ~Pending(p) BY <1>4 DEF Pending, Step
    <3> QED BY <1>1, <3>1, <3>2, <3>3, <3>4, <3>5 DEF Phases
  <2> QED BY <1>3, <2>1, <2>2
<1>5. CASE Execute
  <2>1. Closed' /\ Progress(p)' BY <1>1, <1>5, ExecuteKeeps
  <2>2. UNCHANGED <<queues, request, script, submissions, waits, vkqueue>> BY <1>5 DEF Execute
  <2>3. Phases(p)'
    BY <1>1, <2>2 DEF Phases, Opening, Copied, Waiting, Pending, Landed, Held, QueuesAre
  <2> QED BY <1>1, <1>2, <2>1, <2>2, <2>3 DEF Ongoing
<1>6. ASSUME NEW t \in Types, SubmitOther(t) PROVE Ongoing(p)' /\ Closed' /\ Progress(p)'
  <2>1. UNCHANGED <<queues, request, done, signals, resource>> BY <1>6 DEF SubmitOther
  <2>2. ~Opening(p) /\ ~Copied(p) BY <1>6, EarlySubmit
  <2>3. CASE Waiting(p) BY <1>3, <1>6, <2>1, <2>3, WaitingSubmit DEF Phases
  <2>4. CASE Pending(p) BY <1>3, <1>6, <2>1, <2>4, PendingSubmit DEF Phases
  <2>5. CASE Landed(p) BY <1>3, <1>6, <2>1, <2>5, LandedSubmit DEF Phases
  <2> QED BY <1>1, <2>2, <2>3, <2>4, <2>5 DEF Phases
<1>7. ASSUME NEW t \in Types, Use(t) PROVE Ongoing(p)' /\ Closed' /\ Progress(p)'
  <2>1. UNCHANGED <<queues, request, done, signals, resource>> BY <1>7 DEF Use
  <2>2. (Pending(p) \/ Landed(p)) /\ Grows BY <1>7, UseIs
  <2>3. CASE Pending(p) BY <1>3, <1>7, <2>1, <2>2, <2>3, PendingUse DEF Phases
  <2>4. CASE Landed(p) BY <1>3, <1>7, <2>1, <2>2, <2>4, LandedUse DEF Phases
  <2> QED BY <2>2, <2>3, <2>4
<1>8. CASE UNCHANGED vars
  <2>1. UNCHANGED <<queues, request, script, submissions, waits, vkqueue, done, signals, resource>>
    BY <1>8 DEF vars
  <2>2. Phases(p)'
    BY <1>1, <2>1 DEF Phases, Opening, Copied, Waiting, Pending, Landed, Held, QueuesAre
  <2>3. Grows BY <1>1, <2>1, OngoingIs DEF Grows, Extends, Ongoing
  <2> QED BY <1>3, <2>1, <2>2, <2>3
<1> QED BY <1>4, <1>5, <1>6, <1>7, <1>8 DEF Next

(* Where the plan is kept, whatever is ready is sound.                     *)
LEMMA OngoingSound ==
  ASSUME NEW p, Ongoing(p), Closed, Progress(p)
  PROVE  AccessesSound
BY PhasesContents, ReadySound DEF Ongoing, AccessesSound

(* A call that has yet to begin.                                           *)
LEMMA OngoingInit ==
  ASSUME NEW p, Plan(p), PlanOf(p), Scripted(p, script), submissions = None, waits = None,
         vkqueue = [q \in Queues(p) |-> <<>>], done = {}, signals = {}, resource = p.states[0]
  PROVE  Ongoing(p) /\ Closed /\ Progress(p)
<1>1. Closed BY DEF Closed
<1>2. Progress(p)
  <2>1. Total(p) \in Nat BY Sizes DEF Plan
  <2>2. 0 \in 0..Total(p) /\ \A j \in 1..Total(p) : ~(j <= 0) BY <2>1
  <2>3. 0 = Total(p) => Final(p, resource) BY DEF Plan, PlanSound
  <2> QED BY <2>2, <2>3 DEF Progress
<1>3. QueuesAre(p, <<>>, <<>>) BY DEF QueuesAre, QueuesOf
<1>4. ASSUME p.commands = <<>> PROVE Landed(p)
  <2>1. script = <<>> /\ p.targets = {} /\ ~Split(p)
    BY <1>4 DEF Scripted, Plan, PlanTypes, Split
  <2>2. \A q : HeadOf(p, q) = <<>> BY <1>4, <2>1 DEF HeadOf
  <2>3. \A q \in Queues(p) : Loaded(p, q, vkqueue[q])
    <3>1. \A q : Loaded(p, q, HeadOf(p, q)) BY HeadIsSeq DEF Plan
    <3> QED BY <2>2, <3>1
  <2>4. DOMAIN vkqueue = Queues(p) /\ DOMAIN submissions = Types BY DEF None
  <2>5. \A t \in Types : WaitsOf(p, t, waits[t]) /\ UsesOf(p, t, submissions[t])
    BY NothingIs DEF None
  <2>6. IsSeq(script) /\ \A i \in 1..Len(script) : FALSE BY <2>1, EmptyIsSeq
  <2> QED BY <2>1, <2>3, <2>4, <2>5, <2>6 DEF Landed
<1>5. ASSUME p.commands # <<>>, Split(p) PROVE Opening(p)
  BY <1>3, <1>5 DEF Opening, Scripted
<1>6. ASSUME p.commands # <<>>, ~Split(p) PROVE Waiting(p)
  <2>1. Before(p) = <<>> BY <1>6 DEF Before
  <2>2. QueuesAre(p, FirstHead(p), Before(p))
    BY <1>3, <1>6, <2>1 DEF QueuesAre, QueuesOf
  <2> QED BY <1>6, <2>2 DEF Waiting, Held, Scripted
<1> QED BY <1>1, <1>2, <1>4, <1>5, <1>6 DEF Ongoing, Phases

-----------------------------------------------------------------------------
(* What is recorded.                                                       *)

\* c of the family finds what it relies on in the state old, and leaves new.
Moves(o, f, c, old, new) == SoundIn(o, c, f, old) /\ EffectIn(o, c, f, old) = new

\* The commands follow each other and lead from the state old to new.
Ran(o, f, cs, old, new) ==
    \E states :
      /\ states[0] = old /\ states[Len(cs)] = new
      /\ \A k \in 0 .. Len(cs) - 1 : Moves(o, f, cs[k + 1], states[k], states[k + 1])
Ordered(cs) == \A i \in 1..Len(cs) : i > 1 => Orders(cs[i - 1], cs[i])
Recorded(o, f, cs, old, new) ==
    /\ IsSeq(cs) /\ Len(cs) # 0 /\ Ordered(cs)
    /\ \A i \in 1..Len(cs) : cs[i].op \in {"access", "barrier"}
    /\ Ran(o, f, cs, old, new)

(* Sequences of commands: their parts, and their first and last elements.  *)
LEMMA PairIs == ASSUME NEW a, NEW b PROVE <<a, b>> = <<a>> \o <<b>>
<1> DEFINE U == {a, b}
<1>1. <<a>> \in Seq(U) /\ <<b>> \in Seq(U) /\ <<a, b>> \in Seq(U) OBVIOUS
<1>2. Len(<<a>>) = 1 /\ Len(<<b>>) = 1 /\ <<a>>[1] = a /\ <<b>>[1] = b OBVIOUS
<1>3. Len(<<a, b>>) = 2 /\ <<a, b>>[1] = a /\ <<a, b>>[2] = b OBVIOUS
<1> DEFINE s == <<a>>
           r == <<b>>
           c == <<a, b>>
<1> HIDE DEF s, r, c, U
<1>4. s \in Seq(U) /\ r \in Seq(U) /\ c \in Seq(U) BY <1>1 DEF s, r, c
<1>5. Len(s) = 1 /\ Len(r) = 1 /\ s[1] = a /\ r[1] = b BY <1>2 DEF s, r
<1>6. Len(c) = 2 /\ c[1] = a /\ c[2] = b BY <1>3 DEF c
<1>7. s \o r \in Seq(U) /\ Len(s \o r) = 2 /\ (s \o r)[1] = a /\ (s \o r)[2] = b
  <2>1. IsSeq(s) /\ IsSeq(r) BY <1>4 DEF IsSeq
  <2>2. 1 \in 1..Len(s) /\ 1 \in 1..Len(r) /\ Len(s) + 1 = 2 /\ Len(s) + Len(r) = 2 BY <1>5
  <2>3. /\ Len(s \o r) = Len(s) + Len(r)
        /\ \A i \in 1..Len(s) : (s \o r)[i] = s[i]
        /\ \A i \in 1..Len(r) : (s \o r)[Len(s) + i] = r[i]
    BY <2>1, ConcatIs
  <2>4. (s \o r)[1] = s[1] /\ (s \o r)[Len(s) + 1] = r[1] BY <2>2, <2>3
  <2> QED BY <1>4, <1>5, <2>2, <2>3, <2>4
<1>8. c = s \o r BY <1>4, <1>6, <1>7
<1> QED BY <1>8 DEF s, r, c

LEMMA AppendIs == ASSUME NEW s, IsSeq(s), NEW c PROVE Append(s, c) = s \o <<c>>
<1>1. PICK S : s \in Seq(S) BY DEF IsSeq
<1> DEFINE U == S \cup {c}
<1>2. s \in Seq(U) /\ c \in U BY <1>1
<1> HIDE DEF U
<1> QED BY <1>2, AppendIsConcat

LEMMA ConcatEnds == ASSUME NEW s, NEW r, IsSeq(s), IsSeq(r), Len(s) # 0, Len(r) # 0
  PROVE  (s \o r)[1] = s[1] /\ (s \o r)[Len(s \o r)] = r[Len(r)]
<1>1. Len(s) \in Nat /\ Len(r) \in Nat BY SeqIs
<1>2. /\ Len(s \o r) = Len(s) + Len(r)
      /\ \A i \in 1..Len(s) : (s \o r)[i] = s[i]
      /\ \A i \in 1..Len(r) : (s \o r)[Len(s) + i] = r[i]
  BY ConcatIs
<1>3. 1 \in 1..Len(s) /\ Len(r) \in 1..Len(r) BY <1>1
<1> QED BY <1>2, <1>3

(* One command, and some commands after others, lead from state to state.  *)
LEMMA RecordedOne ==
  ASSUME NEW o, NEW f, NEW c, NEW old, NEW new, c.op \in {"access", "barrier"},
         Moves(o, f, c, old, new)
  PROVE  Recorded(o, f, <<c>>, old, new)
<1> DEFINE states == [k \in {0, 1} |-> IF k = 0 THEN old ELSE new]
<1>1. IsSeq(<<c>>) /\ Len(<<c>>) = 1 /\ <<c>>[1] = c BY SingleIs
<1> DEFINE cs == <<c>>
<1> HIDE DEF cs
<1>2. IsSeq(cs) /\ Len(cs) = 1 /\ cs[1] = c BY <1>1 DEF cs
<1>3. Ran(o, f, cs, old, new)
  <2>1. states[0] = old /\ states[Len(cs)] = new BY <1>2
  <2>2. ASSUME NEW k \in 0 .. Len(cs) - 1 PROVE Moves(o, f, cs[k + 1], states[k], states[k + 1])
    <3>1. k = 0 BY <1>2
    <3> QED BY <1>2, <3>1
  <2> QED BY <2>1, <2>2 DEF Ran
<1>4. Ordered(cs) BY <1>2 DEF Ordered
<1>5. \A i \in 1..Len(cs) : cs[i].op \in {"access", "barrier"} BY <1>2
<1> QED BY <1>2, <1>3, <1>4, <1>5 DEF Recorded, cs

(* Some commands after others.                                             *)
LEMMA RecordedJoin ==
  ASSUME NEW o, NEW f, NEW s, NEW r, NEW old, NEW mid, NEW new,
         Recorded(o, f, s, old, mid), Recorded(o, f, r, mid, new), Orders(s[Len(s)], r[1])
  PROVE  /\ Recorded(o, f, s \o r, old, new)
         /\ (s \o r)[1] = s[1] /\ (s \o r)[Len(s \o r)] = r[Len(r)]
<1> DEFINE c == s \o r
           a == Len(s)
           b == Len(r)
<1>1. IsSeq(s) /\ IsSeq(r) BY DEF Recorded
<1>2. a \in Nat \ {0} /\ b \in Nat \ {0} BY <1>1, SeqIs DEF Recorded
<1>3. /\ IsSeq(c) /\ Len(c) = a + b
      /\ \A i \in 1..a : c[i] = s[i]
      /\ \A i \in 1..b : c[a + i] = r[i]
  BY <1>1, ConcatIs
<1>4. /\ Ordered(s) /\ Ordered(r) /\ Ran(o, f, s, old, mid) /\ Ran(o, f, r, mid, new)
      /\ \A i \in 1..a : s[i].op \in {"access", "barrier"}
      /\ \A i \in 1..b : r[i].op \in {"access", "barrier"}
      /\ Orders(s[a], r[1])
  BY DEF Recorded
<1> HIDE DEF a, b, c
<1>5. \A i \in 1..(a + b) : (i \in 1..a /\ c[i] = s[i]) \/ (i - a \in 1..b /\ c[i] = r[i - a])
  <2>1. ASSUME NEW i \in 1..(a + b), ~(i <= a) PROVE i - a \in 1..b /\ a + (i - a) = i
    BY <1>2, <2>1
  <2>2. ASSUME NEW i \in 1..(a + b), i <= a PROVE i \in 1..a BY <1>2, <2>2
  <2>3. ASSUME NEW i \in 1..(a + b), ~(i <= a) PROVE i - a \in 1..b /\ c[i] = r[i - a]
    <3>1. i - a \in 1..b /\ a + (i - a) = i BY <2>1, <2>3
    <3>2. c[a + (i - a)] = r[i - a] BY <1>3, <3>1
    <3> QED BY <3>1, <3>2
  <2> QED BY <1>3, <2>2, <2>3
<1>6. c[1] = s[1] /\ c[Len(c)] = r[b] /\ Len(c) # 0
  <2>1. 1 \in 1..a /\ b \in 1..b /\ a + b # 0 BY <1>2
  <2> QED BY <1>3, <2>1
<1>7. Ordered(c)
  <2>1. ASSUME NEW i \in 1..(a + b), i > 1 PROVE Orders(c[i - 1], c[i])
    <3>1. CASE i <= a
      <4>1. i \in 1..a /\ i - 1 \in 1..a BY <1>2, <2>1, <3>1
      <4> QED BY <1>3, <1>4, <2>1, <4>1 DEF Ordered, a
    <3>2. CASE i = a + 1
      <4>1. 1 \in 1..b /\ a \in 1..a /\ i - 1 = a BY <1>2, <3>2
      <4>2. c[i] = r[1] /\ c[i - 1] = s[a] BY <1>3, <3>2, <4>1
      <4> QED BY <1>4, <4>2
    <3>3. CASE i > a + 1
      <4>1. /\ i - a \in 1..b /\ i - a > 1 /\ (i - a) - 1 \in 1..b
            /\ a + (i - a) = i /\ a + ((i - a) - 1) = i - 1
        BY <1>2, <2>1, <3>3
      <4>2. c[a + (i - a)] = r[i - a] /\ c[a + ((i - a) - 1)] = r[(i - a) - 1] BY <1>3, <4>1
      <4>3. Orders(r[(i - a) - 1], r[i - a]) BY <1>4, <4>1 DEF Ordered, b
      <4> QED BY <4>1, <4>2, <4>3
    <3> QED BY <1>2, <2>1, <3>1, <3>2, <3>3
  <2> QED BY <1>3, <2>1 DEF Ordered
<1>8. \A i \in 1..Len(c) : c[i].op \in {"access", "barrier"} BY <1>3, <1>4, <1>5
<1>9. Ran(o, f, c, old, new)
  <2>1. PICK x : /\ x[0] = old /\ x[a] = mid
                 /\ \A k \in 0 .. a - 1 : Moves(o, f, s[k + 1], x[k], x[k + 1])
    BY <1>4 DEF Ran, a
  <2>2. PICK y : /\ y[0] = mid /\ y[b] = new
                 /\ \A k \in 0 .. b - 1 : Moves(o, f, r[k + 1], y[k], y[k + 1])
    BY <1>4 DEF Ran, b
  <2> DEFINE z == [k \in 0..(a + b) |-> IF k <= a THEN x[k] ELSE y[k - a]]
  <2>3. z[0] = old /\ z[a + b] = new
    <3>1. 0 \in 0..(a + b) /\ a + b \in 0..(a + b) /\ 0 <= a /\ ~(a + b <= a) /\ (a + b) - a = b
      BY <1>2
    <3> QED BY <2>1, <2>2, <3>1
  <2>4. ASSUME NEW k \in 0 .. (a + b) - 1 PROVE Moves(o, f, c[k + 1], z[k], z[k + 1])
    <3>1. CASE k < a
      <4>1. /\ k \in 0 .. a - 1 /\ k + 1 \in 1..a /\ k <= a /\ k + 1 <= a
            /\ k \in 0..(a + b) /\ k + 1 \in 0..(a + b)
        BY <1>2, <3>1
      <4>2. z[k] = x[k] /\ z[k + 1] = x[k + 1] /\ c[k + 1] = s[k + 1] BY <1>3, <4>1
      <4> QED BY <2>1, <4>1, <4>2
    <3>2. CASE k = a
      <4>1. /\ 0 \in 0 .. b - 1 /\ 1 \in 1..b /\ k <= a /\ ~(k + 1 <= a) /\ (k + 1) - a = 1
            /\ k \in 0..(a + b) /\ k + 1 \in 0..(a + b) /\ k + 1 = a + 1
        BY <1>2, <3>2
      <4>2. z[k] = mid /\ z[k + 1] = y[1] BY <2>1, <3>2, <4>1
      <4>3. c[k + 1] = r[1] BY <1>3, <4>1
      <4>4. Moves(o, f, r[0 + 1], y[0], y[0 + 1]) BY <2>2, <4>1
      <4> QED BY <2>2, <4>2, <4>3, <4>4
    <3>3. CASE k > a
      <4>1. /\ k - a \in 0 .. b - 1 /\ (k - a) + 1 \in 1..b /\ ~(k <= a) /\ ~(k + 1 <= a)
            /\ (k + 1) - a = (k - a) + 1 /\ a + ((k - a) + 1) = k + 1
            /\ k \in 0..(a + b) /\ k + 1 \in 0..(a + b)
        BY <1>2, <3>3
      <4>2. z[k] = y[k - a] /\ z[k + 1] = y[(k - a) + 1] BY <4>1
      <4>3. c[k + 1] = r[(k - a) + 1] BY <1>3, <4>1
      <4> QED BY <2>2, <4>1, <4>2, <4>3
    <3> QED BY <1>2, <3>1, <3>2, <3>3
  <2> HIDE DEF z
  <2> QED BY <1>3, <2>3, <2>4 DEF Ran
<1> QED BY <1>3, <1>6, <1>7, <1>8, <1>9 DEF Recorded, c, b

\* The levels in a layout, the data there is, and the owner, if none is to take over.
Plainly(layout, data, owner) ==
    [layout |-> layout, data |-> data, owner |-> owner, heir |-> Ignored]
All(o, layout) == [n \in Levels(o.request) |-> layout]

\* The layouts once the levels were brought to the next one.
Laying(o, levels, next, layout) ==
    [n \in Levels(o.request) |-> IF n \in levels THEN next ELSE layout[n]]

\* The owner once the family has used the resource, and whether it may.
Own(o, f) == IF o.sharing = {} THEN f ELSE Ignored
May(o, f, owner) == IF o.sharing # {} THEN f \in o.sharing ELSE owner \in {Ignored, f}

(* Who uses the resource may use it again.                                 *)
LEMMA MayStays ==
  ASSUME NEW o, NEW f, NEW w, May(o, f, w)
  PROVE  May(o, f, Own(o, f)) /\ Own(o, f) \in {Ignored, f}
BY DEF May, Own

(* What the effects make of a state.                                       *)
LEMMA AccessEffect ==
  ASSUME NEW a, NEW b, NEW c, NEW d, NEW w, NEW x, NEW y, NEW z, NEW old,
         old = [layout |-> a, data |-> b, owner |-> c, heir |-> d],
         NEW new, new = [old EXCEPT !.owner = w, !.data = x]
  PROVE  new = [layout |-> a, data |-> x, owner |-> w, heir |-> d]
<1>1. DOMAIN new = {"layout", "data", "owner", "heir"} OBVIOUS
<1>2. /\ new.layout = [layout |-> a, data |-> x, owner |-> w, heir |-> d].layout
      /\ new.data = [layout |-> a, data |-> x, owner |-> w, heir |-> d].data
      /\ new.owner = [layout |-> a, data |-> x, owner |-> w, heir |-> d].owner
      /\ new.heir = [layout |-> a, data |-> x, owner |-> w, heir |-> d].heir
  OBVIOUS
<1>3. new = [k \in {"layout", "data", "owner", "heir"} |-> new[k]] OBVIOUS
<1> QED BY <1>1, <1>2, <1>3

(* What a barrier makes of a state.                                        *)
LEMMA BarrierEffect ==
  ASSUME NEW a, NEW b, NEW c, NEW d, NEW w, NEW x, NEW y, NEW z, NEW old,
         old = [layout |-> a, data |-> b, owner |-> c, heir |-> d],
         NEW new, new = [old EXCEPT !.owner = w, !.heir = x, !.layout = y, !.data = z]
  PROVE  new = [layout |-> y, data |-> z, owner |-> w, heir |-> x]
<1>1. DOMAIN new = {"layout", "data", "owner", "heir"} OBVIOUS
<1>2. /\ new.layout = [layout |-> y, data |-> z, owner |-> w, heir |-> x].layout
      /\ new.data = [layout |-> y, data |-> z, owner |-> w, heir |-> x].data
      /\ new.owner = [layout |-> y, data |-> z, owner |-> w, heir |-> x].owner
      /\ new.heir = [layout |-> y, data |-> z, owner |-> w, heir |-> x].heir
  OBVIOUS
<1>3. new = [k \in {"layout", "data", "owner", "heir"} |-> new[k]] OBVIOUS
<1> QED BY <1>1, <1>2, <1>3

(* What giving the resource away makes of a state.                         *)
LEMMA ReleaseEffect ==
  ASSUME NEW a, NEW b, NEW c, NEW d, NEW w, NEW x, NEW y, NEW z, NEW old,
         old = [layout |-> a, data |-> b, owner |-> c, heir |-> d],
         NEW new, new = [old EXCEPT !.owner = w, !.heir = x]
  PROVE  new = [layout |-> a, data |-> b, owner |-> w, heir |-> x]
<1>1. DOMAIN new = {"layout", "data", "owner", "heir"} OBVIOUS
<1>2. /\ new.layout = [layout |-> a, data |-> b, owner |-> w, heir |-> x].layout
      /\ new.data = [layout |-> a, data |-> b, owner |-> w, heir |-> x].data
      /\ new.owner = [layout |-> a, data |-> b, owner |-> w, heir |-> x].owner
      /\ new.heir = [layout |-> a, data |-> b, owner |-> w, heir |-> x].heir
  OBVIOUS
<1>3. new = [k \in {"layout", "data", "owner", "heir"} |-> new[k]] OBVIOUS
<1> QED BY <1>1, <1>2, <1>3

(* What a copy relies on and leaves.                                       *)
LEMMA AccessMoves ==
  ASSUME NEW o, NEW f, NEW stage, NEW reads, NEW read, NEW writes, NEW write,
         NEW layout, NEW data, NEW w, May(o, f, w),
         \A n \in reads : layout[n] = read, \A n \in writes : layout[n] = write,
         o.request.staged => reads \subseteq data
  PROVE  /\ Access(stage, reads, read, writes, write).op \in {"access", "barrier"}
         /\ Moves(o, f, Access(stage, reads, read, writes, write),
                  Plainly(layout, data, w), Plainly(layout, data \cup writes, Own(o, f)))
<1> DEFINE c == Access(stage, reads, read, writes, write)
           s == Plainly(layout, data, w)
<1>1. /\ c.op = "access" /\ c.stage = stage /\ c.reads = reads /\ c.read = read
      /\ c.writes = writes /\ c.write = write
  BY DEF Access
<1>2. s.layout = layout /\ s.data = data /\ s.owner = w /\ s.heir = Ignored BY DEF Plainly
<1>3. AccessibleIn(o.sharing, f, s) BY <1>2 DEF AccessibleIn, May
<1>4. SoundIn(o, c, f, s)
  <2> HIDE DEF c, s
  <2> QED BY <1>1, <1>2, <1>3 DEF SoundIn, Laid
<1>5. EffectIn(o, c, f, s) = [s EXCEPT !.owner = Own(o, f), !.data = @ \cup writes]
  <2> HIDE DEF c, s
  <2> QED BY <1>1 DEF EffectIn, Own
<1>6. EffectIn(o, c, f, s) = [s EXCEPT !.owner = Own(o, f), !.data = data \cup writes]
  <2> HIDE DEF c, s
  <2> QED BY <1>2, <1>5
<1>7. EffectIn(o, c, f, s) = Plainly(layout, data \cup writes, Own(o, f))
  <2>1. s = [layout |-> layout, data |-> data, owner |-> w, heir |-> Ignored] BY DEF Plainly
  <2> HIDE DEF c, s
  <2> QED BY <1>6, <2>1, AccessEffect DEF Plainly
<1> QED BY <1>1, <1>4, <1>7 DEF Moves

(* What a barrier relies on and leaves.                                    *)
LEMMA BarrierMoves ==
  ASSUME NEW o, NEW f, NEW levels, NEW old, NEW next, NEW src, NEW dst,
         NEW layout, NEW data, NEW w, May(o, f, w),
         old # "undefined" => \A n \in levels : layout[n] = old
  PROVE  /\ Barrier(levels, old, next, src, dst).op \in {"access", "barrier"}
         /\ Moves(o, f, Barrier(levels, old, next, src, dst), Plainly(layout, data, w),
                  Plainly(Laying(o, levels, next, layout),
                          IF old = "undefined" THEN data \ levels ELSE data, Own(o, f)))
<1> DEFINE c == Barrier(levels, old, next, src, dst)
           s == Plainly(layout, data, w)
           l == Laying(o, levels, next, layout)
           d == IF old = "undefined" THEN data \ levels ELSE data
<1>1. /\ c.op = "barrier" /\ c.levels = levels /\ c.old = old /\ c.new = next
      /\ c.src = src /\ c.dst = dst /\ c.from = c.to
  BY DEF Barrier, Transfer
<1>2. s.layout = layout /\ s.data = data /\ s.owner = w /\ s.heir = Ignored BY DEF Plainly
<1>3. AccessibleIn(o.sharing, f, s) BY <1>2 DEF AccessibleIn, May
<1>4. SoundIn(o, c, f, s)
  <2> HIDE DEF c, s
  <2> QED BY <1>1, <1>2, <1>3 DEF SoundIn, Laid
<1>5. EffectIn(o, c, f, s)
        = [s EXCEPT !.owner = Own(o, f), !.heir = Ignored, !.layout = l, !.data = d]
  <2> HIDE DEF c
  <2>1. EffectIn(o, c, f, s)
          = [s EXCEPT !.owner = Own(o, f), !.heir = Ignored,
               !.layout = [n \in Levels(o.request) |-> IF n \in c.levels THEN c.new ELSE s.layout[n]],
               !.data = IF c.old = "undefined" THEN s.data \ c.levels ELSE s.data]
    <3> HIDE DEF s
    <3> QED BY <1>1 DEF EffectIn, Own
  <2> HIDE DEF s
  <2> QED BY <1>1, <1>2, <2>1 DEF Laying
<1>6. EffectIn(o, c, f, s) = Plainly(l, d, Own(o, f))
  <2>1. s = [layout |-> layout, data |-> data, owner |-> w, heir |-> Ignored] BY DEF Plainly
  <2> HIDE DEF c, s, l, d
  <2> QED BY <1>5, <2>1, BarrierEffect DEF Plainly
<1> QED BY <1>1, <1>4, <1>6 DEF Moves

(* The same with all of the levels.                                        *)
LEMMA BarrierOfAll ==
  ASSUME NEW o, NEW f, NEW old, NEW next, NEW src, NEW dst, NEW now,
         NEW data, NEW w, May(o, f, w), old = "undefined" \/ now = old
  PROVE  Recorded(o, f, <<Barrier(Levels(o.request), old, next, src, dst)>>,
                  Plainly(All(o, now), data, w),
                  Plainly(All(o, next), IF old = "undefined" THEN data \ Levels(o.request) ELSE data,
                          Own(o, f)))
<1> DEFINE L == Levels(o.request)
           c == Barrier(L, old, next, src, dst)
           l == Laying(o, L, next, All(o, now))
           d == IF old = "undefined" THEN data \ L ELSE data
<1>1. old # "undefined" => \A n \in L : All(o, now)[n] = old BY DEF All
<1>2. c.op \in {"access", "barrier"} /\ Moves(o, f, c, Plainly(All(o, now), data, w), Plainly(l, d, Own(o, f)))
  BY <1>1, BarrierMoves
<1>3. l = All(o, next) BY DEF All, Laying
<1> QED BY <1>2, <1>3, RecordedOne

(* Copying the levels that are given, or the contents of a buffer.         *)
LEMMA ImageCopied ==
  ASSUME NEW o, NEW f, NEW now, NEW w, May(o, f, w), o.request.levels \in Nat \ {0}
  PROVE  /\ Recorded(o, f, CopyToImage(o.request), Plainly(All(o, now), {}, w),
                     Plainly(All(o, "transferDst"),
                             IF o.request.mips THEN {0} ELSE Levels(o.request), Own(o, f)))
         /\ CopyToImage(o.request)[Len(CopyToImage(o.request))].op = "access"
         /\ CopyToImage(o.request)[Len(CopyToImage(o.request))].stage = "transfer"
<1> DEFINE r == o.request
           L == Levels(r)
           W == IF r.mips THEN {0} ELSE L
           b == Barrier(L, "undefined", "transferDst", {}, {"transfer"})
           a == Access("transfer", {}, "undefined", W, "transferDst")
           mid == Plainly(All(o, "transferDst"), {}, Own(o, f))
           new == Plainly(All(o, "transferDst"), W, Own(o, f))
<1>1. CopyToImage(r) = <<b>> \o <<a>> BY PairIs DEF CopyToImage
<1>2. Recorded(o, f, <<b>>, Plainly(All(o, now), {}, w), mid)
  <2>1. {} \ L = {} OBVIOUS
  <2> QED BY <2>1, BarrierOfAll
<1>3. Recorded(o, f, <<a>>, mid, new)
  <2>1. \A n \in W : All(o, "transferDst")[n] = "transferDst" BY DEF All, Levels
  <2>2. May(o, f, Own(o, f)) BY MayStays
  <2>3. {} \cup W = W OBVIOUS
  <2>4. a.op \in {"access", "barrier"} /\ Moves(o, f, a, mid, new)
    <3> DEFINE E == {}
    <3>1. \A n \in E : All(o, "transferDst")[n] = "undefined" OBVIOUS
    <3>2. o.request.staged => E \subseteq E OBVIOUS
    <3> HIDE DEF W
    <3> QED BY <2>1, <2>2, <2>3, <3>1, <3>2, AccessMoves
  <2> QED BY <2>4, RecordedOne
<1>4. Len(<<b>>) = 1 /\ <<b>>[1] = b /\ Len(<<a>>) = 1 /\ <<a>>[1] = a BY SingleIs
<1>5. Orders(b, a) BY DEF Orders, Access, Barrier, Transfer
<1>6. a.op = "access" /\ a.stage = "transfer" BY DEF Access
<1> HIDE DEF a, b, mid
<1>7. /\ Recorded(o, f, <<b>> \o <<a>>, Plainly(All(o, now), {}, w), new)
      /\ (<<b>> \o <<a>>)[Len(<<b>> \o <<a>>)] = a
  <2>1. Orders(<<b>>[Len(<<b>>)], <<a>>[1]) /\ <<a>>[Len(<<a>>)] = a BY <1>4, <1>5
  <2> HIDE DEF new
  <2> QED BY <1>2, <1>3, <2>1, RecordedJoin
<1> QED BY <1>1, <1>6, <1>7

(* The same of a buffer, which has one level.                              *)
LEMMA BufferCopied ==
  ASSUME NEW o, NEW f, NEW w, May(o, f, w), o.request.levels = 1
  PROVE  /\ Recorded(o, f, CopyToBuffer, Plainly(All(o, "buffer"), {}, w),
                     Plainly(All(o, "buffer"), Levels(o.request), Own(o, f)))
         /\ CopyToBuffer[Len(CopyToBuffer)].op = "access"
         /\ CopyToBuffer[Len(CopyToBuffer)].stage = "transfer"
<1> DEFINE a == Access("transfer", {}, "buffer", {0}, "buffer")
           l == All(o, "buffer")
<1>1. Levels(o.request) = {0} BY DEF Levels
<1>2. \A n \in {0} : l[n] = "buffer" BY <1>1 DEF All
<1>3. a.op \in {"access", "barrier"} /\ Moves(o, f, a, Plainly(l, {}, w), Plainly(l, {} \cup {0}, Own(o, f)))
  <2> DEFINE E == {}
  <2>1. \A n \in E : l[n] = "buffer" OBVIOUS
  <2>2. o.request.staged => E \subseteq E OBVIOUS
  <2> HIDE DEF l
  <2> QED BY <1>2, <2>1, <2>2, AccessMoves
<1>4. {} \cup {0} = Levels(o.request) BY <1>1
<1>5. Recorded(o, f, <<a>>, Plainly(l, {}, w), Plainly(l, Levels(o.request), Own(o, f)))
  BY <1>3, <1>4, RecordedOne
<1>6. Len(<<a>>) = 1 /\ <<a>>[1] = a /\ a.op = "access" /\ a.stage = "transfer"
  BY SingleIs DEF Access
<1> QED BY <1>5, <1>6 DEF CopyToBuffer

\* The state once k commands of GenerateMipmap were executed.
Scaled(o, k) ==
    [n \in Levels(o.request) |-> IF n <= k \div 2 THEN "transferSrc" ELSE "transferDst"]
Generated(o, f, k) == Plainly(Scaled(o, k), 0 .. (k + 1) \div 2, Own(o, f))
Scalings(o) == 2 * (o.request.levels - 1)

(* The commands by turns copy to a level and make it the next source.      *)
LEMMA GenerateIs ==
  ASSUME NEW o, o.request.levels \in Nat, o.request.levels > 1
  PROVE  /\ IsSeq(GenerateMipmap(o.request)) /\ Len(GenerateMipmap(o.request)) = Scalings(o)
         /\ \A j \in 0 .. o.request.levels - 2 :
              /\ GenerateMipmap(o.request)[2 * j + 1]
                   = Access("transfer", {j}, "transferSrc", {j + 1}, "transferDst")
              /\ GenerateMipmap(o.request)[2 * j + 2]
                   = Barrier({j + 1}, "transferDst", "transferSrc", {"transfer"}, {"transfer"})
<1> DEFINE r == o.request
           m == Scalings(o)
           g == GenerateMipmap(r)
           S == {g[k] : k \in 1..m}
<1>1. m \in Nat BY DEF Scalings
<1>2. g = [k \in 1..m |-> g[k]] BY DEF GenerateMipmap, Scalings
<1>3. IsSeq(g) /\ Len(g) = m
  <2> HIDE DEF g, m
  <2>1. g \in [1..m -> S] BY <1>2
  <2> HIDE DEF S
  <2>2. g \in Seq(S) BY <1>1, <2>1, SeqDef
  <2>3. DOMAIN g = 1..m BY <1>2
  <2>4. Len(g) = m BY <1>1, <2>2, <2>3
  <2> QED BY <2>2, <2>4 DEF IsSeq
<1>4. ASSUME NEW j \in 0 .. r.levels - 2
      PROVE  /\ g[2 * j + 1] = Access("transfer", {j}, "transferSrc", {j + 1}, "transferDst")
             /\ g[2 * j + 2] = Barrier({j + 1}, "transferDst", "transferSrc", {"transfer"}, {"transfer"})
  <2>1. 2 * j + 1 \in 1..m /\ ((2 * j + 1) + 1) \div 2 = j + 1 /\ (2 * j + 1) % 2 = 1 /\ (j + 1) - 1 = j
    BY DEF Scalings
  <2>2. 2 * j + 2 \in 1..m /\ ((2 * j + 2) + 1) \div 2 = j + 1 /\ (2 * j + 2) % 2 # 1
    BY DEF Scalings
  <2>3. g[2 * j + 1] = Access("transfer", {j}, "transferSrc", {j + 1}, "transferDst")
    <3>1. g[2 * j + 1] = Access("transfer", {(j + 1) - 1}, "transferSrc", {j + 1}, "transferDst")
      BY <2>1 DEF GenerateMipmap, Scalings
    <3> QED BY <2>1, <3>1
  <2>4. g[2 * j + 2] = Barrier({j + 1}, "transferDst", "transferSrc", {"transfer"}, {"transfer"})
    BY <2>2 DEF GenerateMipmap, Scalings
  <2> QED BY <2>3, <2>4
<1> QED BY <1>3, <1>4

(* Each blit finds its source and destination, and so does its barrier.    *)
LEMMA GenerateMoves ==
  ASSUME NEW o, NEW f, o.request.levels \in Nat, o.request.levels > 1, May(o, f, Own(o, f)),
         NEW j \in 0 .. o.request.levels - 2
  PROVE  /\ Moves(o, f, Access("transfer", {j}, "transferSrc", {j + 1}, "transferDst"),
                  Generated(o, f, 2 * j), Generated(o, f, 2 * j + 1))
         /\ Moves(o, f, Barrier({j + 1}, "transferDst", "transferSrc", {"transfer"}, {"transfer"}),
                  Generated(o, f, 2 * j + 1), Generated(o, f, 2 * j + 2))
<1> DEFINE a == Access("transfer", {j}, "transferSrc", {j + 1}, "transferDst")
           b == Barrier({j + 1}, "transferDst", "transferSrc", {"transfer"}, {"transfer"})
           l == Scaled(o, 2 * j)
           D == 0..j
           E == 0..(j + 1)
           w == Own(o, f)
           L == Levels(o.request)
<1>1. /\ (2 * j) \div 2 = j /\ (2 * j + 1) \div 2 = j /\ (2 * j + 2) \div 2 = j + 1
      /\ (2 * j + 1) + 1 = 2 * j + 2 /\ ((2 * j + 2) + 1) \div 2 = j + 1
  OBVIOUS
<1>2. j \in L /\ j + 1 \in L /\ \A n \in L : n \in Int BY DEF Levels
<1>3. /\ l = [n \in L |-> IF n <= j THEN "transferSrc" ELSE "transferDst"]
      /\ Scaled(o, 2 * j + 1) = l
      /\ Scaled(o, 2 * j + 2) = [n \in L |-> IF n <= j + 1 THEN "transferSrc" ELSE "transferDst"]
  BY <1>1 DEF Scaled
<1>4. /\ Generated(o, f, 2 * j) = Plainly(l, D, w)
      /\ Generated(o, f, 2 * j + 1) = Plainly(l, E, w)
      /\ Generated(o, f, 2 * j + 2) = Plainly(Scaled(o, 2 * j + 2), E, w)
  BY <1>1, <1>3 DEF Generated
<1>5. l[j] = "transferSrc" /\ l[j + 1] = "transferDst"
  <2>1. j <= j /\ ~(j + 1 <= j) OBVIOUS
  <2> HIDE DEF l, L
  <2> QED BY <1>2, <1>3, <2>1
<1>6. D \cup {j + 1} = E OBVIOUS
<1>7. Moves(o, f, a, Plainly(l, D, w), Plainly(l, E, w))
  <2>1. {j} \subseteq D OBVIOUS
  <2>2. \A n \in {j} : l[n] = "transferSrc" BY <1>5
  <2>3. \A n \in {j + 1} : l[n] = "transferDst" BY <1>5
  <2>4. Moves(o, f, a, Plainly(l, D, w), Plainly(l, D \cup {j + 1}, Own(o, f)))
    <3> HIDE DEF l, D
    <3> QED BY <2>1, <2>2, <2>3, AccessMoves
  <2> HIDE DEF l, D, E, a
  <2> QED BY <1>6, <2>4
<1>8. Laying(o, {j + 1}, "transferSrc", l) = Scaled(o, 2 * j + 2)
  <2>1. ASSUME NEW n \in L
        PROVE  (IF n \in {j + 1} THEN "transferSrc" ELSE l[n])
                 = IF n <= j + 1 THEN "transferSrc" ELSE "transferDst"
    <3>1. l[n] = IF n <= j THEN "transferSrc" ELSE "transferDst" BY <1>3
    <3>2. n <= j + 1 <=> n = j + 1 \/ n <= j
      <4>1. n \in Int BY <1>2
      <4> HIDE DEF L
      <4> QED BY <4>1
    <3> HIDE DEF l
    <3> QED BY <3>1, <3>2
  <2> HIDE DEF l
  <2>2. Laying(o, {j + 1}, "transferSrc", l)
          = [n \in L |-> IF n \in {j + 1} THEN "transferSrc" ELSE l[n]]
    BY DEF Laying
  <2> QED BY <1>3, <2>1, <2>2
<1>9. Moves(o, f, b, Plainly(l, E, w), Plainly(Scaled(o, 2 * j + 2), E, w))
  <2>1. \A n \in {j + 1} : l[n] = "transferDst" BY <1>5
  <2>2. Moves(o, f, b, Plainly(l, E, w),
              Plainly(Laying(o, {j + 1}, "transferSrc", l),
                      IF "transferDst" = "undefined" THEN E \ {j + 1} ELSE E, Own(o, f)))
    <3> HIDE DEF l, E
    <3> QED BY <2>1, BarrierMoves
  <2>3. (IF "transferDst" = "undefined" THEN E \ {j + 1} ELSE E) = E OBVIOUS
  <2> HIDE DEF l, E, b
  <2> QED BY <1>8, <2>2, <2>3
<1> HIDE DEF l, D, E, a, b, w
<1>10. Moves(o, f, a, Generated(o, f, 2 * j), Generated(o, f, 2 * j + 1)) BY <1>4, <1>7
<1>11. Moves(o, f, b, Generated(o, f, 2 * j + 1), Generated(o, f, 2 * j + 2)) BY <1>4, <1>9
<1> QED BY <1>10, <1>11 DEF a, b

(* So all of GenerateMipmap leads from the first level to all of them.     *)
LEMMA GenerateRuns ==
  ASSUME NEW o, NEW f, o.request.levels \in Nat, o.request.levels > 1, May(o, f, Own(o, f))
  PROVE  /\ Recorded(o, f, GenerateMipmap(o.request), Generated(o, f, 0),
                     Generated(o, f, Scalings(o)))
         /\ GenerateMipmap(o.request)[1].op = "access"
         /\ GenerateMipmap(o.request)[1].stage = "transfer"
         /\ GenerateMipmap(o.request)[Scalings(o)].op = "barrier"
         /\ GenerateMipmap(o.request)[Scalings(o)].dst = {"transfer"}
<1> DEFINE g == GenerateMipmap(o.request)
           m == Scalings(o)
           h == o.request.levels - 2
           a(j) == Access("transfer", {j}, "transferSrc", {j + 1}, "transferDst")
           b(j) == Barrier({j + 1}, "transferDst", "transferSrc", {"transfer"}, {"transfer"})
<1>1. IsSeq(g) /\ Len(g) = m /\ \A j \in 0..h : g[2 * j + 1] = a(j) /\ g[2 * j + 2] = b(j)
  BY GenerateIs
<1>2. h \in Nat /\ m = 2 * h + 2 BY DEF Scalings
<1>3. \A j : /\ a(j).op = "access" /\ a(j).stage = "transfer"
             /\ b(j).op = "barrier" /\ b(j).src = {"transfer"} /\ b(j).dst = {"transfer"}
  BY DEF Access, Barrier, Transfer
<1>4. \A j \in 0..h : /\ Moves(o, f, a(j), Generated(o, f, 2 * j), Generated(o, f, 2 * j + 1))
                      /\ Moves(o, f, b(j), Generated(o, f, 2 * j + 1), Generated(o, f, 2 * j + 2))
  BY GenerateMoves
<1> HIDE DEF g, m, h, a, b
<1>5. ASSUME NEW k \in 0 .. m - 1
      PROVE  \E j \in 0..h : k = 2 * j \/ k = 2 * j + 1
  <2>1. k \div 2 \in 0..h /\ (k = 2 * (k \div 2) \/ k = 2 * (k \div 2) + 1) BY <1>2
  <2> QED BY <2>1
<1>6. ASSUME NEW k \in 0 .. m - 1
      PROVE  Moves(o, f, g[k + 1], Generated(o, f, k), Generated(o, f, k + 1))
  <2>1. PICK j \in 0..h : k = 2 * j \/ k = 2 * j + 1 BY <1>5
  <2>2. CASE k = 2 * j
    <3>1. g[k + 1] = a(j) BY <1>1, <2>2
    <3> QED BY <1>4, <2>2, <3>1
  <2>3. CASE k = 2 * j + 1
    <3>1. k + 1 = 2 * j + 2 BY <1>2, <2>3
    <3> QED BY <1>1, <1>4, <2>3, <3>1
  <2> QED BY <2>1, <2>2, <2>3
<1>7. Ran(o, f, g, Generated(o, f, 0), Generated(o, f, m))
  <2> DEFINE states == [k \in 0..m |-> Generated(o, f, k)]
  <2>1. states[0] = Generated(o, f, 0) /\ states[m] = Generated(o, f, m) BY <1>2
  <2>2. \A k \in 0 .. m - 1 : Moves(o, f, g[k + 1], states[k], states[k + 1])
    <3>1. ASSUME NEW k \in 0 .. m - 1
          PROVE  states[k] = Generated(o, f, k) /\ states[k + 1] = Generated(o, f, k + 1)
      BY <1>2
    <3> HIDE DEF states
    <3> QED BY <1>6, <3>1
  <2> HIDE DEF states
  <2> QED BY <1>1, <2>1, <2>2 DEF Ran
<1>8. ASSUME NEW i \in 1..m PROVE g[i].op \in {"access", "barrier"}
  <2>1. i - 1 \in 0 .. m - 1 /\ (i - 1) + 1 = i BY <1>2
  <2>2. PICK j \in 0..h : i - 1 = 2 * j \/ i - 1 = 2 * j + 1 BY <1>5, <2>1
  <2>3. i = 2 * j + 1 \/ i = 2 * j + 2 BY <1>2, <2>2
  <2> QED BY <1>1, <1>3, <2>3
<1>9. ASSUME NEW i \in 1..m, i > 1 PROVE Orders(g[i - 1], g[i])
  <2>1. i - 1 \in 0 .. m - 1 BY <1>2
  <2>2. PICK j \in 0..h : i - 1 = 2 * j \/ i - 1 = 2 * j + 1 BY <1>5, <2>1
  <2>3. CASE i - 1 = 2 * j
    <3>1. i = 2 * j + 1 /\ j - 1 \in 0..h /\ 2 * (j - 1) + 2 = i - 1 BY <1>2, <1>9, <2>3
    <3>2. g[2 * (j - 1) + 2] = b(j - 1) BY <1>1, <3>1
    <3>3. g[i - 1] = b(j - 1) /\ g[i] = a(j) BY <1>1, <3>1, <3>2
    <3> QED BY <1>3, <3>3 DEF Orders
  <2>4. CASE i - 1 = 2 * j + 1
    <3>1. i = 2 * j + 2 BY <1>2, <2>4
    <3>2. g[i - 1] = a(j) /\ g[i] = b(j) BY <1>1, <2>4, <3>1
    <3> QED BY <1>3, <3>2 DEF Orders
  <2> QED BY <2>2, <2>3, <2>4
<1>10. Len(g) # 0 /\ 0 \in 0..h /\ h \in 0..h /\ 2 * 0 + 1 = 1 BY <1>1, <1>2
<1>11. g[1] = a(0)
  <2>1. g[2 * 0 + 1] = a(0) BY <1>1, <1>10
  <2> QED BY <1>10, <2>1
<1>12. g[m] = b(h) BY <1>1, <1>2, <1>10
<1>13. Recorded(o, f, g, Generated(o, f, 0), Generated(o, f, m))
  BY <1>1, <1>7, <1>8, <1>9, <1>10 DEF Recorded, Ordered
<1> QED BY <1>3, <1>11, <1>12, <1>13 DEF g, m

\* What comes next can wait for c at the transfer stage, and does.
Ends(c) ==
    \/ c.op = "access" /\ c.stage = "transfer"
    \/ c.op = "barrier" /\ c.dst = {"transfer"}
Begins(c) == c.op = "barrier" /\ c.src = {"transfer"}

(* A barrier for transfers waits for a transfer before it.                 *)
LEMMA EndsBegins == ASSUME NEW c, NEW d, Ends(c), Begins(d) PROVE Orders(c, d)
BY DEF Ends, Begins, Orders

(* The first level becomes the source, the others destinations.            *)
LEMMA PrepareRuns ==
  ASSUME NEW o, NEW f, NEW w, May(o, f, w), o.request.levels \in Nat, o.request.levels > 1
  PROVE  /\ Recorded(o, f, PrepareGenerateMipmap(o.request),
                     Plainly(All(o, "transferDst"), {0}, w), Generated(o, f, 0))
         /\ Begins(PrepareGenerateMipmap(o.request)[1])
         /\ PrepareGenerateMipmap(o.request)[Len(PrepareGenerateMipmap(o.request))].op = "barrier"
         /\ Ends(PrepareGenerateMipmap(o.request)[Len(PrepareGenerateMipmap(o.request))])
<1> DEFINE r == o.request
           L == Levels(r)
           a == Barrier({0}, "transferDst", "transferSrc", {"transfer"}, {"transfer"})
           b == Barrier(L \ {0}, "undefined", "transferDst", {"transfer"}, {"transfer"})
           l == Laying(o, {0}, "transferSrc", All(o, "transferDst"))
           m == Laying(o, L \ {0}, "transferDst", l)
           old == Plainly(All(o, "transferDst"), {0}, w)
           mid == Plainly(l, {0}, Own(o, f))
           new == Generated(o, f, 0)
<1>1. PrepareGenerateMipmap(r) = <<a>> \o <<b>> BY PairIs DEF PrepareGenerateMipmap
<1>2. 0 \in L BY DEF Levels
<1>3. a.op \in {"access", "barrier"} /\ Moves(o, f, a, old, mid)
  <2>1. \A n \in {0} : All(o, "transferDst")[n] = "transferDst" BY <1>2 DEF All
  <2>2. Moves(o, f, a, old,
              Plainly(l, IF "transferDst" = "undefined" THEN {0} \ {0} ELSE {0}, Own(o, f)))
    BY <2>1, BarrierMoves
  <2>3. a.op = "barrier" BY DEF Barrier, Transfer
  <2>4. (IF "transferDst" = "undefined" THEN {0} \ {0} ELSE {0}) = {0} OBVIOUS
  <2> HIDE DEF a, old, l
  <2> QED BY <2>2, <2>3, <2>4
<1>4. b.op \in {"access", "barrier"} /\ Moves(o, f, b, mid, new)
  <2>1. May(o, f, Own(o, f)) BY MayStays
  <2>2. Moves(o, f, b, mid,
              Plainly(m, IF "undefined" = "undefined" THEN {0} \ (L \ {0}) ELSE {0}, Own(o, f)))
    <3> HIDE DEF l
    <3> QED BY <2>1, BarrierMoves
  <2>3. b.op = "barrier" BY DEF Barrier, Transfer
  <2>4. (IF "undefined" = "undefined" THEN {0} \ (L \ {0}) ELSE {0}) = {0} OBVIOUS
  <2>5. m = Scaled(o, 0)
    <3>1. m = [n \in L |-> IF n \in L \ {0} THEN "transferDst" ELSE l[n]] BY DEF Laying
    <3>2. ASSUME NEW n \in L
          PROVE  (IF n \in L \ {0} THEN "transferDst" ELSE l[n])
                   = IF n <= 0 THEN "transferSrc" ELSE "transferDst"
      <4>1. n \in L \ {0} <=> ~(n <= 0) BY DEF Levels
      <4>2. n <= 0 => n = 0 /\ n \in {0} BY DEF Levels
      <4>3. n = 0 => l[n] = "transferSrc" BY <1>2 DEF Laying
      <4> HIDE DEF l, L
      <4> QED BY <4>1, <4>2, <4>3
    <3>3. 0 \div 2 = 0 OBVIOUS
    <3> HIDE DEF l, m
    <3> QED BY <3>1, <3>2, <3>3 DEF Scaled
  <2>6. 0 .. (0 + 1) \div 2 = {0} OBVIOUS
  <2>7. new = Plainly(m, {0}, Own(o, f)) BY <2>5, <2>6 DEF Generated
  <2> HIDE DEF b, mid, m, new
  <2> QED BY <2>2, <2>3, <2>4, <2>7
<1>5. a.op = "barrier" /\ a.dst = {"transfer"} /\ a.src = {"transfer"}
      /\ b.op = "barrier" /\ b.dst = {"transfer"} /\ b.src = {"transfer"}
  BY DEF Barrier, Transfer
<1> HIDE DEF a, b, l, old, mid, new
<1>6. /\ Len(<<a>>) = 1 /\ <<a>>[1] = a /\ Len(<<b>>) = 1 /\ <<b>>[1] = b
      /\ IsSeq(<<a>>) /\ IsSeq(<<b>>)
  BY SingleIs
<1>7. Recorded(o, f, <<a>>, old, mid) /\ Recorded(o, f, <<b>>, mid, new) BY <1>3, <1>4, RecordedOne
<1>8. Orders(<<a>>[Len(<<a>>)], <<b>>[1]) BY <1>5, <1>6, EndsBegins DEF Ends, Begins
<1>9. /\ Recorded(o, f, <<a>> \o <<b>>, old, new)
      /\ (<<a>> \o <<b>>)[1] = <<a>>[1] /\ (<<a>> \o <<b>>)[Len(<<a>> \o <<b>>)] = <<b>>[Len(<<b>>)]
  BY <1>7, <1>8, RecordedJoin
<1> QED BY <1>1, <1>5, <1>6, <1>9 DEF old, new, Ends, Begins

(* From the copied level to all of the levels, each a source.              *)
LEMMA MipmapsRun ==
  ASSUME NEW o, NEW f, NEW w, May(o, f, w), o.request.levels \in Nat, o.request.levels > 1,
         o.request.mips
  PROVE  /\ Recorded(o, f, Mipmaps(o.request), Plainly(All(o, "transferDst"), {0}, w),
                     Plainly(All(o, "transferSrc"), Levels(o.request), Own(o, f)))
         /\ Begins(Mipmaps(o.request)[1])
         /\ Ends(Mipmaps(o.request)[Len(Mipmaps(o.request))])
<1> DEFINE r == o.request
           a == PrepareGenerateMipmap(r)
           b == GenerateMipmap(r)
           old == Plainly(All(o, "transferDst"), {0}, w)
           mid == Generated(o, f, 0)
           new == Generated(o, f, Scalings(o))
<1>1. Mipmaps(r) = a \o b BY DEF Mipmaps
<1>2. May(o, f, Own(o, f)) BY MayStays
<1>3. Recorded(o, f, a, old, mid) /\ Begins(a[1]) /\ Ends(a[Len(a)]) /\ a[Len(a)].op = "barrier"
  BY PrepareRuns
<1>4. /\ Recorded(o, f, b, mid, new) /\ b[1].op = "access" /\ b[1].stage = "transfer"
      /\ b[Len(b)].op = "barrier" /\ b[Len(b)].dst = {"transfer"}
  <2>1. Len(b) = Scalings(o) BY GenerateIs
  <2>2. /\ Recorded(o, f, b, mid, new) /\ b[1].op = "access" /\ b[1].stage = "transfer"
        /\ b[Scalings(o)].op = "barrier" /\ b[Scalings(o)].dst = {"transfer"}
    BY <1>2, GenerateRuns
  <2> QED BY <2>1, <2>2
<1>5. new = Plainly(All(o, "transferSrc"), Levels(r), Own(o, f))
  <2>1. Scalings(o) \div 2 = r.levels - 1 /\ (Scalings(o) + 1) \div 2 = r.levels - 1
    BY DEF Scalings
  <2>2. Scaled(o, Scalings(o)) = All(o, "transferSrc")
    <3>1. \A n \in Levels(r) : n <= r.levels - 1 BY DEF Levels
    <3> QED BY <2>1, <3>1 DEF Scaled, All
  <2> QED BY <2>1, <2>2 DEF Generated, Levels
<1> HIDE DEF a, b, old, mid, new
<1>6. Orders(a[Len(a)], b[1]) BY <1>3, <1>4 DEF Orders, Ends
<1>7. Recorded(o, f, a \o b, old, new) /\ (a \o b)[1] = a[1] /\ (a \o b)[Len(a \o b)] = b[Len(b)]
  <2>1. Recorded(o, f, a, old, mid) /\ Recorded(o, f, b, mid, new) BY <1>3, <1>4
  <2>2. IsSeq(a) /\ IsSeq(b) /\ Len(a) # 0 /\ Len(b) # 0 BY <2>1 DEF Recorded
  <2>3. (a \o b)[1] = a[1] /\ (a \o b)[Len(a \o b)] = b[Len(b)] BY <2>2, ConcatEnds
  <2>4. Recorded(o, f, a \o b, old, new) BY <1>6, <2>1, RecordedJoin
  <2> QED BY <2>3, <2>4
<1> QED BY <1>1, <1>3, <1>4, <1>5, <1>7 DEF Ends, old

(* The levels that are given are copied, and the others made from them.    *)
LEMMA ImageFilled ==
  ASSUME NEW o, NEW f, NEW now, NEW w, May(o, f, w), o.request.levels \in Nat \ {0},
         o.request.mips => o.request.levels > 1
  PROVE  /\ Recorded(o, f, CopyToImage(o.request) \o Mipmaps(o.request), Plainly(All(o, now), {}, w),
                     Plainly(All(o, Filled(o.request)), Levels(o.request), Own(o, f)))
         /\ Ends((CopyToImage(o.request) \o Mipmaps(o.request))
                    [Len(CopyToImage(o.request) \o Mipmaps(o.request))])
<1> DEFINE r == o.request
           a == CopyToImage(r)
           b == Mipmaps(r)
           old == Plainly(All(o, now), {}, w)
           W == IF r.mips THEN {0} ELSE Levels(r)
           mid == Plainly(All(o, "transferDst"), W, Own(o, f))
           new == Plainly(All(o, Filled(r)), Levels(r), Own(o, f))
<1>1. Recorded(o, f, a, old, mid) /\ Ends(a[Len(a)]) BY ImageCopied DEF Ends
<1>2. CASE ~r.mips
  <2>1. a \o b = a
    <3>1. b = <<>> BY <1>2 DEF Mipmaps
    <3>2. IsSeq(a) BY <1>1 DEF Recorded
    <3> HIDE DEF a, b
    <3> QED BY <3>1, <3>2, SeqIs
  <2>2. mid = new BY <1>2 DEF Filled
  <2> QED BY <1>1, <2>1, <2>2
<1>3. CASE r.mips
  <2>1. May(o, f, Own(o, f)) BY MayStays
  <2>2. mid = Plainly(All(o, "transferDst"), {0}, Own(o, f)) BY <1>3
  <2>3. new = Plainly(All(o, "transferSrc"), Levels(r), Own(o, f)) BY <1>3 DEF Filled
  <2>4. r.levels \in Nat /\ r.levels > 1 BY <1>3
  <2>5. Recorded(o, f, b, mid, new) /\ Begins(b[1]) /\ Ends(b[Len(b)])
    <3> HIDE DEF mid, new
    <3> QED BY <1>3, <2>1, <2>2, <2>3, <2>4, MipmapsRun
  <2> HIDE DEF a, b, mid, new, old
  <2>6. Orders(a[Len(a)], b[1]) BY <1>1, <2>5, EndsBegins
  <2>7. Recorded(o, f, a \o b, old, new) /\ (a \o b)[Len(a \o b)] = b[Len(b)]
    <3>1. Recorded(o, f, a, old, mid) /\ Recorded(o, f, b, mid, new) BY <1>1, <2>5
    <3>2. IsSeq(a) /\ IsSeq(b) /\ Len(a) # 0 /\ Len(b) # 0 BY <3>1 DEF Recorded
    <3>3. (a \o b)[Len(a \o b)] = b[Len(b)] BY <3>2, ConcatEnds
    <3>4. Recorded(o, f, a \o b, old, new) BY <2>6, <3>1, RecordedJoin
    <3> QED BY <3>3, <3>4
  <2> QED BY <2>5, <2>7 DEF a, b, old, new
<1> QED BY <1>2, <1>3

-----------------------------------------------------------------------------
(* From recordings to plans.                                               *)

UsersAgree(o) ==
    \A t \in o.users :
      IF o.sharing = {} THEN \A u \in o.users : o.queues[t][1] = o.queues[u][1]
      ELSE o.queues[t][1] \in o.sharing

Steps(cs) ==
    IsSeq(cs) /\ Ordered(cs) /\ \A i \in 1..Len(cs) : cs[i].op \in {"access", "barrier"}

\* What PlanCovers says.
Covers(o, type, commands, targets, dst) ==
    /\ \A t \in o.users : \A stage \in UseStages(o, t) :
         \/ commands = <<>>
         \/ o.queues[t] = o.queues[type] /\ Orders(commands[Len(commands)], UseOf(o, stage))
         \/ t \in targets /\ stage \in dst[t]
    /\ targets = {} /\ type # "transfer" /\ commands # <<>> => o.users \subseteq {type}

\* p is made of these.
Made(p, o, first, copied, type, commands, targets, dst, wait) ==
    /\ p.queues = o.queues /\ p.request = o.request /\ p.sharing = o.sharing /\ p.users = o.users
    /\ p.first = first /\ p.copied = copied /\ p.type = type /\ p.commands = commands
    /\ p.targets = targets /\ p.dst = dst /\ p.wait = wait

Makes(o, first, copied, type, commands, targets, dst, wait, states) ==
    \E p : Made(p, o, first, copied, type, commands, targets, dst, wait) /\ p.states = states

(* There is a plan of whatever it is made of, and it differs in nothing    *)
(* else.                                                                   *)
LEMMA MadeIs ==
  ASSUME NEW o, NEW first, NEW copied, NEW type, NEW commands, NEW targets, NEW dst, NEW wait,
         NEW states
  PROVE  Makes(o, first, copied, type, commands, targets, dst, wait, states)
<1> DEFINE p == [queues |-> o.queues, request |-> o.request, sharing |-> o.sharing,
                 users |-> o.users, first |-> first, copied |-> copied, type |-> type,
                 commands |-> commands, targets |-> targets, dst |-> dst, wait |-> wait,
                 states |-> states]
<1>1. Made(p, o, first, copied, type, commands, targets, dst, wait) /\ p.states = states BY DEF Made
<1> QED BY <1>1 DEF Makes

(* The plan has the device and the request of what it is made of.          *)
LEMMA SameIn ==
  ASSUME NEW p, NEW o, p.queues = o.queues, p.request = o.request, p.sharing = o.sharing,
         p.users = o.users
  PROVE  /\ \A c, f, s : SoundIn(p, c, f, s) <=> SoundIn(o, c, f, s)
         /\ \A c, f, s : EffectIn(p, c, f, s) = EffectIn(o, c, f, s)
         /\ \A s : Final(p, s) <=> Final(o, s)
         /\ \A t : UseStages(p, t) = UseStages(o, t)
         /\ \A stage : UseOf(p, stage) = UseOf(o, stage)
<1>1. Promise(p) = Promise(o) BY DEF Promise
<1>2. \A c, f, s : SoundIn(p, c, f, s) <=> SoundIn(o, c, f, s) BY DEF SoundIn
<1>3. \A c, f, s : EffectIn(p, c, f, s) = EffectIn(o, c, f, s) BY DEF EffectIn
<1>4. \A s : Final(p, s) <=> Final(o, s) BY <1>1 DEF Final
<1>5. \A t : UseStages(p, t) = UseStages(o, t) BY DEF UseStages
<1>6. \A stage : UseOf(p, stage) = UseOf(o, stage) BY <1>1 DEF UseOf
<1> QED BY <1>2, <1>3, <1>4, <1>5, <1>6

\* Commands of one family, then of another, lead from the state old to new.
RanBoth(o, f, g, s, r, old, new) ==
    \E states :
      /\ states[0] = old /\ states[Len(s) + Len(r)] = new
      /\ \A k \in 0 .. Len(s) + Len(r) - 1 :
           IF k + 1 <= Len(s) THEN Moves(o, f, s[k + 1], states[k], states[k + 1])
           ELSE Moves(o, g, r[k + 1 - Len(s)], states[k], states[k + 1])

(* The states of the first commands and of the others are put together.    *)
LEMMA StatesJoin ==
  ASSUME NEW o, NEW f, NEW g, NEW s, NEW r, IsSeq(s), IsSeq(r), NEW old, NEW mid, NEW new,
         Ran(o, f, s, old, mid), Ran(o, g, r, mid, new)
  PROVE  RanBoth(o, f, g, s, r, old, new)
<1> DEFINE a == Len(s)
           b == Len(r)
<1>1. a \in Nat /\ b \in Nat BY SeqIs
<1>2. PICK x : /\ x[0] = old /\ x[a] = mid
               /\ \A k \in 0 .. a - 1 : Moves(o, f, s[k + 1], x[k], x[k + 1])
  BY DEF Ran
<1>3. PICK y : /\ y[0] = mid /\ y[b] = new
               /\ \A k \in 0 .. b - 1 : Moves(o, g, r[k + 1], y[k], y[k + 1])
  BY DEF Ran
<1> HIDE DEF a, b
<1> DEFINE z == [k \in 0..(a + b) |-> IF k <= a THEN x[k] ELSE y[k - a]]
<1>4. z[0] = old /\ z[a + b] = new
  <2>1. 0 \in 0..(a + b) /\ a + b \in 0..(a + b) /\ 0 <= a /\ (a + b) - a = b
        /\ (a + b <= a => b = 0 /\ a + b = a)
    BY <1>1
  <2> QED BY <1>2, <1>3, <2>1
<1>5. ASSUME NEW k \in 0 .. a + b - 1
      PROVE  IF k + 1 <= a THEN Moves(o, f, s[k + 1], z[k], z[k + 1])
             ELSE Moves(o, g, r[k + 1 - a], z[k], z[k + 1])
  <2>1. CASE k + 1 <= a
    <3>1. k \in 0 .. a - 1 /\ k <= a /\ k \in 0..(a + b) /\ k + 1 \in 0..(a + b) BY <1>1, <2>1
    <3>2. z[k] = x[k] /\ z[k + 1] = x[k + 1] BY <2>1, <3>1
    <3> QED BY <1>2, <2>1, <3>1, <3>2
  <2>2. CASE ~(k + 1 <= a) /\ k = a
    <3>1. /\ 0 \in 0 .. b - 1 /\ k <= a /\ (k + 1) - a = 1 /\ k + 1 - a = 0 + 1
          /\ k \in 0..(a + b) /\ k + 1 \in 0..(a + b)
      BY <1>1, <2>2
    <3>2. z[k] = mid /\ z[k + 1] = y[1] BY <1>2, <2>2, <3>1
    <3>3. Moves(o, g, r[0 + 1], y[0], y[0 + 1]) BY <1>3, <3>1
    <3> QED BY <1>3, <2>2, <3>1, <3>2, <3>3
  <2>3. CASE ~(k + 1 <= a) /\ k # a
    <3>1. /\ k - a \in 0 .. b - 1 /\ ~(k <= a) /\ (k + 1) - a = (k - a) + 1
          /\ k + 1 - a = (k - a) + 1
          /\ k \in 0..(a + b) /\ k + 1 \in 0..(a + b)
      BY <1>1, <2>3
    <3>2. z[k] = y[k - a] /\ z[k + 1] = y[(k - a) + 1] BY <2>3, <3>1
    <3>3. Moves(o, g, r[(k - a) + 1], y[k - a], y[(k - a) + 1]) BY <1>3, <3>1
    <3> QED BY <2>3, <3>1, <3>2, <3>3
  <2> QED BY <2>1, <2>2, <2>3
<1> HIDE DEF z
<1> QED BY <1>4, <1>5 DEF a, b, RanBoth

PlanExists(o, first, copied, type, commands, targets, dst, wait, old) ==
    \E p : /\ Made(p, o, first, copied, type, commands, targets, dst, wait)
           /\ Plan(p) /\ p.states[0] = old

(* What follows, covers its users and ends as they expect is a plan.       *)
LEMMA PlanMade ==
  ASSUME NEW o, NEW first \in Types, NEW copied, NEW type \in Types, NEW commands,
         NEW targets \in SUBSET Types, NEW dst, NEW wait, NEW old, NEW mid, NEW new,
         o.users \subseteq Types, Steps(copied), Steps(commands),
         commands = <<>> => copied = <<>> /\ targets = {},
         Ran(o, o.queues[first][1], copied, old, mid),
         Ran(o, o.queues[type][1], commands, mid, new),
         copied # <<>> => /\ o.queues[first] # o.queues[type] /\ type \notin targets
                          /\ Orders(Awaited(type, wait), commands[1]),
         Covers(o, type, commands, targets, dst), Final(o, new), UsersAgree(o)
  PROVE  PlanExists(o, first, copied, type, commands, targets, dst, wait, old)
<1> DEFINE a == Len(copied)
           b == Len(commands)
           f == o.queues[first][1]
           g == o.queues[type][1]
<1>1. IsSeq(copied) /\ IsSeq(commands) BY DEF Steps
<1>2. a \in Nat /\ b \in Nat /\ DOMAIN copied = 1..a /\ DOMAIN commands = 1..b BY <1>1, SeqIs
<1>0. RanBoth(o, f, g, copied, commands, old, new) BY <1>1, StatesJoin
<1>3. PICK states :
           /\ states[0] = old /\ states[a + b] = new
           /\ \A k \in 0 .. a + b - 1 :
                IF k + 1 <= a THEN Moves(o, f, copied[k + 1], states[k], states[k + 1])
                ELSE Moves(o, g, commands[k + 1 - a], states[k], states[k + 1])
  BY <1>0 DEF RanBoth
<1>4. PICK p : Made(p, o, first, copied, type, commands, targets, dst, wait) /\ p.states = states
  <2>1. Makes(o, first, copied, type, commands, targets, dst, wait, states) BY MadeIs
  <2> QED BY <2>1 DEF Makes
<1>5. /\ p.queues = o.queues /\ p.request = o.request /\ p.sharing = o.sharing /\ p.users = o.users
      /\ p.first = first /\ p.copied = copied /\ p.type = type /\ p.commands = commands
      /\ p.targets = targets /\ p.dst = dst /\ p.wait = wait
  BY <1>4 DEF Made
<1>6. /\ \A c, h, s : SoundIn(p, c, h, s) <=> SoundIn(o, c, h, s)
      /\ \A c, h, s : EffectIn(p, c, h, s) = EffectIn(o, c, h, s)
      /\ \A s : Final(p, s) <=> Final(o, s)
      /\ \A t : UseStages(p, t) = UseStages(o, t)
      /\ \A stage : UseOf(p, stage) = UseOf(o, stage)
  BY <1>5, SameIn
<1>7. Copies(p) = a /\ Commands(p) = b /\ Total(p) = a + b BY <1>5 DEF Copies, Commands, Total
<1>8. PlanTypes(p) BY <1>1, <1>2, <1>5 DEF PlanTypes, Steps
<1>9. PlanOrdered(p) BY <1>2, <1>5 DEF PlanOrdered, Split, Steps, Ordered
<1>10. PlanCovers(p)
  <2>1. ASSUME NEW t \in p.users, NEW stage \in UseStages(p, t) PROVE Covered(p, t, stage)
    BY <1>5, <1>6, <1>7 DEF Covers, Covered
  <2> QED BY <1>5, <2>1 DEF PlanCovers, Covers
<1>11. PlanSound(p)
  <2>1. ASSUME NEW k \in 0 .. a + b - 1
        PROVE  /\ SoundIn(p, Command(p, k + 1), Executor(p, k + 1), p.states[k])
               /\ EffectIn(p, Command(p, k + 1), Executor(p, k + 1), p.states[k]) = p.states[k + 1]
    <3>1. CASE k + 1 <= a
      <4>1. Command(p, k + 1) = copied[k + 1] /\ Executor(p, k + 1) = f
        BY <1>5, <1>7, <3>1 DEF Command, Executor
      <4>2. Moves(o, f, copied[k + 1], states[k], states[k + 1]) BY <1>3, <3>1
      <4> QED BY <1>4, <1>6, <4>1, <4>2 DEF Moves
    <3>2. CASE ~(k + 1 <= a)
      <4>1. Command(p, k + 1) = commands[k + 1 - a] /\ Executor(p, k + 1) = g
        BY <1>5, <1>7, <3>2 DEF Command, Executor
      <4>2. Moves(o, g, commands[k + 1 - a], states[k], states[k + 1]) BY <1>3, <3>2
      <4> QED BY <1>4, <1>6, <4>1, <4>2 DEF Moves
    <3> QED BY <3>1, <3>2
  <2>2. Final(p, p.states[Total(p)]) BY <1>3, <1>4, <1>6, <1>7
  <2>3. \A t \in p.users :
          IF p.sharing = {} THEN \A u \in p.users : p.queues[t][1] = p.queues[u][1]
          ELSE p.queues[t][1] \in p.sharing
    BY <1>5 DEF UsersAgree
  <2> QED BY <1>7, <2>1, <2>2, <2>3 DEF PlanSound
<1>12. p.states[0] = old BY <1>3, <1>4
<1> QED BY <1>4, <1>8, <1>9, <1>10, <1>11, <1>12 DEF Plan, PlanExists

\* The calls are those of a plan that begins in the state old.
Planned(o, old, calls) ==
    \E p : /\ Plan(p) /\ p.states[0] = old /\ Scripted(p, calls)
           /\ p.queues = o.queues /\ p.request = o.request
           /\ p.sharing = o.sharing /\ p.users = o.users

\* Each target is made to wait.
CallOf(t, stages) == [call |-> "wait", type |-> t, semaphore |-> t, stages |-> stages]
Asks(targets, dst, w) ==
    /\ IsSeq(w)
    /\ \A i \in 1..Len(w) : \E t \in targets : w[i] = CallOf(t, dst[t])
    /\ \A t \in targets : \E i \in 1..Len(w) : w[i] = CallOf(t, dst[t])

(* No waits, one of them, and some after others.                           *)
LEMMA AsksNothing == ASSUME NEW dst PROVE Asks({}, dst, <<>>)
BY EmptyIsSeq DEF Asks

LEMMA AsksOne == ASSUME NEW t, NEW dst PROVE Asks({t}, dst, AddWait(t, dst[t]))
<1> DEFINE c == CallOf(t, dst[t])
           w == <<c>>
<1>1. IsSeq(w) /\ Len(w) = 1 /\ w[1] = c BY SingleIs
<1>2. AddWait(t, dst[t]) = w BY DEF AddWait, CallOf
<1> HIDE DEF w
<1>3. 1 \in 1..Len(w) /\ \A i \in 1..Len(w) : i = 1 BY <1>1
<1>4. \E i \in 1..Len(w) : w[i] = c BY <1>1, <1>3
<1>5. \A i \in 1..Len(w) : w[i] = c BY <1>1, <1>3
<1> QED BY <1>1, <1>2, <1>4, <1>5 DEF Asks

LEMMA AsksJoin ==
  ASSUME NEW T, NEW U, NEW dst, NEW w, NEW v, Asks(T, dst, w), Asks(U, dst, v)
  PROVE  Asks(T \cup U, dst, w \o v)
<1> DEFINE c == w \o v
           a == Len(w)
           b == Len(v)
<1>1. IsSeq(w) /\ IsSeq(v) BY DEF Asks
<1>2. a \in Nat /\ b \in Nat BY <1>1, SeqIs
<1>3. /\ IsSeq(c) /\ Len(c) = a + b
      /\ \A i \in 1..a : c[i] = w[i]
      /\ \A i \in 1..b : c[a + i] = v[i]
      /\ \A i \in 1..(a + b) : \/ i \in 1..a /\ c[i] = w[i]
                               \/ i - a \in 1..b /\ c[i] = v[i - a]
  BY <1>1, ConcatIs
<1>4. /\ \A i \in 1..a : \E t \in T : w[i] = CallOf(t, dst[t])
      /\ \A t \in T : \E i \in 1..a : w[i] = CallOf(t, dst[t])
      /\ \A i \in 1..b : \E t \in U : v[i] = CallOf(t, dst[t])
      /\ \A t \in U : \E i \in 1..b : v[i] = CallOf(t, dst[t])
  BY DEF Asks
<1> HIDE DEF a, b, c
<1>5. ASSUME NEW i \in 1..(a + b) PROVE \E t \in T \cup U : c[i] = CallOf(t, dst[t])
  <2>1. CASE i \in 1..a /\ c[i] = w[i] BY <1>4, <2>1
  <2>2. CASE i - a \in 1..b /\ c[i] = v[i - a] BY <1>4, <2>2
  <2> QED BY <1>3, <2>1, <2>2
<1>6. ASSUME NEW t \in T \cup U PROVE \E i \in 1..(a + b) : c[i] = CallOf(t, dst[t])
  <2>1. CASE t \in T
    <3>1. PICK i \in 1..a : w[i] = CallOf(t, dst[t]) BY <1>4, <2>1
    <3>2. i \in 1..(a + b) BY <1>2
    <3> QED BY <1>3, <3>1, <3>2
  <2>2. CASE t \in U
    <3>1. PICK i \in 1..b : v[i] = CallOf(t, dst[t]) BY <1>4, <2>2
    <3>2. a + i \in 1..(a + b) BY <1>2
    <3> QED BY <1>3, <3>1, <3>2
  <2> QED BY <2>1, <2>2
<1> QED BY <1>3, <1>5, <1>6 DEF Asks, c

\* The stages that each of the types waits at.
Narrowed(stages) == [t \in Types |-> stages \cap Visible(t)]

(* AddWaits asks each of the targets to wait.                              *)
LEMMA AddWaitsAsks ==
  ASSUME NEW targets \in SUBSET Types, NEW stages
  PROVE  Asks(targets, Narrowed(stages), AddWaits(targets, stages))
<1> DEFINE dst == Narrowed(stages)
           wait(t) == IF t \in targets THEN AddWait(t, stages \cap Visible(t)) ELSE <<>>
<1>1. ASSUME NEW t \in Types PROVE Asks(targets \cap {t}, dst, wait(t))
  <2>1. dst[t] = stages \cap Visible(t) BY DEF Narrowed
  <2>2. CASE t \in targets
    <3>1. wait(t) = AddWait(t, dst[t]) /\ targets \cap {t} = {t} BY <2>1, <2>2
    <3> HIDE DEF dst, wait
    <3> QED BY <3>1, AsksOne
  <2>3. CASE t \notin targets
    <3>1. wait(t) = <<>> /\ targets \cap {t} = {} BY <2>3
    <3> HIDE DEF dst, wait
    <3> QED BY <3>1, AsksNothing
  <2> QED BY <2>2, <2>3
<1>2. AddWaits(targets, stages) = (wait("graphics") \o wait("compute")) \o wait("transfer")
  BY DEF AddWaits
<1> HIDE DEF dst, wait
<1>3. /\ Asks(targets \cap {"graphics"}, dst, wait("graphics"))
      /\ Asks(targets \cap {"compute"}, dst, wait("compute"))
      /\ Asks(targets \cap {"transfer"}, dst, wait("transfer"))
  BY <1>1 DEF Types
<1>4. Asks((targets \cap {"graphics"}) \cup (targets \cap {"compute"}), dst,
           wait("graphics") \o wait("compute"))
  BY <1>3, AsksJoin
<1>5. Asks(((targets \cap {"graphics"}) \cup (targets \cap {"compute"})) \cup (targets \cap {"transfer"}),
           dst, (wait("graphics") \o wait("compute")) \o wait("transfer"))
  BY <1>3, <1>4, AsksJoin
<1>6. ((targets \cap {"graphics"}) \cup (targets \cap {"compute"})) \cup (targets \cap {"transfer"}) = targets
  BY DEF Types
<1> QED BY <1>2, <1>5, <1>6 DEF dst

(* Those are the waits of the plan.                                        *)
LEMMA AsksAre ==
  ASSUME NEW p, NEW w, Asks(p.targets, p.dst, w)
  PROVE  WaitCalls(p, w)
<1>1. DOMAIN w = 1..Len(w) BY SeqIs DEF Asks
<1>2. \A t : WaitCall(p, t) = CallOf(t, p.dst[t]) BY DEF WaitCall, CallOf
<1> QED BY <1>1, <1>2 DEF Asks, WaitCalls

(* No commands lead from a state to itself.                                *)
LEMMA RanNothing == ASSUME NEW o, NEW f, NEW s PROVE Ran(o, f, <<>>, s, s)
<1> DEFINE states == [k \in {0} |-> s]
<1>1. states[0] = s /\ states[Len(<<>>)] = s BY EmptyIsSeq
<1>2. \A k \in 0 .. Len(<<>>) - 1 : FALSE BY EmptyIsSeq
<1> HIDE DEF states
<1> QED BY <1>1, <1>2 DEF Ran

(* What is recorded is some commands; to record nothing is none.           *)
LEMMA StepsOf == ASSUME NEW o, NEW f, NEW cs, NEW old, NEW new, Recorded(o, f, cs, old, new)
  PROVE  Steps(cs) /\ cs # <<>> /\ Ran(o, f, cs, old, new)
BY EmptyIsSeq DEF Recorded, Steps

LEMMA NoSteps == Steps(<<>>)
BY EmptyIsSeq DEF Steps, Ordered

(* Nothing is recorded.                                                    *)
LEMMA PlannedNothing ==
  ASSUME NEW o, NEW old, o.users \subseteq Types, Final(o, old), UsersAgree(o)
  PROVE  Planned(o, old, <<>>)
<1> DEFINE E == {}
<1>1. "transfer" \in Types /\ E \in SUBSET Types BY DEF Types
<1>2. Covers(o, "transfer", <<>>, E, E) BY DEF Covers
<1>3. Steps(<<>>) BY NoSteps
<1>4. \A f : Ran(o, f, <<>>, old, old) BY RanNothing
<1>5. PICK p : /\ Made(p, o, "transfer", <<>>, "transfer", <<>>, E, E, E)
               /\ Plan(p) /\ p.states[0] = old
  <2>1. PlanExists(o, "transfer", <<>>, "transfer", <<>>, E, E, E, old)
    BY <1>1, <1>2, <1>3, <1>4, PlanMade
  <2> QED BY <2>1 DEF PlanExists
<1>6. Scripted(p, <<>>) BY <1>5 DEF Made, Scripted
<1> QED BY <1>5, <1>6 DEF Planned, Made

(* All of it is recorded for one queue.                                    *)
LEMMA PlannedOne ==
  ASSUME NEW o, NEW type \in Types, NEW commands, NEW targets \in SUBSET Types, NEW dst,
         NEW old, NEW new, NEW w, Asks(targets, dst, w),
         o.users \subseteq Types, Recorded(o, o.queues[type][1], commands, old, new),
         Covers(o, type, commands, targets, dst), Final(o, new), UsersAgree(o)
  PROVE  Planned(o, old, Submit(type, commands, targets) \o w)
<1>1. Steps(commands) /\ commands # <<>> /\ Ran(o, o.queues[type][1], commands, old, new)
  BY StepsOf
<1>2. Steps(<<>>) /\ Ran(o, o.queues[type][1], <<>>, old, old) BY NoSteps, RanNothing
<1>3. PICK p : /\ Made(p, o, type, <<>>, type, commands, targets, dst, {})
               /\ Plan(p) /\ p.states[0] = old
  <2>1. PlanExists(o, type, <<>>, type, commands, targets, dst, {}, old)
    BY <1>1, <1>2, PlanMade
  <2> QED BY <2>1 DEF PlanExists
<1>4. Submit(type, commands, targets) = <<LastCall(p)>> BY <1>3 DEF Made, Submit, LastCall
<1>5. WaitCalls(p, w) BY <1>3, AsksAre DEF Made
<1>6. Scripted(p, Submit(type, commands, targets) \o w)
  BY <1>1, <1>3, <1>4, <1>5 DEF Scripted, Made, Split
<1> QED BY <1>3, <1>6 DEF Planned, Made

(* The first of it is recorded for another.                                *)
LEMMA PlannedTwo ==
  ASSUME NEW o, NEW first \in Types, NEW copied, NEW type \in Types, NEW commands,
         NEW targets \in SUBSET Types, NEW dst, NEW wait, NEW old, NEW mid, NEW new, NEW w,
         Asks(targets, dst, w), o.users \subseteq Types,
         Recorded(o, o.queues[first][1], copied, old, mid),
         Recorded(o, o.queues[type][1], commands, mid, new),
         o.queues[first] # o.queues[type], type \notin targets,
         Orders(Awaited(type, wait), commands[1]),
         Covers(o, type, commands, targets, dst), Final(o, new), UsersAgree(o)
  PROVE  Planned(o, old, (Submit(first, copied, {type}) \o AddWait(type, wait))
                           \o (Submit(type, commands, targets) \o w))
<1>1. /\ Steps(commands) /\ commands # <<>> /\ Ran(o, o.queues[type][1], commands, mid, new)
      /\ Steps(copied) /\ copied # <<>> /\ Ran(o, o.queues[first][1], copied, old, mid)
  BY StepsOf
<1>2. PICK p : /\ Made(p, o, first, copied, type, commands, targets, dst, wait)
               /\ Plan(p) /\ p.states[0] = old
  <2>1. PlanExists(o, first, copied, type, commands, targets, dst, wait, old) BY <1>1, PlanMade
  <2> QED BY <2>1 DEF PlanExists
<1>3. /\ Submit(type, commands, targets) = <<LastCall(p)>>
      /\ Submit(first, copied, {type}) = <<FirstCall(p)>>
      /\ AddWait(type, wait) = <<FirstWait(p)>>
  BY <1>2 DEF Made, Submit, AddWait, LastCall, FirstCall, FirstWait
<1>4. WaitCalls(p, w) BY <1>2, AsksAre DEF Made
<1> DEFINE a == <<FirstCall(p)>>
           b == <<FirstWait(p)>>
           l == <<LastCall(p)>>
           c == l \o w
<1>5. IsSeq(a) /\ IsSeq(b) /\ IsSeq(l) BY SingleIs
<1>6. IsSeq(w) BY DEF Asks
<1> HIDE DEF a, b, l
<1>7. IsSeq(c) BY <1>5, <1>6, ConcatIs
<1> HIDE DEF c
<1>8. (a \o b) \o c = a \o (b \o c) BY <1>5, <1>7, ConcatAssoc
<1>9. Scripted(p, a \o (b \o c))
  BY <1>1, <1>2, <1>4 DEF Scripted, Made, Split, a, b, c, l
<1>10. (Submit(first, copied, {type}) \o AddWait(type, wait)) \o (Submit(type, commands, targets) \o w)
         = (a \o b) \o c
  BY <1>3 DEF a, b, c, l
<1>11. Scripted(p, (a \o b) \o c) BY <1>8, <1>9
<1> QED BY <1>2, <1>10, <1>11 DEF Planned, Made

-----------------------------------------------------------------------------
(* What is asked for.                                                      *)

\* o is the device and the request, and what follows from them.
Given(o) ==
    /\ queues = o.queues /\ request = o.request /\ Sharing(request) = o.sharing
    /\ o.users = IF Usable THEN {t \in Types : OwnedBy(request, t)} ELSE {}
    /\ o.request \in CreateInfo
    /\ o.request.sharing = "exclusive" => Cardinality(o.request.owners) = 1
    /\ o.request.kind = "image" /\ o.request.staged => o.request.layout = "initial"
    /\ o.request.mips => o.request.kind = "image" /\ o.request.levels > 1
    /\ o.request.kind = "buffer" => o.request.levels = 1
    /\ Handled(o.queues, o.request)

\* The types that own the resource, and those it may be shared with.
Owning(o) == {PhysicalOn(o.queues, x) : x \in o.request.owners}
Involved(o) ==
    Owning(o) \cup (IF o.request.staged THEN {"transfer"} ELSE {})
              \cup (IF o.request.kind = "image" /\ o.request.mips THEN {"graphics"} ELSE {})

(* What is asked for is a CreateInfo, on the device.                       *)
LEMMA GivenIs ==
  ASSUME NEW o, Given(o)
  PROVE  /\ \A t : Family(t) = o.queues[t][1]
         /\ \A x : Physical(x) = PhysicalOn(o.queues, x)
         /\ o.request.levels \in Nat \ {0} /\ o.request.stages # {}
         /\ o.request.owners # {} /\ o.request.owners \subseteq Owners
         /\ o.request.kind \in {"image", "buffer"} /\ o.request.domain \in {"device", "host"}
         /\ o.request.staged \in BOOLEAN /\ o.request.mips \in BOOLEAN
         /\ o.request.sharing \in {"concurrent", "exclusive"}
         /\ o.request.layout \in {"undefined", "initial"}
         /\ o.request.stages \subseteq Stages
<1>1. o.request \in CreateInfo /\ queues = o.queues /\ o.request.stages # {} BY DEF Given, Handled
<1>2. /\ \A t : Family(t) = o.queues[t][1]
      /\ \A x : Physical(x) = PhysicalOn(o.queues, x)
  BY <1>1 DEF Family, Physical
<1> DEFINE r == o.request
<1>3. /\ r.levels \in Nat \ {0} /\ r.owners \in (SUBSET Owners) \ {{}}
      /\ r.kind \in {"image", "buffer"} /\ r.domain \in {"device", "host"}
      /\ r.staged \in BOOLEAN /\ r.mips \in BOOLEAN
      /\ r.sharing \in {"concurrent", "exclusive"}
      /\ r.layout \in {"undefined", "initial"} /\ r.stages \in SUBSET Stages
  <2>1. r \in CreateInfo BY <1>1
  <2> HIDE DEF r
  <2> QED BY <2>1 DEF CreateInfo
<1>4. r.owners # {} /\ r.owners \subseteq Owners /\ r.stages \subseteq Stages BY <1>3
<1> HIDE DEF r
<1> QED BY <1>1, <1>2, <1>3, <1>4 DEF r

(* The owners are types, and so are the users, who are among them.         *)
LEMMA OwningIs ==
  ASSUME NEW o, Given(o)
  PROVE  /\ Owning(o) \subseteq Types /\ Owning(o) # {} /\ Owning(o) \subseteq Involved(o)
         /\ Involved(o) \subseteq Types
         /\ \A t : OwnedBy(o.request, t) <=> t \in Owning(o)
         /\ o.users \subseteq Owning(o)
<1>1. /\ o.request.owners # {} /\ o.request.owners \subseteq Owners
      /\ \A x : Physical(x) = PhysicalOn(o.queues, x)
  BY GivenIs
<1>2. \A x \in Owners : PhysicalOn(o.queues, x) \in Types BY DEF PhysicalOn, Owners, Types
<1>3. Owning(o) \subseteq Types /\ Owning(o) # {} BY <1>1, <1>2 DEF Owning
<1>4. \A t : OwnedBy(o.request, t) <=> t \in Owning(o) BY <1>1 DEF OwnedBy, Owning
<1>5. o.users \subseteq Owning(o) BY <1>4 DEF Given
<1>6. Owning(o) \subseteq Involved(o) /\ Involved(o) \subseteq Types BY <1>3 DEF Involved, Types
<1> QED BY <1>3, <1>4, <1>5, <1>6

(* If there are no two of them, any two are the same.                      *)
LEMMA FewAreOne ==
  ASSUME NEW S, NEW a, NEW b, NEW c, S \subseteq {a, b, c}, ~(Cardinality(S) > 1)
  PROVE  \A x, y \in S : x = y
<1>1. IsFiniteSet({a, b, c})
  <2>1. IsFiniteSet({a}) /\ IsFiniteSet({b}) /\ IsFiniteSet({c}) BY FS_Singleton
  <2>2. IsFiniteSet({a} \cup {b}) BY <2>1, FS_AddElement
  <2>3. IsFiniteSet(({a} \cup {b}) \cup {c}) BY <2>2, FS_AddElement
  <2>4. ({a} \cup {b}) \cup {c} = {a, b, c} OBVIOUS
  <2> QED BY <2>3, <2>4
<1>2. IsFiniteSet(S) BY <1>1, FS_Subset
<1>3. Cardinality(S) \in Nat BY <1>2, FS_CardinalityType
<1>4. CASE Cardinality(S) = 0
  <2>1. S = {} BY <1>2, <1>4, FS_EmptySet
  <2> QED BY <2>1
<1>5. CASE Cardinality(S) = 1
  <2>1. \E x : S = {x} BY <1>2, <1>5, FS_Singleton
  <2> QED BY <2>1
<1> QED BY <1>3, <1>4, <1>5

(* The families that a resource is shared between are the same, or listed. *)
LEMMA SharingIs ==
  ASSUME NEW o, Given(o), Concurrent(o.request)
  PROVE  \A t \in Involved(o) :
           IF o.sharing = {} THEN \A u \in Involved(o) : o.queues[t][1] = o.queues[u][1]
           ELSE o.queues[t][1] \in o.sharing
<1> DEFINE families == {o.queues[t][1] : t \in Involved(o)}
<1>1. o.sharing = IF Cardinality(families) > 1 THEN families ELSE {}
  <2>1. /\ Sharing(o.request) = o.sharing
        /\ \A t : Family(t) = o.queues[t][1]
        /\ \A x : Physical(x) = PhysicalOn(o.queues, x)
    BY GivenIs DEF Given
  <2>2. {Physical(x) : x \in o.request.owners} = Owning(o) BY <2>1 DEF Owning
  <2> DEFINE types == {Physical(x) : x \in o.request.owners}
                        \cup (IF o.request.staged THEN {"transfer"} ELSE {})
                        \cup (IF o.request.kind = "image" /\ o.request.mips THEN {"graphics"} ELSE {})
  <2>3. types = Involved(o) BY <2>2 DEF Involved
  <2>4. Sharing(o.request)
          = LET F == {Family(t) : t \in types}
            IN  IF Concurrent(o.request) /\ Cardinality(F) > 1 THEN F ELSE {}
    BY DEF Sharing
  <2> HIDE DEF types
  <2>5. {Family(t) : t \in types} = families BY <2>1, <2>3
  <2> QED BY <2>1, <2>4, <2>5
<1>2. families # {} BY OwningIs
<1>3. families \subseteq {o.queues["graphics"][1], o.queues["compute"][1], o.queues["transfer"][1]}
  BY OwningIs DEF Types
<1>4. \A t \in Involved(o) : o.queues[t][1] \in families OBVIOUS
<1> HIDE DEF families
<1>5. CASE Cardinality(families) > 1 BY <1>1, <1>2, <1>4, <1>5
<1>6. CASE ~(Cardinality(families) > 1)
  <2>1. \A x, y \in families : x = y BY <1>3, <1>6, FewAreOne
  <2> QED BY <1>1, <1>4, <1>6, <2>1
<1> QED BY <1>5, <1>6

(* A resource that is not shared has one owner.                            *)
LEMMA ExclusiveIs ==
  ASSUME NEW o, Given(o), ~Concurrent(o.request)
  PROVE  o.sharing = {} /\ Owning(o) = {Physical(Owner(o.request))}
<1>1. o.request.sharing = "exclusive" BY GivenIs DEF Concurrent
<1>2. o.sharing = {} BY DEF Given, Sharing
<1>3. IsFiniteSet(o.request.owners)
  <2>1. IsFiniteSet({"graphics", "compute", "transfer", "asyncGraphics"})
    <3>1. /\ IsFiniteSet({"graphics"}) /\ IsFiniteSet({"graphics"} \cup {"compute"}) 
      BY FS_Singleton, FS_AddElement
    <3>2. IsFiniteSet(({"graphics"} \cup {"compute"}) \cup {"transfer"}) BY <3>1, FS_AddElement
    <3>3. IsFiniteSet((({"graphics"} \cup {"compute"}) \cup {"transfer"}) \cup {"asyncGraphics"})
      BY <3>2, FS_AddElement
    <3>4. (({"graphics"} \cup {"compute"}) \cup {"transfer"}) \cup {"asyncGraphics"}
            = {"graphics", "compute", "transfer", "asyncGraphics"}
      OBVIOUS
    <3> QED BY <3>3, <3>4
  <2>2. o.request.owners \subseteq {"graphics", "compute", "transfer", "asyncGraphics"}
    BY GivenIs DEF Owners, Types
  <2> QED BY <2>1, <2>2, FS_Subset
<1>4. \E x : o.request.owners = {x} BY <1>1, <1>3, FS_Singleton DEF Given
<1>5. PICK x : o.request.owners = {x} BY <1>4
<1>6. Owner(o.request) = x BY <1>5 DEF Owner
<1>7. Physical(x) = PhysicalOn(o.queues, x) BY GivenIs
<1> QED BY <1>2, <1>5, <1>6, <1>7 DEF Owning

(* The users are of one family, or share the resource.                     *)
LEMMA GivenAgree ==
  ASSUME NEW o, Given(o)
  PROVE  UsersAgree(o) /\ o.users \subseteq Types
<1>1. o.users \subseteq Owning(o) /\ o.users \subseteq Types /\ o.users \subseteq Involved(o)
  BY OwningIs
<1>2. CASE Concurrent(o.request)
  <2>1. \A t \in Involved(o) :
          IF o.sharing = {} THEN \A u \in Involved(o) : o.queues[t][1] = o.queues[u][1]
          ELSE o.queues[t][1] \in o.sharing
    BY <1>2, SharingIs
  <2> QED BY <1>1, <2>1 DEF UsersAgree
<1>3. CASE ~Concurrent(o.request)
  <2>1. o.sharing = {} /\ \E x : Owning(o) = {x} BY <1>3, ExclusiveIs
  <2> QED BY <1>1, <2>1 DEF UsersAgree
<1> QED BY <1>1, <1>2, <1>3

(* Who may use the resource first, and who after the family of another.    *)
LEMMA MayBegin ==
  ASSUME NEW o, Given(o), NEW t, Concurrent(o.request) => t \in Involved(o)
  PROVE  May(o, o.queues[t][1], Ignored)
<1>1. CASE Concurrent(o.request)
  <2>1. IF o.sharing = {} THEN \A u \in Involved(o) : o.queues[t][1] = o.queues[u][1]
        ELSE o.queues[t][1] \in o.sharing
    BY <1>1, SharingIs
  <2> QED BY <2>1 DEF May
<1>2. CASE ~Concurrent(o.request) BY <1>2, ExclusiveIs DEF May
<1> QED BY <1>1, <1>2

(* One of the types it may be shared with follows another.                 *)
LEMMA MayFollow ==
  ASSUME NEW o, Given(o), Concurrent(o.request), NEW t \in Involved(o), NEW u \in Involved(o)
  PROVE  May(o, o.queues[u][1], Own(o, o.queues[t][1]))
<1>1. \A v \in Involved(o) :
        IF o.sharing = {} THEN \A x \in Involved(o) : o.queues[v][1] = o.queues[x][1]
        ELSE o.queues[v][1] \in o.sharing
  BY SharingIs
<1>2. CASE o.sharing = {}
  <2>1. o.queues[t][1] = o.queues[u][1] BY <1>1, <1>2
  <2> QED BY <1>2, <2>1 DEF May, Own
<1>3. CASE o.sharing # {} BY <1>1, <1>3 DEF May
<1> QED BY <1>2, <1>3

(* The state that the users expect.                                        *)
LEMMA FinalIs ==
  ASSUME NEW o, NEW layout, NEW data, NEW w, o.users # {} => layout = Promise(o),
         o.users # {} /\ o.request.staged => Levels(o.request) \subseteq data,
         o.sharing = {} => \A t \in o.users : w \in {Ignored, o.queues[t][1]}
  PROVE  Final(o, Plainly(All(o, layout), data, w))
<1> DEFINE s == Plainly(All(o, layout), data, w)
<1>1. /\ s.layout = All(o, layout) /\ s.data = data /\ s.owner = w /\ s.heir = Ignored
      /\ IsState(s)
  BY DEF Plainly, IsState
<1>2. o.users # {} => Laid(s, Levels(o.request), Promise(o))
  <2> HIDE DEF s
  <2> QED BY <1>1 DEF Laid, All
<1> HIDE DEF s
<1>3. Final(o, s) BY <1>1, <1>2 DEF Final
<1> QED BY <1>3 DEF s

(* The family that has it last is that of its users, if it is not shared.  *)
LEMMA OwnFits ==
  ASSUME NEW o, Given(o), NEW t,
         IF Concurrent(o.request) THEN t \in Involved(o)
         ELSE o.queues[t][1] = o.queues[Physical(Owner(o.request))][1]
  PROVE  o.sharing = {} => \A u \in o.users : Own(o, o.queues[t][1]) \in {Ignored, o.queues[u][1]}
<1>1. o.users \subseteq Owning(o) /\ o.users \subseteq Involved(o) BY OwningIs
<1>2. CASE Concurrent(o.request)
  <2>1. IF o.sharing = {} THEN \A u \in Involved(o) : o.queues[t][1] = o.queues[u][1]
        ELSE o.queues[t][1] \in o.sharing
    BY <1>2, SharingIs
  <2> QED BY <1>1, <2>1 DEF Own
<1>3. CASE ~Concurrent(o.request)
  <2>1. Owning(o) = {Physical(Owner(o.request))} BY <1>3, ExclusiveIs
  <2> QED BY <1>1, <1>3, <2>1 DEF Own
<1> QED BY <1>2, <1>3

(* What is recorded for an image, up to its last barrier.                  *)
LEMMA FinishedIs ==
  ASSUME NEW r, NEW old, NEW src, NEW dst
  PROVE  /\ Finished(r, old, src, dst).op = "barrier" /\ Finished(r, old, src, dst).src = src
         /\ Finished(r, old, src, dst).dst = dst
         /\ Len(<<Finished(r, old, src, dst)>>) = 1 /\ IsSeq(<<Finished(r, old, src, dst)>>)
         /\ <<Finished(r, old, src, dst)>>[1] = Finished(r, old, src, dst)
<1> DEFINE c == Finished(r, old, src, dst)
<1>1. c.op = "barrier" /\ c.src = src /\ c.dst = dst BY DEF Finished, Barrier, Transfer
<1> HIDE DEF c
<1>2. Len(<<c>>) = 1 /\ IsSeq(<<c>>) /\ <<c>>[1] = c BY SingleIs
<1> QED BY <1>1, <1>2 DEF c

(* The last barrier brings the levels to initial_layout.                   *)
LEMMA AfterCopy ==
  ASSUME NEW o, NEW f, NEW cs, NEW old, NEW w, NEW dst, Filled(o.request) # "undefined",
         May(o, f, w), Ends(cs[Len(cs)]),
         Recorded(o, f, cs, old, Plainly(All(o, Filled(o.request)), Levels(o.request), w))
  PROVE  /\ Recorded(o, f, cs \o <<Finished(o.request, Filled(o.request), {"transfer"}, dst)>>, old,
                     Plainly(All(o, o.request.layout), Levels(o.request), Own(o, f)))
         /\ (cs \o <<Finished(o.request, Filled(o.request), {"transfer"}, dst)>>)
              [Len(cs \o <<Finished(o.request, Filled(o.request), {"transfer"}, dst)>>)]
              = Finished(o.request, Filled(o.request), {"transfer"}, dst)
         /\ (cs \o <<Finished(o.request, Filled(o.request), {"transfer"}, dst)>>)[1] = cs[1]
<1> DEFINE r == o.request
           c == Finished(r, Filled(r), {"transfer"}, dst)
           b == <<c>>
           mid == Plainly(All(o, Filled(r)), Levels(r), w)
           new == Plainly(All(o, r.layout), Levels(r), Own(o, f))
<1>1. c.op = "barrier" /\ c.src = {"transfer"} /\ Len(b) = 1 /\ IsSeq(b) /\ b[1] = c BY FinishedIs
<1>2. Recorded(o, f, b, mid, new)
  <2>1. b = <<Barrier(Levels(r), Filled(r), r.layout, {"transfer"}, dst)>> BY DEF Finished
  <2>2. Recorded(o, f, <<Barrier(Levels(r), Filled(r), r.layout, {"transfer"}, dst)>>,
                 Plainly(All(o, Filled(r)), Levels(r), w),
                 Plainly(All(o, r.layout),
                         IF Filled(r) = "undefined" THEN Levels(r) \ Levels(r) ELSE Levels(r),
                         Own(o, f)))
    BY BarrierOfAll
  <2>3. (IF Filled(r) = "undefined" THEN Levels(r) \ Levels(r) ELSE Levels(r)) = Levels(r)
    OBVIOUS
  <2> HIDE DEF b
  <2> QED BY <2>1, <2>2, <2>3
<1> HIDE DEF c, b, mid, new
<1>3. Recorded(o, f, cs, old, mid) BY DEF mid
<1>4. Orders(cs[Len(cs)], b[1]) BY <1>1, EndsBegins DEF Begins
<1>5. Recorded(o, f, cs \o b, old, new) BY <1>2, <1>3, <1>4, RecordedJoin
<1>6. IsSeq(cs) /\ IsSeq(b) /\ Len(cs) # 0 /\ Len(b) # 0 BY <1>1, <1>3 DEF Recorded
<1>7. (cs \o b)[1] = cs[1] /\ (cs \o b)[Len(cs \o b)] = b[Len(b)] BY <1>6, ConcatEnds
<1>8. b[Len(b)] = c BY <1>1
<1> QED BY <1>5, <1>7, <1>8 DEF b, c, new

(* All that fills an image and ends in its last barrier.                   *)
Whole(r, dst) ==
    CopyToImage(r) \o (Mipmaps(r) \o <<Finished(r, Filled(r), {"transfer"}, dst)>>)

\* The last of them is a barrier that makes the stages wait.
EndsAt(cs, stages) == cs[Len(cs)].op = "barrier" /\ cs[Len(cs)].dst = stages

(* All of it, for one family.                                              *)
LEMMA ImageFinished ==
  ASSUME NEW o, NEW f, NEW now, NEW dst, May(o, f, Ignored), o.request.levels \in Nat \ {0},
         o.request.mips => o.request.levels > 1
  PROVE  /\ Append(CopyToImage(o.request) \o Mipmaps(o.request),
                   Finished(o.request, Filled(o.request), {"transfer"}, dst)) = Whole(o.request, dst)
         /\ Recorded(o, f, Whole(o.request, dst), Plainly(All(o, now), {}, Ignored),
                     Plainly(All(o, o.request.layout), Levels(o.request), Own(o, f)))
         /\ EndsAt(Whole(o.request, dst), dst)
<1> DEFINE r == o.request
           a == CopyToImage(r)
           m == Mipmaps(r)
           c == Finished(r, Filled(r), {"transfer"}, dst)
           k == a \o m
           old == Plainly(All(o, now), {}, Ignored)
           mid == Plainly(All(o, Filled(r)), Levels(r), Own(o, f))
           new == Plainly(All(o, r.layout), Levels(r), Own(o, f))
<1>1. Recorded(o, f, k, old, mid) /\ Ends(k[Len(k)]) BY ImageFilled
<1>2. IsSeq(a)
  <2>1. \E x, y : Recorded(o, f, a, x, y) BY ImageCopied
  <2> QED BY <2>1 DEF Recorded
<1>3. IsSeq(m)
  <2>1. CASE ~r.mips BY <2>1, EmptyIsSeq DEF Mipmaps
  <2>2. CASE r.mips
    <3>1. r.levels \in Nat /\ r.levels > 1 BY <2>2
    <3>2. \E x, y : Recorded(o, f, m, x, y) BY <2>2, <3>1, MipmapsRun
    <3> QED BY <3>2 DEF Recorded
  <2> QED BY <2>1, <2>2
<1>4. c.op = "barrier" /\ c.dst = dst /\ IsSeq(<<c>>) BY FinishedIs
<1>5. Filled(r) # "undefined" BY DEF Filled
<1>6. May(o, f, Own(o, f)) BY MayStays
<1>7. /\ Recorded(o, f, k \o <<c>>, old, new)
      /\ (k \o <<c>>)[Len(k \o <<c>>)] = c
  <2> HIDE DEF k, old
  <2> QED BY <1>1, <1>5, <1>6, AfterCopy
<1> HIDE DEF a, m, c, old, new
<1>8. IsSeq(k) BY <1>2, <1>3, ConcatIs
<1>9. Append(k, c) = k \o <<c>> BY <1>8, AppendIs
<1> DEFINE b == <<c>>
<1> HIDE DEF b
<1>10. (a \o m) \o b = a \o (m \o b) BY <1>2, <1>3, <1>4, ConcatAssoc DEF b
<1>11. Whole(r, dst) = k \o b BY <1>10 DEF Whole, a, m, c, b
<1>12. EndsAt(k \o b, dst) BY <1>4, <1>7 DEF EndsAt, b
<1> QED BY <1>7, <1>9, <1>11, <1>12 DEF a, m, c, old, new, b

(* SubmitVisible makes every queue that needs to wait for the commands.    *)
LEMMA VisibleCovers ==
  ASSUME NEW o, Given(o), Concurrent(o.request), Prepared(o.request), NEW type \in Types,
         o.queues[type] = o.queues[Preparer(o.queues, o.request)],
         type # "transfer" => type = "graphics" /\ Preparer(o.queues, o.request) = "graphics",
         NEW visible \in SUBSET Types,
         \A t \in Owning(o) : o.queues[t] # o.queues[type] => t \in visible,
         NEW commands,
         (\E t \in Owning(o) : o.queues[t] = o.queues[type]) =>
           /\ commands[Len(commands)].op = "barrier"
           /\ commands[Len(commands)].dst = o.request.stages
  PROVE  Covers(o, type, commands, {t \in visible : o.queues[t] # o.queues[type]},
                Narrowed(o.request.stages))
<1> DEFINE r == o.request
           q == o.queues
           targets == {t \in visible : q[t] # q[type]}
           dst == Narrowed(r.stages)
           others == {t \in Owning(o) : q[t] # q[type]}
<1>1. /\ Preparer(q, r) = "graphics" => Owning(o) = {"graphics"} \/ others # {}
      /\ \A t \in others : r.stages \cap Supported(t) \subseteq Visible(t)
  BY DEF Given, Handled, Owning
<1>2. Owning(o) \subseteq Types /\ o.users \subseteq Owning(o) BY OwningIs
<1>3. ASSUME NEW t \in o.users, NEW stage \in UseStages(o, t)
      PROVE  \/ q[t] = q[type] /\ Orders(commands[Len(commands)], UseOf(o, stage))
             \/ t \in targets /\ stage \in dst[t]
  <2>1. t \in Owning(o) /\ t \in Types /\ stage \in r.stages \cap Supported(t)
    BY <1>2, <1>3 DEF UseStages
  <2>2. CASE q[t] = q[type]
    <3>1. commands[Len(commands)].op = "barrier" /\ commands[Len(commands)].dst = r.stages
      BY <2>1, <2>2
    <3>2. UseOf(o, stage).op = "access" /\ UseOf(o, stage).stage = stage BY DEF UseOf, Access
    <3> QED BY <2>1, <2>2, <3>1, <3>2 DEF Orders
  <2>3. CASE q[t] # q[type]
    <3>1. t \in targets BY <2>1, <2>3
    <3>2. stage \in Visible(t) BY <1>1, <2>1, <2>3
    <3> QED BY <2>1, <3>1, <3>2 DEF Narrowed
  <2> QED BY <2>2, <2>3
<1>4. ASSUME targets = {}, type # "transfer" PROVE o.users \subseteq {type}
  <2>1. others = {} BY <1>4
  <2> QED BY <1>1, <1>2, <1>4, <2>1
<1> QED BY <1>3, <1>4 DEF Covers

(* So SubmitVisible carries out the whole of the plan.                     *)
LEMMA VisiblePlanned ==
  ASSUME NEW o, Given(o), Concurrent(o.request), Prepared(o.request), NEW type \in Types,
         o.queues[type] = o.queues[Preparer(o.queues, o.request)],
         type # "transfer" => type = "graphics" /\ Preparer(o.queues, o.request) = "graphics",
         NEW visible \in SUBSET Types,
         \A t \in Owning(o) : o.queues[t] # o.queues[type] => t \in visible,
         NEW commands, NEW old, NEW new,
         Recorded(o, o.queues[type][1], commands, old, new), Final(o, new),
         (\E t \in Owning(o) : o.queues[t] = o.queues[type]) =>
           /\ commands[Len(commands)].op = "barrier"
           /\ commands[Len(commands)].dst = o.request.stages
  PROVE  Planned(o, old, SubmitVisible(type, commands, o.request.stages, visible))
<1> DEFINE targets == {t \in visible : o.queues[t] # o.queues[type]}
           dst == Narrowed(o.request.stages)
           w == AddWaits(targets, o.request.stages)
<1>1. SubmitVisible(type, commands, o.request.stages, visible) = Submit(type, commands, targets) \o w
  BY DEF SubmitVisible, Given
<1>2. Covers(o, type, commands, targets, dst) BY VisibleCovers
<1>3. targets \in SUBSET Types OBVIOUS
<1>4. UsersAgree(o) /\ o.users \subseteq Types BY GivenAgree
<1> HIDE DEF targets
<1>5. Asks(targets, dst, w) BY <1>3, AddWaitsAsks
<1> HIDE DEF dst, w
<1>6. Planned(o, old, Submit(type, commands, targets) \o w)
  BY <1>2, <1>3, <1>4, <1>5, PlannedOne
<1> QED BY <1>1, <1>6

(* The owners that the code makes wait.                                    *)
LEMMA OwnersSeen ==
  ASSUME NEW o, Given(o)
  PROVE  /\ {"transfer"} \cup {t \in {"graphics", "compute"} : OwnedBy(o.request, t)} \in SUBSET Types
         /\ {"graphics"} \cup {t \in {"compute", "transfer"} : OwnedBy(o.request, t)} \in SUBSET Types
         /\ \A t \in Owning(o) :
              /\ t \in {"transfer"} \cup {u \in {"graphics", "compute"} : OwnedBy(o.request, u)}
              /\ t \in {"graphics"} \cup {u \in {"compute", "transfer"} : OwnedBy(o.request, u)}
BY OwningIs DEF Types

(* What is recorded for the contents of a buffer.                          *)
LEMMA BufferFlushed ==
  ASSUME NEW o, NEW f, May(o, f, Ignored), o.request.levels = 1
  PROVE  Recorded(o, f, Append(CopyToBuffer, Barrier({0}, "buffer", "buffer", {"transfer"}, {})),
                  Plainly(All(o, "buffer"), {}, Ignored),
                  Plainly(All(o, "buffer"), Levels(o.request), Own(o, f)))
<1> DEFINE r == o.request
           c == Barrier({0}, "buffer", "buffer", {"transfer"}, {})
           flushed == Append(CopyToBuffer, c)
           old == Plainly(All(o, "buffer"), {}, Ignored)
           mid == Plainly(All(o, "buffer"), Levels(r), Own(o, f))
<1>1. /\ Recorded(o, f, CopyToBuffer, old, mid)
      /\ CopyToBuffer[Len(CopyToBuffer)].op = "access"
      /\ CopyToBuffer[Len(CopyToBuffer)].stage = "transfer"
  BY BufferCopied
<1>2. Recorded(o, f, <<c>>, mid, mid)
  <2>1. May(o, f, Own(o, f)) BY MayStays
  <2>2. Levels(r) = {0} BY DEF Levels
  <2>3. Recorded(o, f, <<Barrier(Levels(r), "buffer", "buffer", {"transfer"}, {})>>, mid,
                 Plainly(All(o, "buffer"),
                         IF "buffer" = "undefined" THEN Levels(r) \ Levels(r) ELSE Levels(r), Own(o, f)))
    BY <2>1, BarrierOfAll
  <2>4. (IF "buffer" = "undefined" THEN Levels(r) \ Levels(r) ELSE Levels(r)) = Levels(r) OBVIOUS
  <2> QED BY <2>2, <2>3, <2>4
<1>3. c.op = "barrier" /\ c.src = {"transfer"} BY DEF Barrier, Transfer
<1>4. <<c>>[1] = c BY SingleIs
<1>5. Orders(CopyToBuffer[Len(CopyToBuffer)], <<c>>[1])
  BY <1>1, <1>3, <1>4, EndsBegins DEF Ends, Begins
<1>6. IsSeq(CopyToBuffer) BY <1>1 DEF Recorded
<1>7. flushed = CopyToBuffer \o <<c>> BY <1>6, AppendIs
<1> HIDE DEF c, mid, old
<1>8. Recorded(o, f, CopyToBuffer \o <<c>>, old, mid) BY <1>1, <1>2, <1>5, RecordedJoin
<1> QED BY <1>7, <1>8 DEF c, mid, old

(* The contents of a buffer that queues share.                             *)
LEMMA ConcurrentBuffer ==
  ASSUME NEW o, Given(o), o.request.kind = "buffer", o.request.staged, Concurrent(o.request)
  PROVE  Planned(o, Plainly(All(o, "buffer"), {}, Ignored), CreateBuffer(o.request))
<1> DEFINE r == o.request
           f == o.queues["transfer"][1]
           c == Barrier({0}, "buffer", "buffer", {"transfer"}, {})
           flushed == Append(CopyToBuffer, c)
           old == Plainly(All(o, "buffer"), {}, Ignored)
           mid == Plainly(All(o, "buffer"), Levels(r), Own(o, f))
           visible == {"transfer"} \cup {t \in {"graphics", "compute"} : OwnedBy(r, t)}
<1>1. CreateBuffer(r) = SubmitVisible("transfer", flushed, r.stages, visible)
  BY DEF CreateBuffer
<1>2. r.levels = 1 /\ r.levels \in Nat /\ ~r.mips BY DEF Given
<1>3. "transfer" \in Involved(o) /\ "transfer" \in Types BY DEF Involved, Types
<1>4. May(o, f, Ignored) BY <1>3, MayBegin
<1>7. Recorded(o, f, flushed, old, mid) BY <1>2, <1>4, BufferFlushed
<1>8. Final(o, mid)
  <2>1. "buffer" = Promise(o) BY DEF Promise
  <2>2. o.sharing = {} => \A t \in o.users : Own(o, f) \in {Ignored, o.queues[t][1]}
    BY <1>3, OwnFits
  <2> QED BY <2>1, <2>2, FinalIs
<1>9. Prepared(r) /\ Preparer(o.queues, r) = "transfer" BY <1>2 DEF Prepared, Preparer
<1>10. ~ \E t \in Owning(o) : o.queues[t] = o.queues["transfer"]
  <2>1. {t \in Owning(o) : o.queues[t] # o.queues["transfer"]} = Owning(o)
    BY <1>9 DEF Given, Handled, Owning
  <2> QED BY <2>1
<1>11. visible \in SUBSET Types /\ \A t \in Owning(o) : t \in visible BY OwnersSeen
<1> HIDE DEF flushed, old, mid, visible
<1>12. Planned(o, old, SubmitVisible("transfer", flushed, r.stages, visible))
  BY <1>3, <1>7, <1>8, <1>9, <1>10, <1>11, VisiblePlanned
<1> QED BY <1>1, <1>12 DEF old

\* The state of a new image.
NewImage(o) == Plainly(All(o, Untouched(o.request)), {}, Ignored)

(* The image is as its users expect once the type has had it last.         *)
LEMMA ImageFinal ==
  ASSUME NEW o, Given(o), o.request.kind = "image", NEW t, NEW data,
         o.request.staged => Levels(o.request) \subseteq data,
         IF Concurrent(o.request) THEN t \in Involved(o)
         ELSE o.queues[t][1] = o.queues[Physical(Owner(o.request))][1]
  PROVE  Final(o, Plainly(All(o, o.request.layout), data, Own(o, o.queues[t][1])))
<1>1. o.users # {} => o.request.layout = Promise(o) BY DEF Given, Usable, Promise
<1>2. o.sharing = {} =>
        \A u \in o.users : Own(o, o.queues[t][1]) \in {Ignored, o.queues[u][1]}
  BY OwnFits
<1> QED BY <1>1, <1>2, FinalIs

(* One queue copies the levels and makes the others.                       *)
LEMMA ConcurrentOne ==
  ASSUME NEW o, Given(o), o.request.kind = "image", o.request.staged, Concurrent(o.request),
         Preparer(o.queues, o.request) = "transfer", NEW visible \in SUBSET Types,
         \A t \in Owning(o) : t \in visible
  PROVE  Planned(o, NewImage(o),
                 SubmitVisible("transfer", CopyToImage(o.request) \o (Mipmaps(o.request)
                   \o <<Finished(o.request, Filled(o.request), {"transfer"}, o.request.stages)>>),
                   o.request.stages, visible))
<1> DEFINE r == o.request
           f == o.queues["transfer"][1]
           new == Plainly(All(o, r.layout), Levels(r), Own(o, f))
           all == CopyToImage(r) \o (Mipmaps(r) \o <<Finished(r, Filled(r), {"transfer"}, r.stages)>>)
<1>1. "transfer" \in Involved(o) /\ "transfer" \in Types BY DEF Involved, Types
<1>2. May(o, f, Ignored) BY <1>1, MayBegin
<1>3. r.levels \in Nat \ {0} /\ (r.mips => r.levels > 1) BY GivenIs DEF Given
<1> DEFINE cs == Whole(r, r.stages)
<1>5. /\ Recorded(o, f, cs, NewImage(o), new)
      /\ cs[Len(cs)].op = "barrier" /\ cs[Len(cs)].dst = r.stages
  <2> HIDE DEF f
  <2>1. May(o, f, Ignored) /\ o.request.levels \in Nat \ {0}
        /\ (o.request.mips => o.request.levels > 1)
    BY <1>2, <1>3
  <2>2. Recorded(o, f, Whole(o.request, r.stages), Plainly(All(o, Untouched(r)), {}, Ignored),
                 Plainly(All(o, o.request.layout), Levels(o.request), Own(o, f)))
    BY <2>1, ImageFinished
  <2>3. EndsAt(Whole(o.request, r.stages), r.stages) BY <2>1, ImageFinished
  <2> QED BY <2>2, <2>3 DEF NewImage, EndsAt
<1>6. Final(o, new) BY <1>1, ImageFinal
<1>7. Prepared(r) BY DEF Prepared
<1>8. all = cs BY DEF Whole
<1> HIDE DEF all, new, cs
<1>9. Planned(o, NewImage(o), SubmitVisible("transfer", cs, r.stages, visible))
  BY <1>1, <1>5, <1>6, <1>7, VisiblePlanned
<1> QED BY <1>8, <1>9 DEF all

(* The transfer queue copies, and the graphics queue makes the others.     *)
LEMMA ConcurrentTwo ==
  ASSUME NEW o, Given(o), o.request.kind = "image", o.request.staged, Concurrent(o.request),
         o.request.mips, o.queues["transfer"] # o.queues["graphics"],
         NEW visible \in SUBSET Types, \A t \in Owning(o) : t \in visible
  PROVE  Planned(o, NewImage(o),
                 (Submit("transfer", CopyToImage(o.request), {"graphics"})
                    \o AddWait("graphics", {"transfer"}))
                   \o SubmitVisible("graphics", Mipmaps(o.request)
                        \o <<Finished(o.request, Filled(o.request), {"transfer"}, o.request.stages)>>,
                        o.request.stages, visible))
<1> DEFINE r == o.request
           f == o.queues["transfer"][1]
           g == o.queues["graphics"][1]
           last == Finished(r, Filled(r), {"transfer"}, r.stages)
           a == CopyToImage(r)
           b == Mipmaps(r) \o <<last>>
           mid == Plainly(All(o, "transferDst"), {0}, Own(o, f))
           new == Plainly(All(o, r.layout), Levels(r), Own(o, g))
           targets == {t \in visible : o.queues[t] # o.queues["graphics"]}
           dst == Narrowed(r.stages)
           w == AddWaits(targets, r.stages)
<1>1. /\ "transfer" \in Involved(o) /\ "graphics" \in Involved(o)
      /\ "transfer" \in Types /\ "graphics" \in Types
  BY DEF Involved, Types
<1>2. May(o, f, Ignored) /\ May(o, g, Own(o, f)) BY <1>1, MayBegin, MayFollow
<1>3. r.levels \in Nat \ {0} /\ r.levels \in Nat /\ r.levels > 1 BY GivenIs DEF Given
<1>4. Recorded(o, f, a, NewImage(o), mid)
  <2>1. (IF r.mips THEN {0} ELSE Levels(r)) = {0} OBVIOUS
  <2> HIDE DEF f
  <2>2. Recorded(o, f, a, NewImage(o),
                 Plainly(All(o, "transferDst"), IF r.mips THEN {0} ELSE Levels(r), Own(o, f)))
    BY <1>2, <1>3, ImageCopied DEF NewImage
  <2> QED BY <2>1, <2>2
<1>5. /\ Recorded(o, g, Mipmaps(r), mid,
                  Plainly(All(o, "transferSrc"), Levels(r), Own(o, g)))
      /\ Begins(Mipmaps(r)[1]) /\ Ends(Mipmaps(r)[Len(Mipmaps(r))])
  <2> HIDE DEF f, g
  <2> QED BY <1>2, <1>3, MipmapsRun
<1>6. /\ Recorded(o, g, b, mid, new) /\ b[1] = Mipmaps(r)[1]
      /\ b[Len(b)] = last
  <2>1. Filled(r) = "transferSrc" /\ Filled(r) # "undefined" BY DEF Filled
  <2>2. May(o, g, Own(o, g)) BY <1>2, MayStays
  <2>3. Recorded(o, g, Mipmaps(r), mid, Plainly(All(o, Filled(r)), Levels(r), Own(o, g)))
    BY <1>5, <2>1
  <2> HIDE DEF f, g, mid
  <2> QED BY <1>5, <2>1, <2>2, <2>3, AfterCopy
<1>7. last.op = "barrier" /\ last.dst = r.stages BY DEF Finished, Barrier, Transfer
<1>8. Final(o, new) BY <1>1, ImageFinal
<1>9. Prepared(r) /\ Preparer(o.queues, r) = "graphics" BY DEF Prepared, Preparer
<1> HIDE DEF a, b, mid, new, last
<1>10. Covers(o, "graphics", b, targets, dst)
  BY <1>1, <1>6, <1>7, <1>9, VisibleCovers
<1>11. targets \in SUBSET Types /\ "graphics" \notin targets OBVIOUS
<1>12. SubmitVisible("graphics", b, r.stages, visible) = Submit("graphics", b, targets) \o w
  BY DEF SubmitVisible, Given
<1>13. UsersAgree(o) /\ o.users \subseteq Types BY GivenAgree
<1> HIDE DEF targets
<1>14. Asks(targets, dst, w) BY <1>11, AddWaitsAsks
<1>15. Orders(Awaited("graphics", {"transfer"}), b[1])
  <2>1. Begins(b[1]) BY <1>5, <1>6
  <2> QED BY <2>1 DEF Begins, Orders, Awaited
<1> HIDE DEF dst, w
<1>16. Planned(o, NewImage(o), (Submit("transfer", a, {"graphics"}) \o AddWait("graphics", {"transfer"}))
                                 \o (Submit("graphics", b, targets) \o w))
  BY <1>1, <1>4, <1>6, <1>8, <1>10, <1>11, <1>13, <1>14, <1>15, PlannedTwo
<1> QED BY <1>12, <1>16 DEF a, b, last

(* Nothing is copied, but the layout is the one that was asked for.        *)
LEMMA ConcurrentLaid ==
  ASSUME NEW o, Given(o), o.request.kind = "image", ~o.request.staged, Concurrent(o.request),
         o.request.layout # "undefined", NEW visible \in SUBSET Types,
         \A t \in Owning(o) : t \in visible
  PROVE  Planned(o, NewImage(o),
                 SubmitVisible("graphics",
                   <<Finished(o.request, Untouched(o.request), {}, o.request.stages)>>,
                   o.request.stages, visible))
<1> DEFINE r == o.request
           g == o.queues["graphics"][1]
           c == Finished(r, Untouched(r), {}, r.stages)
           data == IF Untouched(r) = "undefined" THEN {} \ Levels(r) ELSE {}
           new == Plainly(All(o, r.layout), data, Own(o, g))
<1>1. "graphics" \in Types BY DEF Types
<1>2. Prepared(r) /\ Preparer(o.queues, r) = "graphics" BY DEF Prepared, Preparer
<1>3. PICK t \in Owning(o) : o.queues[t][1] = g
  <2>1. \E t \in Owning(o) : o.queues[t][1] = g BY <1>2 DEF Given, Handled, Owning
  <2> QED BY <2>1
<1>4. t \in Involved(o) BY OwningIs
<1>5. May(o, g, Ignored)
  <2>1. May(o, o.queues[t][1], Ignored) BY <1>4, MayBegin
  <2> QED BY <1>3, <2>1
<1>6. Recorded(o, g, <<c>>, NewImage(o), new)
  <2>1. Recorded(o, g, <<Barrier(Levels(r), Untouched(r), r.layout, {}, r.stages)>>,
                 Plainly(All(o, Untouched(r)), {}, Ignored), new)
    <3> HIDE DEF g
    <3> QED BY <1>5, BarrierOfAll
  <2> QED BY <2>1 DEF Finished, NewImage
<1>7. Final(o, new)
  <2>1. Final(o, Plainly(All(o, r.layout), data, Own(o, o.queues[t][1]))) BY <1>4, ImageFinal
  <2> QED BY <1>3, <2>1
<1>8. <<c>>[Len(<<c>>)].op = "barrier" /\ <<c>>[Len(<<c>>)].dst = r.stages
  <2>1. c.op = "barrier" /\ c.dst = r.stages BY DEF Finished, Barrier, Transfer
  <2> HIDE DEF c
  <2>2. Len(<<c>>) = 1 /\ <<c>>[1] = c BY SingleIs
  <2> QED BY <2>1, <2>2
<1> HIDE DEF new, c
<1> DEFINE cs == <<c>>
<1> HIDE DEF cs
<1>9. Planned(o, NewImage(o), SubmitVisible("graphics", cs, r.stages, visible))
  <2>1. Recorded(o, g, cs, NewImage(o), new) BY <1>6 DEF cs
  <2>2. cs[Len(cs)].op = "barrier" /\ cs[Len(cs)].dst = r.stages BY <1>8 DEF cs
  <2> QED BY <1>1, <1>2, <1>7, <2>1, <2>2, VisiblePlanned
<1> QED BY <1>9 DEF c, cs

(* Nothing is recorded for an image that nobody can use.                   *)
LEMMA NothingForImage ==
  ASSUME NEW o, Given(o), o.request.kind = "image",
         o.request.layout = "undefined" \/ Refused(o.request)
  PROVE  Planned(o, NewImage(o), <<>>)
<1>1. o.users = {} BY DEF Given, Usable
<1>2. Final(o, NewImage(o)) BY <1>1, FinalIs DEF NewImage
<1> QED BY <1>2, GivenAgree, PlannedNothing

(* CreateConcurrentImage, whatever it is asked for.                        *)
LEMMA ConcurrentImage ==
  ASSUME NEW o, Given(o), o.request.kind = "image", ~Refused(o.request), Concurrent(o.request)
  PROVE  Planned(o, NewImage(o), CreateConcurrentImage(o.request))
<1> DEFINE r == o.request
           mine == {t \in {"compute", "transfer"} : OwnedBy(r, t)}
           after == Mipmaps(r) \o <<Finished(r, Filled(r), {"transfer"}, r.stages)>>
           some == {"transfer"} \cup {t \in {"graphics", "compute"} : OwnedBy(r, t)}
           others == {"graphics"} \cup mine
<1>1. /\ some \in SUBSET Types /\ others \in SUBSET Types
      /\ \A t \in Owning(o) : t \in some /\ t \in others
  BY OwnersSeen
<1>2. queues = o.queues /\ r.staged \in BOOLEAN /\ r.mips \in BOOLEAN
      /\ r.layout \in {"undefined", "initial"} /\ (r.staged => r.layout = "initial")
  BY GivenIs DEF Given
<1>3. CASE r.staged /\ ~r.mips
  <2>1. Preparer(o.queues, r) = "transfer" BY <1>3 DEF Preparer
  <2>2. CreateConcurrentImage(r) = SubmitVisible("transfer", CopyToImage(r) \o after, r.stages, some)
    BY <1>3 DEF CreateConcurrentImage
  <2> HIDE DEF some
  <2> QED BY <1>1, <1>3, <2>1, <2>2, ConcurrentOne
<1>4. CASE r.staged /\ r.mips /\ o.queues["transfer"] = o.queues["graphics"]
  <2>1. Preparer(o.queues, r) = "transfer" BY <1>4 DEF Preparer
  <2>2. CreateConcurrentImage(r) = SubmitVisible("transfer", CopyToImage(r) \o after, r.stages, others)
    BY <1>2, <1>4 DEF CreateConcurrentImage
  <2> HIDE DEF others
  <2> QED BY <1>1, <1>4, <2>1, <2>2, ConcurrentOne
<1>5. CASE r.staged /\ r.mips /\ o.queues["transfer"] # o.queues["graphics"]
  <2>1. CreateConcurrentImage(r)
          = (Submit("transfer", CopyToImage(r), {"graphics"}) \o AddWait("graphics", {"transfer"}))
              \o SubmitVisible("graphics", after, r.stages, others)
    BY <1>2, <1>5 DEF CreateConcurrentImage
  <2> HIDE DEF others
  <2> QED BY <1>1, <1>5, <2>1, ConcurrentTwo
<1>6. CASE ~r.staged /\ r.layout # "undefined"
  <2>1. CreateConcurrentImage(r)
          = SubmitVisible("graphics", <<Finished(r, Untouched(r), {}, r.stages)>>, r.stages, others)
    BY <1>6 DEF CreateConcurrentImage
  <2> HIDE DEF others
  <2> QED BY <1>1, <1>6, <2>1, ConcurrentLaid
<1>7. CASE ~r.staged /\ r.layout = "undefined"
  <2>1. CreateConcurrentImage(r) = <<>> BY <1>7 DEF CreateConcurrentImage
  <2> QED BY <1>7, <2>1, NothingForImage
<1> QED BY <1>2, <1>3, <1>4, <1>5, <1>6, <1>7

\* The family that has the resource is about to give it away.
Leaving(layout, data, owner, heir) ==
    [layout |-> layout, data |-> data, owner |-> owner, heir |-> heir]

(* A family releases the resource, and the other acquires it.              *)
LEMMA ReleaseMoves ==
  ASSUME NEW o, o.sharing = {}, NEW f, NEW g, f # g, NEW old, old # "undefined", NEW next,
         NEW src, NEW dst, NEW data
  PROVE  Recorded(o, f, <<Transfer(Levels(o.request), old, next, src, dst, f, g)>>,
                  Plainly(All(o, old), data, Own(o, f)), Leaving(All(o, old), data, f, g))
<1> DEFINE L == Levels(o.request)
           c == Transfer(L, old, next, src, dst, f, g)
           s == Plainly(All(o, old), data, f)
           u == Leaving(All(o, old), data, f, g)
<1>1. c.op = "barrier" /\ c.levels = L /\ c.old = old /\ c.new = next /\ c.from = f /\ c.to = g
  BY DEF Transfer
<1>2. s.layout = All(o, old) /\ s.data = data /\ s.owner = f /\ s.heir = Ignored BY DEF Plainly
<1>3. AccessibleIn(o.sharing, f, s) BY <1>2 DEF AccessibleIn
<1>4. Laid(s, L, old)
  <2> HIDE DEF s
  <2> QED BY <1>2 DEF Laid, All
<1>5. SoundIn(o, c, f, s)
  <2> HIDE DEF c, s
  <2> QED BY <1>1, <1>3, <1>4 DEF SoundIn
<1>6. EffectIn(o, c, f, s) = [s EXCEPT !.owner = f, !.heir = g]
  <2> HIDE DEF c, s
  <2> QED BY <1>1 DEF EffectIn
<1>7. EffectIn(o, c, f, s) = u
  <2>1. s = [layout |-> All(o, old), data |-> data, owner |-> f, heir |-> Ignored] BY DEF Plainly
  <2> HIDE DEF c, s
  <2> QED BY <1>6, <2>1, ReleaseEffect DEF Leaving
<1>8. Own(o, f) = f BY DEF Own
<1>9. c.op \in {"access", "barrier"} /\ Moves(o, f, c, s, u) BY <1>1, <1>5, <1>7 DEF Moves
<1> HIDE DEF c, u
<1>10. Recorded(o, f, <<c>>, s, u) BY <1>9, RecordedOne
<1> QED BY <1>8, <1>10 DEF c, u

(* The other acquires it, in the next layout.                              *)
LEMMA AcquireMoves ==
  ASSUME NEW o, o.sharing = {}, NEW f, NEW g, f # g, NEW old, old # "undefined", NEW next,
         NEW src, NEW dst, NEW data
  PROVE  Recorded(o, g, <<Transfer(Levels(o.request), old, next, src, dst, f, g)>>,
                  Leaving(All(o, old), data, f, g), Plainly(All(o, next), data, Own(o, g)))
<1> DEFINE L == Levels(o.request)
           c == Transfer(L, old, next, src, dst, f, g)
           s == Leaving(All(o, old), data, f, g)
           u == Plainly(All(o, next), data, g)
<1>1. c.op = "barrier" /\ c.levels = L /\ c.old = old /\ c.new = next /\ c.from = f /\ c.to = g
  BY DEF Transfer
<1>2. s.layout = All(o, old) /\ s.data = data /\ s.owner = f /\ s.heir = g BY DEF Leaving
<1>3. Laid(s, L, old)
  <2> HIDE DEF s
  <2> QED BY <1>2 DEF Laid, All
<1>4. SoundIn(o, c, g, s)
  <2> HIDE DEF c, s
  <2> QED BY <1>1, <1>2, <1>3 DEF SoundIn
<1>5. EffectIn(o, c, g, s)
        = [s EXCEPT !.owner = g, !.heir = Ignored, !.layout = All(o, next), !.data = data]
  <2> HIDE DEF c
  <2>1. EffectIn(o, c, g, s)
          = [s EXCEPT !.owner = g, !.heir = Ignored,
               !.layout = [n \in Levels(o.request) |-> IF n \in c.levels THEN c.new ELSE s.layout[n]],
               !.data = IF c.old = "undefined" THEN s.data \ c.levels ELSE s.data]
    <3> HIDE DEF s
    <3> QED BY <1>1 DEF EffectIn
  <2>2. [n \in Levels(o.request) |-> IF n \in c.levels THEN c.new ELSE s.layout[n]] = All(o, next)
    <3> HIDE DEF s
    <3> QED BY <1>1 DEF All
  <2> HIDE DEF s
  <2> QED BY <1>1, <1>2, <2>1, <2>2
<1>6. EffectIn(o, c, g, s) = u
  <2>1. s = [layout |-> All(o, old), data |-> data, owner |-> f, heir |-> g] BY DEF Leaving
  <2> HIDE DEF c, s
  <2> QED BY <1>5, <2>1, BarrierEffect DEF Plainly
<1>7. Own(o, g) = g BY DEF Own
<1>8. c.op \in {"access", "barrier"} /\ Moves(o, g, c, s, u) BY <1>1, <1>4, <1>6 DEF Moves
<1> HIDE DEF c, s
<1>9. Recorded(o, g, <<c>>, s, u) BY <1>8, RecordedOne
<1> QED BY <1>7, <1>9 DEF c, s

\* The barrier between other stages.
Between(c, src, dst) == [c EXCEPT !.src = src, !.dst = dst]

(* The barrier that acquires is the one that releases, at other stages.    *)
LEMMA ExceptTransfer ==
  ASSUME NEW levels, NEW old, NEW next, NEW src, NEW dst, NEW from, NEW to, NEW a, NEW b
  PROVE  Between(Transfer(levels, old, next, src, dst, from, to), a, b)
           = Transfer(levels, old, next, a, b, from, to)
<1> DEFINE c == Transfer(levels, old, next, src, dst, from, to)
           d == [c EXCEPT !.src = a, !.dst = b]
           e == Transfer(levels, old, next, a, b, from, to)
           K == {"op", "levels", "old", "new", "src", "dst", "from", "to"}
<1>1. /\ DOMAIN c = K /\ DOMAIN e = K /\ c = [k \in K |-> c[k]] /\ e = [k \in K |-> e[k]]
      /\ c.op = e.op /\ c.levels = e.levels /\ c.old = e.old /\ c.new = e.new
      /\ c.from = e.from /\ c.to = e.to /\ e.src = a /\ e.dst = b
  BY DEF Transfer
<1> HIDE DEF c, e
<1>2. DOMAIN d = K /\ d = [k \in K |-> d[k]] BY <1>1
<1>3. \A k \in K : d[k] = e[k] BY <1>1
<1> HIDE DEF d, K
<1>4. d = e BY <1>1, <1>2, <1>3
<1> QED BY <1>4 DEF c, d, e, Between

(* The owner waits for the queue that filled the resource and acquires it. *)
LEMMA HandedOver ==
  ASSUME NEW o, Given(o), ~Concurrent(o.request), NEW type \in Types,
         o.queues[type][1] # o.queues[Physical(Owner(o.request))][1],
         NEW recorded, NEW begin, NEW old, old # "undefined", NEW next,
         Recorded(o, o.queues[type][1], recorded, begin,
                  Plainly(All(o, old), Levels(o.request), Own(o, o.queues[type][1]))),
         Ends(recorded[Len(recorded)]), NEW levels, levels = Levels(o.request),
         o.users # {} => next = Promise(o)
  PROVE  Planned(o, begin, HandOver(o.request, type, recorded, levels, old, next))
<1> DEFINE r == o.request
           owner == Physical(Owner(r))
           f == o.queues[type][1]
           g == o.queues[owner][1]
           release == Transfer(levels, old, next, {"transfer"}, {}, f, g)
           acquire == Transfer(levels, old, next, r.stages, r.stages, f, g)
           kept == Plainly(All(o, old), Levels(r), Own(o, f))
           mid == Leaving(All(o, old), Levels(r), f, g)
           new == Plainly(All(o, next), Levels(r), Own(o, g))
           copied == recorded \o <<release>>
           commands == <<acquire>>
           none == {}
<1>1. o.sharing = {} /\ Owning(o) = {owner} BY ExclusiveIs
<1>2. owner \in Types /\ o.users \subseteq {owner} BY <1>1, OwningIs
<1>3. UsersAgree(o) /\ o.users \subseteq Types /\ r.stages # {} BY GivenAgree, GivenIs
<1>4. IsSeq(recorded) BY DEF Recorded
<1>5. HandOver(r, type, recorded, levels, old, next)
        = (Submit(type, copied, {owner}) \o AddWait(owner, r.stages)) \o Submit(owner, commands, {})
  <2>1. Family(type) = f /\ Family(owner) = g BY GivenIs
  <2>2. [release EXCEPT !.src = r.stages, !.dst = r.stages] = acquire
    <3>1. Between(release, r.stages, r.stages) = acquire BY ExceptTransfer
    <3> HIDE DEF release, acquire
    <3> QED BY <3>1 DEF Between
  <2>3. Append(recorded, release) = copied BY <1>4, AppendIs
  <2> QED BY <2>1, <2>2, <2>3 DEF HandOver
<1>6. Recorded(o, f, <<release>>, kept, mid)
  <2>1. <<release>> = <<Transfer(Levels(r), old, next, {"transfer"}, {}, f, g)>> OBVIOUS
  <2>2. Recorded(o, f, <<Transfer(Levels(r), old, next, {"transfer"}, {}, f, g)>>, kept, mid)
    BY <1>1, ReleaseMoves
  <2> HIDE DEF f, g, kept, mid, release
  <2> QED BY <2>1, <2>2
<1>7. Recorded(o, g, commands, mid, new)
  <2>1. commands = <<Transfer(Levels(r), old, next, r.stages, r.stages, f, g)>> OBVIOUS
  <2>2. Recorded(o, g, <<Transfer(Levels(r), old, next, r.stages, r.stages, f, g)>>, mid, new)
    BY <1>1, AcquireMoves
  <2> HIDE DEF f, g, mid, new, commands
  <2> QED BY <2>1, <2>2
<1>8. release.op = "barrier" /\ release.src = {"transfer"} BY DEF Transfer
<1>9. acquire.op = "barrier" /\ acquire.src = r.stages /\ acquire.dst = r.stages BY DEF Transfer
<1> HIDE DEF release, acquire
<1>10. Len(commands) = 1 /\ commands[1] = acquire BY SingleIs
<1>11. Recorded(o, f, copied, begin, mid)
  <2>1. <<release>>[1] = release BY SingleIs
  <2>2. Orders(recorded[Len(recorded)], <<release>>[1])
    BY <1>8, <2>1, EndsBegins DEF Begins
  <2> HIDE DEF kept, mid, f
  <2>3. Recorded(o, f, recorded, begin, kept) BY DEF kept, f
  <2> QED BY <1>6, <2>2, <2>3, RecordedJoin
<1>12. Final(o, new)
  <2>1. o.sharing = {} => \A t \in o.users : Own(o, g) \in {Ignored, o.queues[t][1]}
    BY <1>2 DEF Own
  <2> QED BY <2>1, FinalIs
<1>13. Orders(Awaited(owner, r.stages), commands[1]) BY <1>3, <1>9, <1>10 DEF Orders, Awaited
<1>14. Covers(o, owner, commands, none, none)
  <2>1. ASSUME NEW t \in o.users, NEW stage \in UseStages(o, t)
        PROVE  Orders(commands[Len(commands)], UseOf(o, stage))
    <3>1. stage \in r.stages BY <2>1 DEF UseStages
    <3>2. UseOf(o, stage).op = "access" /\ UseOf(o, stage).stage = stage BY DEF UseOf, Access
    <3> QED BY <1>9, <1>10, <3>1, <3>2 DEF Orders
  <2>2. \A t \in o.users : o.queues[t] = o.queues[owner] BY <1>2
  <2> HIDE DEF commands
  <2> QED BY <1>2, <2>1, <2>2 DEF Covers
<1>15. Asks(none, none, <<>>) BY AsksNothing
<1>16. o.queues[type] # o.queues[owner] /\ owner \notin none /\ none \in SUBSET Types OBVIOUS
<1> HIDE DEF copied, commands, mid, new, owner, none
<1>17. Planned(o, begin, (Submit(type, copied, {owner}) \o AddWait(owner, r.stages))
                           \o (Submit(owner, commands, none) \o <<>>))
  BY <1>2, <1>3, <1>7, <1>11, <1>12, <1>13, <1>14, <1>15, <1>16, PlannedTwo
<1>18. Submit(owner, commands, none) \o <<>> = Submit(owner, commands, none)
  BY SingleIs, SeqIs DEF Submit
<1> QED BY <1>5, <1>17, <1>18 DEF none

(* The owner uses the resource after the commands that end with a barrier  *)
(* on its queue, or waits for those of another.                            *)
LEMMA OwnerFollows ==
  ASSUME NEW o, Given(o), ~Concurrent(o.request), NEW commands,
         EndsAt(commands, o.request.stages), NEW none, none = {}
  PROVE  Covers(o, Physical(Owner(o.request)), commands, none, none)
<1> DEFINE owner == Physical(Owner(o.request))
<1>1. o.users \subseteq {owner} BY ExclusiveIs, OwningIs
<1>2. ASSUME NEW t \in o.users, NEW stage \in UseStages(o, t)
      PROVE  Orders(commands[Len(commands)], UseOf(o, stage))
  <2>1. stage \in o.request.stages BY <1>2 DEF UseStages
  <2>2. UseOf(o, stage).op = "access" /\ UseOf(o, stage).stage = stage BY DEF UseOf, Access
  <2> QED BY <2>1, <2>2 DEF Orders, EndsAt
<1>3. \A t \in o.users : o.queues[t] = o.queues[owner] BY <1>1
<1> HIDE DEF owner
<1>4. Covers(o, owner, commands, none, none) BY <1>1, <1>2, <1>3 DEF Covers
<1> QED BY <1>4 DEF owner

(* The owner waits for the commands of another type.                       *)
LEMMA OwnerWaits ==
  ASSUME NEW o, Given(o), ~Concurrent(o.request), NEW type \in Types, NEW commands, NEW old, NEW new,
         Recorded(o, o.queues[type][1], commands, old, new), Final(o, new)
  PROVE  Planned(o, old, Submit(type, commands, {Physical(Owner(o.request))})
                           \o AddWait(Physical(Owner(o.request)), o.request.stages))
<1> DEFINE owner == Physical(Owner(o.request))
           dst == [t \in Types |-> o.request.stages]
           w == AddWait(owner, o.request.stages)
           targets == {owner}
<1>1. o.users \subseteq {owner} /\ owner \in Types BY ExclusiveIs, OwningIs
<1>2. Asks(targets, dst, w)
  <2>1. dst[owner] = o.request.stages BY <1>1
  <2>2. Asks({owner}, dst, AddWait(owner, dst[owner])) BY AsksOne
  <2> QED BY <2>1, <2>2
<1>3. Covers(o, type, commands, targets, dst)
  <2>1. ASSUME NEW t \in o.users, NEW stage \in UseStages(o, t)
        PROVE  t \in targets /\ stage \in dst[t]
    BY <1>1, <2>1 DEF UseStages
  <2> HIDE DEF dst
  <2> QED BY <2>1 DEF Covers
<1>4. UsersAgree(o) /\ o.users \subseteq Types BY GivenAgree
<1>5. targets \in SUBSET Types BY <1>1
<1> HIDE DEF targets, dst, w
<1>6. Planned(o, old, Submit(type, commands, targets) \o w)
  BY <1>2, <1>3, <1>4, <1>5, PlannedOne
<1> QED BY <1>6 DEF targets, w

(* Nothing is to wait for the commands.                                    *)
LEMMA OwnerAlone ==
  ASSUME NEW o, Given(o), ~Concurrent(o.request), NEW commands, NEW old, NEW new,
         EndsAt(commands, o.request.stages),
         Recorded(o, o.queues[Physical(Owner(o.request))][1], commands, old, new), Final(o, new)
  PROVE  Planned(o, old, Submit(Physical(Owner(o.request)), commands, {}))
<1> DEFINE owner == Physical(Owner(o.request))
           none == {}
<1>1. owner \in Types /\ none \in SUBSET Types BY ExclusiveIs, OwningIs
<1>2. UsersAgree(o) /\ o.users \subseteq Types BY GivenAgree
<1>3. Covers(o, owner, commands, none, none) BY OwnerFollows
<1>4. Asks(none, none, <<>>) BY AsksNothing
<1> HIDE DEF none, owner
<1>5. Planned(o, old, Submit(owner, commands, none) \o <<>>)
  BY <1>1, <1>2, <1>3, <1>4, PlannedOne DEF owner
<1>6. Submit(owner, commands, none) \o <<>> = Submit(owner, commands, none)
  BY SingleIs, SeqIs DEF Submit
<1> QED BY <1>5, <1>6 DEF none, owner

\* The state of a new buffer.
NewBuffer(o) == Plainly(All(o, "buffer"), {}, Ignored)

(* CreateBuffer, whatever it is asked for.                                 *)
LEMMA BufferPlanned ==
  ASSUME NEW o, Given(o), o.request.kind = "buffer"
  PROVE  Planned(o, NewBuffer(o), CreateBuffer(o.request))
<1> DEFINE r == o.request
           owner == Physical(Owner(r))
           f == o.queues["transfer"][1]
           flushed == Append(CopyToBuffer, Barrier({0}, "buffer", "buffer", {"transfer"}, {}))
           new == Plainly(All(o, "buffer"), Levels(r), Own(o, f))
<1>1. UsersAgree(o) /\ o.users \subseteq Types BY GivenAgree
<1>2. "buffer" = Promise(o) /\ r.levels = 1 /\ "transfer" \in Types BY DEF Promise, Given, Types
<1>3. Family(owner) = o.queues[owner][1] /\ Family("transfer") = f BY GivenIs
<1>4. CASE ~r.staged
  <2>1. CreateBuffer(r) = <<>> BY <1>4 DEF CreateBuffer
  <2>2. Final(o, NewBuffer(o)) BY <1>2, <1>4, FinalIs DEF NewBuffer
  <2> QED BY <1>1, <2>1, <2>2, PlannedNothing
<1>5. CASE r.staged /\ Concurrent(r) BY <1>5, ConcurrentBuffer DEF NewBuffer
<1>6. CASE r.staged /\ ~Concurrent(r) /\ o.queues[owner][1] = f
  <2>1. CreateBuffer(r) = Submit("transfer", flushed, {owner}) \o AddWait(owner, r.stages)
    BY <1>3, <1>6 DEF CreateBuffer
  <2>2. May(o, f, Ignored) BY <1>6, MayBegin
  <2>3. Recorded(o, f, flushed, NewBuffer(o), new) BY <1>2, <2>2, BufferFlushed DEF NewBuffer
  <2>4. Final(o, new)
    <3>1. o.sharing = {} => \A u \in o.users : Own(o, f) \in {Ignored, o.queues[u][1]}
      BY <1>6, OwnFits
    <3> QED BY <1>2, <3>1, FinalIs
  <2> HIDE DEF flushed, new
  <2>5. Planned(o, NewBuffer(o), Submit("transfer", flushed, {owner}) \o AddWait(owner, r.stages))
    BY <1>2, <1>6, <2>3, <2>4, OwnerWaits
  <2> QED BY <2>1, <2>5
<1>7. CASE r.staged /\ ~Concurrent(r) /\ o.queues[owner][1] # f
  <2>1. CreateBuffer(r) = HandOver(r, "transfer", CopyToBuffer, {0}, "buffer", "buffer")
    BY <1>3, <1>7 DEF CreateBuffer
  <2>2. May(o, f, Ignored) BY <1>7, MayBegin
  <2>3. /\ Recorded(o, f, CopyToBuffer, NewBuffer(o), new)
        /\ CopyToBuffer[Len(CopyToBuffer)].op = "access"
        /\ CopyToBuffer[Len(CopyToBuffer)].stage = "transfer"
    BY <1>2, <2>2, BufferCopied DEF NewBuffer
  <2>4. {0} = Levels(r) BY <1>2 DEF Levels
  <2>5. Ends(CopyToBuffer[Len(CopyToBuffer)]) BY <2>3 DEF Ends
  <2>6. Planned(o, NewBuffer(o), HandOver(r, "transfer", CopyToBuffer, {0}, "buffer", "buffer"))
    BY <1>2, <1>7, <2>3, <2>4, <2>5, HandedOver
  <2> QED BY <2>1, <2>6
<1> QED BY <1>4, <1>5, <1>6, <1>7

(* CreateExclusiveImage, whatever it is asked for.                         *)
LEMMA ExclusiveImage ==
  ASSUME NEW o, Given(o), o.request.kind = "image", ~Refused(o.request), ~Concurrent(o.request)
  PROVE  Planned(o, NewImage(o), CreateExclusiveImage(o.request))
<1> DEFINE r == o.request
           owner == Physical(Owner(r))
           f == o.queues["graphics"][1]
           filled == CopyToImage(r) \o Mipmaps(r)
           new == Plainly(All(o, r.layout), Levels(r), Own(o, f))
<1>1. o.users # {} => r.layout = Promise(o) BY DEF Given, Usable, Promise
<1>2. "graphics" \in Types /\ r.levels \in Nat \ {0} /\ (r.mips => r.levels > 1)
  BY GivenIs DEF Types, Given
<1>3. Family(owner) = o.queues[owner][1] /\ Family("graphics") = f BY GivenIs
<1>4. May(o, f, Ignored) BY MayBegin
<1>5. \A stages : /\ Append(filled, Finished(r, Filled(r), {"transfer"}, stages)) = Whole(r, stages)
                  /\ Recorded(o, f, Whole(r, stages), NewImage(o), new)
                  /\ EndsAt(Whole(r, stages), stages)
  <2> HIDE DEF f
  <2> QED BY <1>2, <1>4, ImageFinished DEF NewImage
<1>6. o.queues[owner][1] = f => Final(o, new) BY ImageFinal
<1>7. CASE r.staged /\ owner = "graphics"
  <2>1. CreateExclusiveImage(r) = Submit(owner, Whole(r, r.stages), {})
    BY <1>5, <1>7 DEF CreateExclusiveImage
  <2> HIDE DEF new
  <2>2. Planned(o, NewImage(o), Submit(owner, Whole(r, r.stages), {}))
    BY <1>5, <1>6, <1>7, OwnerAlone
  <2> QED BY <2>1, <2>2
<1>8. CASE r.staged /\ owner # "graphics" /\ o.queues[owner][1] = f
  <2> DEFINE none == {}
  <2>1. CreateExclusiveImage(r)
          = Submit("graphics", Whole(r, none), {owner}) \o AddWait(owner, r.stages)
    BY <1>3, <1>5, <1>8 DEF CreateExclusiveImage
  <2> HIDE DEF new, none
  <2>2. Planned(o, NewImage(o), Submit("graphics", Whole(r, none), {owner}) \o AddWait(owner, r.stages))
    BY <1>2, <1>5, <1>6, <1>8, OwnerWaits
  <2> QED BY <2>1, <2>2
<1>9. CASE r.staged /\ o.queues[owner][1] # f
  <2>1. CreateExclusiveImage(r) = HandOver(r, "graphics", filled, Levels(r), Filled(r), r.layout)
    BY <1>3, <1>9 DEF CreateExclusiveImage
  <2>2. /\ Recorded(o, f, filled, NewImage(o), Plainly(All(o, Filled(r)), Levels(r), Own(o, f)))
        /\ Ends(filled[Len(filled)])
    <3> HIDE DEF f
    <3> QED BY <1>2, <1>4, ImageFilled DEF NewImage
  <2>3. Filled(r) # "undefined" BY DEF Filled
  <2> HIDE DEF filled
  <2>4. Planned(o, NewImage(o), HandOver(r, "graphics", filled, Levels(r), Filled(r), r.layout))
    BY <1>1, <1>2, <1>9, <2>2, <2>3, HandedOver
  <2> QED BY <2>1, <2>4
<1>10. CASE ~r.staged /\ r.layout # "undefined"
  <2> DEFINE g == o.queues[owner][1]
             c == Finished(r, Untouched(r), {}, r.stages)
             data == IF Untouched(r) = "undefined" THEN {} \ Levels(r) ELSE {}
             laid == Plainly(All(o, r.layout), data, Own(o, g))
             cs == <<c>>
  <2>1. CreateExclusiveImage(r) = Submit(owner, cs, {}) BY <1>10 DEF CreateExclusiveImage
  <2>2. May(o, g, Ignored) BY MayBegin
  <2>3. Recorded(o, g, cs, NewImage(o), laid)
    <3>1. Recorded(o, g, <<Barrier(Levels(r), Untouched(r), r.layout, {}, r.stages)>>,
                   Plainly(All(o, Untouched(r)), {}, Ignored), laid)
      <4> HIDE DEF g
      <4> QED BY <2>2, BarrierOfAll
    <3> QED BY <3>1 DEF Finished, NewImage
  <2>4. EndsAt(cs, r.stages)
    <3>1. c.op = "barrier" /\ c.dst = r.stages BY DEF Finished, Barrier, Transfer
    <3> HIDE DEF c
    <3>2. Len(<<c>>) = 1 /\ <<c>>[1] = c BY SingleIs
    <3> QED BY <3>1, <3>2 DEF EndsAt
  <2>5. Final(o, laid) BY <1>10, ImageFinal
  <2> HIDE DEF cs, laid
  <2>6. Planned(o, NewImage(o), Submit(owner, cs, {})) BY <2>3, <2>4, <2>5, OwnerAlone
  <2> QED BY <2>1, <2>6
<1>11. CASE ~r.staged /\ r.layout = "undefined"
  <2>1. CreateExclusiveImage(r) = <<>> BY <1>11 DEF CreateExclusiveImage
  <2> QED BY <1>11, <2>1, NothingForImage
<1>12. r.staged \in BOOLEAN BY GivenIs
<1> QED BY <1>7, <1>8, <1>9, <1>10, <1>11, <1>12

\* What a new resource is like.
NewResource(o) == IF o.request.kind = "buffer" THEN NewBuffer(o) ELSE NewImage(o)

(* Create carries out a plan, from what the new resource is like.          *)
LEMMA CreatePlanned ==
  ASSUME NEW o, Given(o)
  PROVE  Planned(o, NewResource(o), Create(o.request))
<1> DEFINE r == o.request
<1>1. r.kind \in {"buffer", "image"} BY GivenIs
<1>2. CASE r.kind = "buffer"
  <2>1. Create(r) = CreateBuffer(r) /\ NewResource(o) = NewBuffer(o) BY <1>2 DEF Create, NewResource
  <2> QED BY <1>2, <2>1, BufferPlanned
<1>3. CASE r.kind = "image" /\ Refused(r)
  <2>1. Create(r) = <<>> /\ NewResource(o) = NewImage(o) BY <1>3 DEF Create, NewResource
  <2> QED BY <1>3, <2>1, NothingForImage
<1>4. CASE r.kind = "image" /\ ~Refused(r) /\ Concurrent(r)
  <2>1. Create(r) = CreateConcurrentImage(r) /\ NewResource(o) = NewImage(o)
    BY <1>4 DEF Create, NewResource
  <2> QED BY <1>4, <2>1, ConcurrentImage
<1>5. CASE r.kind = "image" /\ ~Refused(r) /\ ~Concurrent(r)
  <2>1. Create(r) = CreateExclusiveImage(r) /\ NewResource(o) = NewImage(o)
    BY <1>5 DEF Create, NewResource
  <2> QED BY <1>5, <2>1, ExclusiveImage
<1> QED BY <1>1, <1>2, <1>3, <1>4, <1>5

\* The cases the code handles.
AllHandled == \A case \in Cases : Handled(Selected(case[1]), case[2])

(* A call of CreateBuffer or CreateImage is that of a plan.                *)
LEMMA InitOngoing ==
  ASSUME AllHandled, Init
  PROVE  \E p : Ongoing(p) /\ Closed /\ Progress(p)
<1>1. PICK case \in Cases : request = case[2] /\ queues = Selected(case[1])
  BY DEF Init
<1> DEFINE U == IF Usable THEN {t \in Types : OwnedBy(request, t)} ELSE {}
           S == Sharing(request)
<1>2. PICK o : o.queues = queues /\ o.request = request /\ o.sharing = S /\ o.users = U
  <2> DEFINE w == [queues |-> queues, request |-> request, sharing |-> S, users |-> U]
  <2>1. w.queues = queues /\ w.request = request /\ w.sharing = S /\ w.users = U OBVIOUS
  <2> HIDE DEF w
  <2> QED BY <2>1
<1>3. Given(o)
  <2>1. /\ request \in CreateInfo
        /\ request.sharing = "exclusive" => Cardinality(request.owners) = 1
        /\ request.kind = "image" /\ request.staged => request.layout = "initial"
        /\ request.mips => request.kind = "image" /\ request.levels > 1
        /\ request.kind = "buffer" => request.levels = 1
    BY <1>1, CasesAssumption
  <2>2. Handled(queues, request) BY <1>1 DEF AllHandled
  <2> QED BY <1>2, <2>1, <2>2 DEF Given
<1>4. Planned(o, NewResource(o), Create(o.request)) BY <1>3, CreatePlanned
<1>5. PICK p : /\ Plan(p) /\ p.states[0] = NewResource(o) /\ Scripted(p, Create(o.request))
               /\ p.queues = o.queues /\ p.request = o.request
               /\ p.sharing = o.sharing /\ p.users = o.users
  BY <1>4 DEF Planned
<1>6. PlanOf(p) BY <1>2, <1>5 DEF PlanOf
<1>7. Scripted(p, script) BY <1>2, <1>5 DEF Init
<1>8. vkqueue = [q \in Queues(p) |-> <<>>]
  <2>1. DOMAIN queues = Types BY <1>1 DEF Selected, Types
  <2>2. Range(queues) = Queues(p) BY <1>2, <1>5, <2>1 DEF Range, Queues
  <2> QED BY <2>2 DEF Init
<1>9. resource = p.states[0]
  <2>1. CASE request.kind = "buffer"
    BY <1>2, <1>5, <2>1 DEF Init, NewResource, NewBuffer, Plainly, All
  <2>2. CASE request.kind # "buffer"
    BY <1>2, <1>5, <2>2 DEF Init, NewResource, NewImage, Plainly, All
  <2> QED BY <2>1, <2>2
<1>10. submissions = None /\ waits = None /\ done = {} /\ signals = {} BY DEF Init, None
<1>11. Ongoing(p) /\ Closed /\ Progress(p)
  BY <1>5, <1>6, <1>7, <1>8, <1>9, <1>10, OngoingInit
<1> QED BY <1>11

\* There is a plan that is carried out, and the GPU has got somewhere with it.
KeepsToPlan == \E p : Ongoing(p) /\ Closed /\ Progress(p)

(* However the GPU overlaps the queues and whatever other threads submit   *)
(* in between: when a copy, a blit, a barrier or a use by the application  *)
(* can execute, the resource is in the layout it names, holds the initial  *)
(* data if it reads it, and belongs to its queue family - for any GPUs,    *)
(* any resources that CreateBuffer and CreateImage handle, any number of   *)
(* levels and any number of uses.                                          *)
THEOREM AccessesSoundHolds ==
  ASSUME \A case \in Cases : Handled(Selected(case[1]), case[2])
  PROVE  Spec => []AccessesSound
<1>1. Init => KeepsToPlan BY InitOngoing DEF AllHandled, KeepsToPlan
<1>2. KeepsToPlan /\ [Next]_vars => KeepsToPlan'
  <2>1. SUFFICES ASSUME KeepsToPlan, [Next]_vars PROVE KeepsToPlan' OBVIOUS
  <2>2. PICK p : Ongoing(p) /\ Closed /\ Progress(p) BY <2>1 DEF KeepsToPlan
  <2>3. Ongoing(p)' /\ Closed' /\ Progress(p)' BY <2>1, <2>2, OngoingNext
  <2> QED BY <2>3 DEF KeepsToPlan
<1>3. KeepsToPlan => AccessesSound
  <2>1. SUFFICES ASSUME KeepsToPlan PROVE AccessesSound OBVIOUS
  <2>2. PICK p : Ongoing(p) /\ Closed /\ Progress(p) BY <2>1 DEF KeepsToPlan
  <2> QED BY <2>2, OngoingSound
<1> QED BY <1>1, <1>2, <1>3, PTL DEF Spec
=============================================================================
