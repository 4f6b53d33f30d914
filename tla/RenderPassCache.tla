--------------------------- MODULE RenderPassCache ---------------------------
(***************************************************************************)
(* How threads that record commands get their render passes, framebuffers  *)
(* and attachments: CommandBuffer::BeginRenderPass                         *)
(* (src/quantumvk/vulkan/command_buffer.cpp) calls                         *)
(* Device::RequestFramebuffer and Device::RequestRenderPass                *)
(* (src/quantumvk/vulkan/device.cpp), which look up a hash map behind a    *)
(* spin lock and the allocators of                                         *)
(* src/quantumvk/vulkan/graphics/render_pass.cpp behind a mutex.           *)
(*                                                                         *)
(* A hash stands for what was hashed: `hashed' lists the inputs of each    *)
(* Hasher in the order they first came, and HashOrder gives the values.    *)
(* Two inputs never have the same hash, but they meet in the tables.       *)
(***************************************************************************)
EXTENDS RWSpinLock, HashMap, RenderPass

CONSTANTS
    Names,        \* names of the infos the client uses
    InfoNamed(_), \* the info with a name
    Workloads,    \* what each thread will begin: functions from Threads to sequences
                  \* of names
    Workarounds,  \* a subset of {"forceStore", "acquireEarly"}
    HashOrder,    \* the values of the hashes
    FirstCookie,  \* cookies up to this one belong to images the client made
    MaxFrames     \* bound: frames begun and idle waits

\* The infos the constructor takes.
ValidNames == {i \in Names : ValidInfo(InfoNamed(i))}
IsList(s) == Len(s) \in Nat /\ DOMAIN s = 1..Len(s)

ASSUME ClientAssumption ==
    /\ Workloads \subseteq [Threads -> Seq(ValidNames)]
    /\ \A i \in ValidNames : IsList(InfoNamed(i).attachments) /\ IsList(InfoNamed(i).subpasses)
ASSUME HashAssumption ==
    HashOrder \in Seq(HashValues) /\ IsInjective(HashOrder)
ASSUME BoundsAssumption ==
    FirstCookie \in Nat /\ MaxFrames \in Nat

VARIABLES
    hashed,        \* what the render pass, framebuffer and attachment hashes stand for
    passes,        \* Device::render_passes
    built,         \* hash -> the name of the info its RenderPass was constructed from
    framebuffers,  \* FramebufferAllocator::framebuffers, made from [pass, views]
    attachments,   \* TransientAttachmentAllocator::attachments, made with a cookie
    cookies,       \* the last cookie given out
    todo,          \* what each thread has still to begin, the one it is at first
    step,          \* where each thread is in BeginRenderPass
    missed,        \* its lookup found nothing
    views,         \* cookies of the views of its attachments, 0 when not requested yet
    got,           \* the hashes of what it has been given
    frames         \* frames begun and idle waits so far

cacheVars == <<hashed, passes, built, framebuffers, attachments, cookies>>
threadVars == <<todo, step, missed, views, got>>
vars == <<lockVars, cacheVars, threadVars, frames>>

-----------------------------------------------------------------------------
(* Hashes.                                                                 *)

\* A slip: the initial layouts are left out of every hash.
BugHashedFields(info, compatible) ==
    [attachments |-> [a \in DOMAIN info.attachments |->
        LET att == info.attachments[a]
        IN <<att.kind, att.format, att.domain, IF compatible THEN "any" ELSE att.final>>],
     subpasses |-> info.subpasses,
     operations |-> IF compatible THEN <<>>
                    ELSE <<info.load, info.store,
                           [a \in DOMAIN info.attachments |->
                              <<info.attachments[a].load, info.attachments[a].store>>]>>]

\* What RequestRenderPass hashes: compatible passes do not care about layouts,
\* operations and flags.  Sample counts are never hashed.
HashedFields(info, compatible) ==
    [attachments |-> [a \in DOMAIN info.attachments |->
        LET att == info.attachments[a]
        IN <<att.kind, att.format, att.domain,
             IF compatible THEN "any" ELSE att.initial,
             IF compatible THEN "any" ELSE att.final>>],
     subpasses |-> info.subpasses,
     operations |-> IF compatible THEN <<>>
                    ELSE <<info.load, info.store,
                           [a \in DOMAIN info.attachments |->
                              <<info.attachments[a].load, info.attachments[a].store>>]>>]

\* The hasher that has met this input, and the value it gives.
Met(kind, input) ==
    IF Contains(hashed[kind], input) THEN hashed
    ELSE [hashed EXCEPT ![kind] = Append(@, input)]
HashOf(kind, input) ==
    LET known == Met(kind, input)[kind]
    IN HashOrder[CHOOSE i \in DOMAIN known : known[i] = input]

\* Bound: no more inputs of a kind than there are hashes to give them.
Remember(kind, input) ==
    /\ Len(Met(kind, input)[kind]) <= Len(HashOrder)
    /\ hashed' = Met(kind, input)

-----------------------------------------------------------------------------
(* RequestRenderPass.                                                      *)

Info(t) == InfoNamed(Head(todo[t]))
PassFields(t) == HashedFields(Info(t), step[t] = "compatible")

\* The thread has its pass and goes on.
Take(t, hash) ==
    /\ got' = [got EXCEPT ![t][step[t]] = hash]
    /\ step' = [step EXCEPT ![t] = IF @ = "compatible" THEN "framebuffer" ELSE "recording"]

\* ThreadSafeIntrusiveHashMap::find: the read lock.
StartFind(t) ==
    /\ step[t] \in {"compatible", "actual"} /\ ~missed[t]
    /\ \A a \in DOMAIN views[t] : views[t][a] # 0
    /\ LockRead(t)
    /\ UNCHANGED <<cacheVars, threadVars, frames>>

Spin(t) == SpinRead(t) /\ UNCHANGED <<cacheVars, threadVars, frames>>

\* find: look the hash up, and leave the lock.
FindPass(t) ==
    LET hash == HashOf("passes", PassFields(t))
    IN /\ UnlockRead(t)
       /\ Remember("passes", PassFields(t))
       /\ IF Found(passes, hash)
          THEN Take(t, hash) /\ UNCHANGED missed
          ELSE missed' = [missed EXCEPT ![t] = TRUE] /\ UNCHANGED <<got, step>>
       /\ UNCHANGED <<passes, built, framebuffers, attachments, cookies, todo, views, frames>>

\* emplace_yield: the write lock.
StartEmplace(t) ==
    /\ missed[t]
    /\ LockWrite(t)
    /\ UNCHANGED <<cacheVars, threadVars, frames>>

\* emplace_yield: construct the pass; it is freed again when another thread
\* has put one there since the lookup.
EmplacePass(t) ==
    LET hash == HashOf("passes", PassFields(t))
    IN /\ UnlockWrite(t)
       /\ passes' = InsertYield(passes, hash)
       /\ built' = [h \in DOMAIN built \cup {hash} |->
                      IF h \in DOMAIN built THEN built[h] ELSE Head(todo[t])]
       /\ Take(t, hash)
       /\ missed' = [missed EXCEPT ![t] = FALSE]
       /\ UNCHANGED <<hashed, framebuffers, attachments, cookies, todo, views, frames>>

-----------------------------------------------------------------------------
(* A thread's render pass.                                                 *)

Nothing == [compatible |-> -1, framebuffer |-> -1, actual |-> -1]

\* The client fills in an info: it has the views of its own images at hand.
Begin(t) ==
    /\ step[t] = "idle" /\ todo[t] # <<>>
    /\ step' = [step EXCEPT ![t] = "compatible"]
    /\ views' = [views EXCEPT ![t] = [a \in DOMAIN Info(t).attachments |->
                                        Info(t).attachments[a].view]]
    /\ UNCHANGED <<lockVars, cacheVars, todo, missed, got, frames>>

\* Device::GetTransientAttachment for the next transient attachment.
RequestAttachment(t) ==
    LET missing == {a \in DOMAIN views[t] : views[t][a] = 0}
        next == Min(missing)
        att == Info(t).attachments[next]
        key == <<att.format, att.samples, next>>
        hash == HashOf("attachments", key)
    IN /\ step[t] = "compatible" /\ missing # {}
       /\ Remember("attachments", key)
       /\ attachments' = Requested(attachments, hash, cookies + 1)
       /\ cookies' = IF Found(attachments.map, hash) THEN cookies ELSE cookies + 1
       /\ views' = [views EXCEPT ![t][next] = attachments'.made[hash]]
       /\ UNCHANGED <<lockVars, passes, built, framebuffers, todo, step, missed, got, frames>>

\* FramebufferAllocator::RequestFramebuffer, under its mutex.
RequestFramebuffer(t) ==
    LET args == [pass |-> got[t].compatible, views |-> views[t]]
        hash == HashOf("framebuffers", args)
    IN /\ step[t] = "framebuffer"
       /\ Remember("framebuffers", args)
       /\ framebuffers' = Requested(framebuffers, hash, args)
       /\ got' = [got EXCEPT ![t].framebuffer = hash]
       /\ step' = [step EXCEPT ![t] = "actual"]
       /\ UNCHANGED <<lockVars, passes, built, attachments, cookies, todo, missed, views, frames>>

EndRenderPass(t) ==
    /\ step[t] = "recording"
    /\ step' = [step EXCEPT ![t] = "idle"]
    /\ todo' = [todo EXCEPT ![t] = Tail(@)]
    /\ views' = [views EXCEPT ![t] = <<>>]
    /\ got' = [got EXCEPT ![t] = Nothing]
    /\ UNCHANGED <<lockVars, cacheVars, missed, frames>>

-----------------------------------------------------------------------------
(* The device.  NextFrameContext and WaitIdle wait until no command buffer *)
(* is open.                                                                *)

NoCommandBuffers == \A t \in Threads : step[t] = "idle"

BeginFrame ==
    /\ NoCommandBuffers /\ frames < MaxFrames
    /\ framebuffers' = NextFrame(framebuffers)
    /\ attachments' = NextFrame(attachments)
    /\ frames' = frames + 1
    /\ UNCHANGED <<lockVars, hashed, passes, built, cookies, threadVars>>

WaitIdle ==
    /\ NoCommandBuffers /\ frames < MaxFrames
    /\ framebuffers' = Cleared(framebuffers)
    /\ attachments' = Cleared(attachments)
    /\ frames' = frames + 1
    /\ UNCHANGED <<lockVars, hashed, passes, built, cookies, threadVars>>

Init ==
    /\ LockInit
    /\ hashed = [passes |-> <<>>, framebuffers |-> <<>>, attachments |-> <<>>]
    /\ passes = EmptyMap /\ built = <<>>
    /\ framebuffers = EmptyCache /\ attachments = EmptyCache /\ cookies = FirstCookie
    /\ todo \in Workloads
    /\ step = [t \in Threads |-> "idle"] /\ missed = [t \in Threads |-> FALSE]
    /\ views = [t \in Threads |-> <<>>] /\ got = [t \in Threads |-> Nothing]
    /\ frames = 0

Thread(t) ==
    \/ Begin(t) \/ RequestAttachment(t) \/ RequestFramebuffer(t) \/ EndRenderPass(t)
    \/ StartFind(t) \/ Spin(t) \/ FindPass(t) \/ StartEmplace(t) \/ EmplacePass(t)

Next == BeginFrame \/ WaitIdle \/ \E t \in Threads : Thread(t)

Spec == Init /\ [][Next]_vars

\* Where a thread can take a step: ENABLED Thread(t), spelled out because TLC
\* would build a pass to find out.
Ready(t) ==
    CASE holds[t] = "spinning" -> ~HasWriter
      [] holds[t] \in {"reading", "writing"} -> TRUE
      [] OTHER -> /\ step[t] = "idle" => todo[t] # <<>>
                  /\ missed[t] => counter = 0

\* Weak fairness of each thread.
FairSpec ==
    Spec /\ \A t \in Threads : []<>~Ready(t) \/ []<><<Thread(t)>>_vars
-----------------------------------------------------------------------------
(* Properties.                                                             *)

Recording == {t \in Threads : step[t] = "recording"}
TypeOK ==
    /\ LockTypeOK
    /\ DOMAIN built \subseteq ToSet(HashOrder) /\ \A h \in DOMAIN built : built[h] \in Names
    /\ cookies \in Nat /\ frames \in 0..MaxFrames
    /\ framebuffers.index \in 0..RingSize - 1 /\ attachments.index \in 0..RingSize - 1
    /\ todo \in [Threads -> Seq(Names)] /\ missed \in [Threads -> BOOLEAN]
    /\ step \in [Threads -> {"idle", "compatible", "framebuffer", "actual", "recording"}]
    /\ \A t \in Threads : step[t] # "idle" => todo[t] # <<>>

\* However requests meet in the tables and whatever the frames free, every
\* live object is found, once, and the rings free it once.
MapsSound ==
    /\ MapSound(passes) /\ ToSet(passes.list) = DOMAIN built
    /\ CacheSound(framebuffers) /\ CacheSound(attachments)

\* The pass under a hash.
Built(hash) == Build(InfoNamed(built[hash]), Workarounds)

\* What render pass compatibility asks, but for the external dependencies.
Compatible(p, q) ==
    LET inner(pass) == {d \in pass.dependencies : d.src # External}
    IN /\ DOMAIN p.attachments = DOMAIN q.attachments
       /\ \A a \in DOMAIN p.attachments :
            /\ p.attachments[a].format = q.attachments[a].format
            /\ p.attachments[a].samples = q.attachments[a].samples
       /\ p.uses = q.uses /\ p.preserve = q.preserve /\ inner(p) = inner(q)

\* A thread records with exactly the pass it described, even if another thread
\* built it, and with a framebuffer of a compatible pass and of the live views
\* of its own attachments.
PassFits ==
    \A t \in Recording :
        LET framebuffer == framebuffers.made[got[t].framebuffer]
            transient == {a \in DOMAIN views[t] : Info(t).attachments[a].view = 0}
        IN /\ Built(got[t].actual) = Build(Info(t), Workarounds)
           /\ Compatible(Built(framebuffer.pass), Build(Info(t), Workarounds))
           /\ framebuffer.views = views[t]
           /\ \A a \in transient : \E h \in DOMAIN attachments.made :
                attachments.made[h] = views[t][a]

-----------------------------------------------------------------------------
(* What the passes promise the commands inside them.                       *)

\* Stages and accesses of a use.
UseStages(use) == CASE use = "input" -> {"fragment"} [] use = "depth" -> Tests
                    [] OTHER -> {"colorOutput"}
ReadAccess(use) == CASE use = "input" -> {"inputRead"} [] use = "depth" -> {"depthRead"}
                     [] use = "color" -> {"colorRead", "colorWrite"} [] OTHER -> {"colorWrite"}
WriteAccess(info, s, use) ==
    CASE use = "input" -> {}
      [] use = "depth" -> When(info.subpasses[s].mode = "readWrite", {"depthWrite"})
      [] OTHER -> {"colorWrite"}

\* A source stage also waits for the stages before it.
Order == <<"earlyTests", "fragment", "lateTests", "colorOutput", "bottom">>
Rank(stage) == CHOOSE i \in DOMAIN Order : Order[i] = stage
WaitsFor(src, stages) == \A x \in stages : \E y \in src : Rank(x) <= Rank(y)

Reaches(dependency, info, a, s) ==
    \A use \in Uses(info, a, s) :
        /\ UseStages(use) \subseteq dependency.dstStages
        /\ ReadAccess(use) \cup WriteAccess(info, s, use) \subseteq dependency.dstAccess

\* The use of an attachment in subpass s waits for its use in an earlier
\* subpass, through the subpasses between, and sees what was written there.
Ordered(info, pass, a, before, s) ==
    LET between(k) == CHOOSE d \in pass.dependencies : d.src = k /\ d.dst = k + 1
        first == between(before)
    IN /\ \A use \in Uses(info, a, before) :
            /\ WaitsFor(first.srcStages, UseStages(use))
            /\ WriteAccess(info, before, use) \subseteq first.srcAccess
       /\ \A k \in before..s - 2 :
            \E stage \in between(k).dstStages : WaitsFor(between(k + 1).srcStages, {stage})
       /\ Reaches(between(s - 1), info, a, s)

Writes(info, a, s) == \E use \in Uses(info, a, s) : WriteAccess(info, s, use) # {}
UsedIn(info, a) == {s \in DOMAIN info.subpasses : Uses(info, a, s) # {}}

Synchronised(info, pass) ==
    \A a \in DOMAIN info.attachments :
        \A s \in UsedIn(info, a) :
            LET layout == pass.layouts[a]
                initial == pass.attachments[a].initial
                earlier == {k \in UsedIn(info, a) : k < s}
            IN /\ earlier = {} /\ initial # layout[s] =>
                    \E d \in pass.dependencies :
                        /\ d.src = External /\ d.dst = s /\ Reaches(d, info, a, s)
                        /\ initial = "present" => "bottom" \in d.srcStages
               /\ \A before \in earlier :
                    Writes(info, a, before) \/ Writes(info, a, s) \/ layout[before] # layout[s]
                      => Ordered(info, pass, a, before, s)
               /\ "input" \in Uses(info, a, s) /\ Writes(info, a, s) =>
                    \E d \in pass.dependencies :
                        d.src = s /\ d.dst = s /\ "inputRead" \in d.dstAccess

\* In every layout an attachment can serve all its uses, and a subpass that
\* does not use it keeps it if a later one does.
Kept(info, pass) ==
    \A a \in DOMAIN info.attachments :
        LET used == UsedIn(info, a)
            serves(s, use) ==
                CASE use \in {"color", "resolve"} -> {"colorAttachment", "general"}
                  [] use = "input" -> {"shaderReadOnly", "depthReadOnly", "general"}
                  [] use = "depth" /\ info.subpasses[s].mode = "readWrite" ->
                       {"depthAttachment", "general"}
                  [] OTHER -> {"depthReadOnly", "general"}
        IN /\ \A s \in used : \A use \in Uses(info, a, s) : pass.layouts[a][s] \in serves(s, use)
           /\ \A s \in DOMAIN info.subpasses :
                a \in pass.preserve[s]
                  <=> s \notin used /\ (\E k \in used : k < s) /\ (\E k \in used : s < k)
           /\ pass.attachments[a].final # "undefined"
           /\ pass.attachments[a].load = "load" => pass.attachments[a].initial # "undefined"

\* The pass a thread records in orders the uses of its attachments: a change of
\* layout at the first use waits for what came before the pass, and whatever a
\* subpass writes is visible to those that use it later.
PassSynchronised == \A t \in Recording : Synchronised(Info(t), Built(got[t].actual))

\* The pass a thread records in keeps its attachments in layouts that fit their
\* uses, and preserves them through the subpasses between two uses.
AttachmentsKept == \A t \in Recording : Kept(Info(t), Built(got[t].actual))

-----------------------------------------------------------------------------
(* The invariant that the proofs rest on.                                  *)

\* A hash is the value of one input.
Stands(known, hash, input) ==
    \E i \in DOMAIN known : known[i] = input /\ HashOrder[i] = hash
Kinds == {"passes", "framebuffers", "attachments"}
HashersSound ==
    /\ DOMAIN hashed = Kinds
    /\ \A kind \in Kinds :
         /\ hashed[kind] \in Seq(ToSet(hashed[kind])) /\ IsInjective(hashed[kind])
         /\ Len(hashed[kind]) <= Len(HashOrder)

\* Every object in a table was made from the input its hash stands for.
PassesKeyed ==
    /\ MapInv(passes) /\ Unbroken(passes, ToSet(passes.list))
    /\ DOMAIN built = ToSet(passes.list)
    /\ \A h \in DOMAIN built :
         /\ built[h] \in ValidNames
         /\ \E compatible \in BOOLEAN :
              Stands(hashed.passes, h, HashedFields(InfoNamed(built[h]), compatible))
FramebuffersKeyed ==
    /\ CacheInv(framebuffers)
    /\ \A h \in DOMAIN framebuffers.made : Stands(hashed.framebuffers, h, framebuffers.made[h])
AttachmentsKeyed ==
    /\ CacheInv(attachments)
    /\ cookies \in Nat /\ \A h \in DOMAIN attachments.made : attachments.made[h] \in Nat \ {0}

\* Where a thread can be in BeginRenderPass, and what it holds there.
StepOrdered(t) ==
    /\ holds[t] \in {"spinning", "reading"} => step[t] \in {"compatible", "actual"} /\ ~missed[t]
    /\ holds[t] = "writing" => missed[t]
    /\ missed[t] => step[t] \in {"compatible", "actual"}
                    /\ \E h \in ToSet(HashOrder) : Stands(hashed.passes, h, PassFields(t))
    /\ step[t] # "idle" => todo[t] # <<>>
                          /\ DOMAIN views[t] = DOMAIN Info(t).attachments
    /\ step[t] \in {"framebuffer", "actual", "recording"} \/ holds[t] # "free" \/ missed[t]
         => \A a \in DOMAIN views[t] : views[t][a] # 0

\* The views that are not the client's own are live attachments.
ViewsLive(t) ==
    step[t] # "idle" =>
        \A a \in DOMAIN views[t] :
            Info(t).attachments[a].view = 0 /\ views[t][a] # 0
              => \E h \in DOMAIN attachments.made : attachments.made[h] = views[t][a]

\* What it has been given stands for what it asked for, and is still there.
GotWhatItAsked(t) ==
    /\ DOMAIN got[t] = {"compatible", "framebuffer", "actual"}
    /\ step[t] \in {"framebuffer", "actual", "recording"} =>
         /\ got[t].compatible \in DOMAIN built
         /\ Stands(hashed.passes, got[t].compatible, HashedFields(Info(t), TRUE))
    /\ step[t] \in {"actual", "recording"} =>
         /\ got[t].framebuffer \in DOMAIN framebuffers.made
         /\ Stands(hashed.framebuffers, got[t].framebuffer,
                   [pass |-> got[t].compatible, views |-> views[t]])
    /\ step[t] = "recording" =>
         /\ got[t].actual \in DOMAIN built
         /\ Stands(hashed.passes, got[t].actual, HashedFields(Info(t), FALSE))

ThreadsTyped ==
    /\ todo \in [Threads -> Seq(ValidNames)] /\ missed \in [Threads -> BOOLEAN]
    /\ step \in [Threads -> {"idle", "compatible", "framebuffer", "actual", "recording"}]
    /\ DOMAIN views = Threads /\ DOMAIN got = Threads

RequestInv ==
    /\ LockInv /\ ThreadsTyped /\ frames \in 0..MaxFrames
    /\ HashersSound /\ PassesKeyed /\ FramebuffersKeyed /\ AttachmentsKeyed
    /\ \A t \in Threads : StepOrdered(t) /\ ViewsLive(t) /\ GotWhatItAsked(t)

-----------------------------------------------------------------------------
\* Every BeginRenderPass returns: the lock is never waited for in vain.
RequestsReturn == \A t \in Threads : <>(todo[t] = <<>>)
=============================================================================
