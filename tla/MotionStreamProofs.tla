-------------------------- MODULE MotionStreamProofs --------------------------
(***************************************************************************)
(* Proofs about MotionStream for any callers and any numbers of requests,  *)
(* frames and faults: a halt that has returned is final, no two requests   *)
(* interleave their frames, nothing is left moving, and nobody waits for   *)
(* an event that nobody will set.                                          *)
(***************************************************************************)
EXTENDS MotionStream, FiniteSetTheorems, TLAPS

\* Callers with a generation of their own.
Pending(c) == caller[c].pc \in {"waiting", "woken", "running"}

\* Who has which generation, and who has submitted its job: a job belongs to the
\* caller that awaits it unless it is cancelled, and no two callers share one.
OwnerInv ==
  /\ \A c \in Callers : Pending(c) => caller[c].gen \in 1..gen /\ caller[c].kind \in Kinds
  /\ \A c, d \in Callers : Pending(c) /\ Pending(d) /\ caller[c].gen = caller[d].gen => c = d
  /\ \A c \in Callers : caller[c].pc \in {"waiting", "woken"} => job[caller[c].gen] = NoJob
  /\ \A c \in Callers : caller[c].pc = "running" =>
       job[caller[c].gen].kind = caller[c].kind /\ ~job[caller[c].gen].cancelled
  /\ \A g \in Gens : job[g].pc # "none" =>
       /\ g <= gen
       /\ job[g].cancelled \/ \E c \in Callers : caller[c].pc = "running" /\ caller[c].gen = g

\* What a job is at each step of its coroutine.
JobInv ==
  \A g \in Gens :
    /\ job[g].pc = "none" => job[g] = NoJob
    /\ job[g].pc # "none" => job[g].kind \in Kinds
    /\ job[g].pc \in {"check", "publish"} \/ job[g].cancelled => job[g].kind \in Streams
    /\ job[g].pc \in {"ready", "check", "publish"} => job[g].left > 0

\* Between its check and its frame a stream has the background loop to itself,
\* and it is the newest that has moved the robot.
LoopInv ==
  /\ \A g, h \in Gens : job[g].pc = "publish" /\ job[h].pc = "publish" => g = h
  /\ \A g \in Gens : job[g].pc = "publish" => frame.gen <= g
  /\ frame.gen <= gen

\* From its first zero frame on, a halt has the last word over older streams.
HaltInv ==
  /\ HaltIsFinal
  /\ halted <= gen
  /\ \A c \in Callers : Pending(c) => caller[c].gen # halted
  /\ \A h \in Gens : job[h].pc = "publish" => h > halted
  /\ \A g \in Gens : connected /\ job[g].kind \in Halts /\ job[g].pc \in {"zeros", "done"} =>
       /\ frame.moving => frame.gen > g
       /\ \A h \in Gens : job[h].pc = "publish" => h > g

\* Whoever will bring the robot to rest: a drive that has not ended, a hold or the
\* release it owes, a halt whose zero frames are not out.
WillDrive == \E g \in Gens : job[g].kind = "drive" /\ job[g].pc \in {"check", "publish"}
WillHalt(c) ==
  \/ caller[c].kind = "hold"
  \/ /\ caller[c].kind \in Halts
     /\ caller[c].pc = "running" => job[caller[c].gen].pc \notin {"zeros", "done"}
RestInv ==
  connected /\ (frame.moving \/ ~LoopFree) => WillDrive \/ \E c \in Callers : WillHalt(c)

StreamInv ==
  StreamTypeOK /\ OwnerInv /\ JobInv /\ LoopInv /\ HaltInv /\ RestInv /\ EventWillBeSet
-----------------------------------------------------------------------------
JobType == [kind: {"none"} \union Kinds,
            pc: {"none", "ready", "check", "publish", "zeros", "done"},
            left: 0..(MaxFrames + ZeroFrames), ok: BOOLEAN, cancelled: BOOLEAN]
CallerType == [kind: {"none"} \union Kinds, gen: 0..LastGen,
               pc: {"none", "waiting", "woken", "running", "after"}]

\* The bounds are numbers, and every caller may owe a halt beyond MaxGen.
LEMMA Sizes ==
  /\ MaxGen \in Nat /\ LastGen \in Nat /\ MaxGen <= LastGen
  /\ MaxFrames \in Nat \ {0} /\ ZeroFrames \in Nat \ {0} /\ MaxFaults \in Nat
<1>1. Cardinality(Callers) \in Nat
  BY StreamAssumption, FS_CardinalityType
<1>. QED BY <1>1, StreamAssumption DEF LastGen

\* The parts of the type invariant, as the other lemmas use them.
LEMMA StreamTypes ==
  ASSUME StreamTypeOK
  PROVE  /\ gen \in 0..LastGen /\ halted \in 0..LastGen /\ faults \in 0..MaxFaults
         /\ idle \in BOOLEAN /\ connected \in BOOLEAN
         /\ frame \in [gen: 0..LastGen, moving: BOOLEAN]
         /\ caller \in [Callers -> CallerType] /\ job \in [Gens -> JobType]
BY DEF StreamTypeOK, CallerType, JobType

\* A job that is over: forgotten when it was cancelled, else left for its caller.
Finished(g) ==
  /\ job[g].cancelled => job'[g] = NoJob
  /\ ~job[g].cancelled =>
       job'[g].pc = "done" /\ job'[g].kind = job[g].kind /\ ~job'[g].cancelled
Others(g) == \A h \in Gens \ {g} : job'[h] = job[h]
Zeroed == frame'.gen = frame.gen /\ (frame'.moving <=> frame.moving /\ ~connected)

\* A generation without a job has the type of one.
LEMMA NoJobType == NoJob \in JobType /\ NoJob.pc = "none" /\ NoJob.kind = "none" /\ ~NoJob.cancelled
BY Sizes DEF NoJob, JobType

\* A job that is done leaves the others alone.
LEMMA DoneShape ==
  ASSUME job \in [Gens -> JobType], NEW g \in Gens, NEW ok \in BOOLEAN, job' = Done(g, ok)
  PROVE  job' \in [Gens -> JobType] /\ Others(g) /\ Finished(g)
<1>1. CASE job[g].cancelled
  BY <1>1, NoJobType DEF Done, Others, Finished
<1>2. CASE ~job[g].cancelled
  <2>1. job' = [job EXCEPT ![g] = [job[g] EXCEPT !.pc = "done", !.ok = ok, !.left = 0]]
    BY <1>2 DEF Done
  <2>2. [job[g] EXCEPT !.pc = "done", !.ok = ok, !.left = 0] \in JobType
    <3>1. 0 \in 0..(MaxFrames + ZeroFrames) /\ job[g] \in JobType
      BY Sizes
    <3>. QED BY <3>1 DEF JobType
  <2>3. /\ [job[g] EXCEPT !.pc = "done", !.ok = ok, !.left = 0].pc = "done"
        /\ [job[g] EXCEPT !.pc = "done", !.ok = ok, !.left = 0].kind = job[g].kind
        /\ [job[g] EXCEPT !.pc = "done", !.ok = ok, !.left = 0].cancelled = job[g].cancelled
    BY DEF JobType
  <2>. QED BY <1>2, <2>1, <2>2, <2>3 DEF Others, Finished
<1>. QED BY <1>1, <1>2

\* A frame of zeros is published when the robot is connected.
LEMMA ZeroShape ==
  ASSUME frame \in [gen: 0..LastGen, moving: BOOLEAN], connected \in BOOLEAN, PublishZero
  PROVE  frame' \in [gen: 0..LastGen, moving: BOOLEAN] /\ Zeroed
BY DEF PublishZero, Zeroed

\* A drive ends by zeros, anything else at once.
LEMMA EndShape ==
  ASSUME StreamTypeOK, NEW g \in Gens, NEW ok \in BOOLEAN, End(g, ok)
  PROVE  /\ job' \in [Gens -> JobType] /\ Others(g) /\ frame' \in [gen: 0..LastGen, moving: BOOLEAN]
         /\ job[g].kind = "drive" =>
              /\ Zeroed /\ job'[g].pc = "zeros" /\ job'[g].kind = "drive"
              /\ job'[g].cancelled = job[g].cancelled
         /\ job[g].kind # "drive" => Finished(g) /\ frame' = frame
<1>1. CASE job[g].kind = "drive"
  <2>1. /\ job' = [job EXCEPT ![g] = [job[g] EXCEPT !.pc = "zeros", !.left = ZeroFrames - 1, !.ok = ok]]
        /\ PublishZero
    BY <1>1, StreamTypes DEF End
  <2>2. [job[g] EXCEPT !.pc = "zeros", !.left = ZeroFrames - 1, !.ok = ok] \in JobType
    <3>1. ZeroFrames - 1 \in 0..(MaxFrames + ZeroFrames)
      BY Sizes
    <3>. QED BY <3>1, StreamTypes DEF JobType
  <2>3. /\ job'[g].pc = "zeros" /\ job'[g].kind = "drive" /\ job'[g].cancelled = job[g].cancelled
    BY <1>1, <2>1, StreamTypes DEF JobType
  <2>. QED BY <1>1, <2>1, <2>2, <2>3, StreamTypes, ZeroShape DEF Others
<1>2. CASE job[g].kind # "drive"
  BY <1>2, StreamTypes, DoneShape DEF End
<1>. QED BY <1>1, <1>2

\* A job's record with another step and other frames left.
Step(r, pc, left) == [r EXCEPT !.pc = pc, !.left = left]

\* The next step of a job is a job of the same kind.
LEMMA StepType ==
  ASSUME NEW r \in JobType, NEW pc \in {"check", "publish", "zeros"},
         NEW left \in 0..(MaxFrames + ZeroFrames)
  PROVE  /\ Step(r, pc, left) \in JobType /\ Step(r, pc, left).pc = pc
         /\ Step(r, pc, left).left = left /\ Step(r, pc, left).kind = r.kind
         /\ Step(r, pc, left).cancelled = r.cancelled
BY DEF Step, JobType

\* A job that goes on leaves the others alone.
LEMMA Stepped ==
  ASSUME job \in [Gens -> JobType], NEW g \in Gens, NEW pc \in {"check", "publish", "zeros"},
         NEW left \in 0..(MaxFrames + ZeroFrames), job' = [job EXCEPT ![g] = Step(job[g], pc, left)]
  PROVE  /\ job' \in [Gens -> JobType] /\ Others(g) /\ job'[g].pc = pc /\ job'[g].left = left
         /\ job'[g].kind = job[g].kind /\ job'[g].cancelled = job[g].cancelled
<1>. DEFINE r == Step(job[g], pc, left)
<1>1. r \in JobType /\ r.pc = pc /\ r.left = left /\ r.kind = job[g].kind /\ r.cancelled = job[g].cancelled
  BY StepType
<1>. HIDE DEF r
<1>2. job' = [job EXCEPT ![g] = r]
  BY DEF r
<1>. QED BY <1>1, <1>2 DEF Others

\* What a job's step can do to it and to the robot, whichever step it is.
JobMoves(g) ==
  /\ UNCHANGED <<gen, idle, connected, caller, halted>> /\ faults' \in 0..MaxFaults
  /\ job' \in [Gens -> JobType] /\ Others(g) /\ frame' \in [gen: 0..LastGen, moving: BOOLEAN]
  /\ job[g].pc \in {"ready", "check", "publish", "zeros"}
  /\ job[g].pc # "publish" => LoopFree
  /\ \/ job[g].cancelled /\ job'[g] = NoJob
     \/ /\ job'[g].pc \in {"check", "publish", "zeros", "done"}
        /\ job'[g].kind = job[g].kind /\ job'[g].cancelled = job[g].cancelled
  /\ job'[g].pc \in {"check", "publish"} => job[g].kind \in Streams /\ job'[g].left > 0
  /\ job'[g].pc = "publish" =>
       /\ LoopFree /\ gen = g /\ connected /\ frame' = frame
       /\ ~job[g].cancelled
  /\ frame' = frame \/ Zeroed \/ (job[g].pc = "publish" /\ frame'.gen = g)
  /\ job[g].kind \in Halts /\ job[g].pc # "zeros" => Zeroed
  /\ /\ job[g].kind = "drive" /\ job[g].pc \in {"check", "publish"}
     /\ job'[g].pc \notin {"check", "publish"} /\ connected
     => ~frame'.moving

\* The two ways a job ends, as moves: into the zero frames of a drive, or for good.
LEMMA DoneMoves ==
  ASSUME StreamTypeOK, NEW g \in Gens, NEW ok \in BOOLEAN, job' = Done(g, ok),
         UNCHANGED <<gen, idle, connected, caller, halted>>, faults' \in 0..MaxFaults,
         job[g].pc \in {"ready", "check", "publish", "zeros"}, job[g].pc # "publish" => LoopFree,
         frame' \in [gen: 0..LastGen, moving: BOOLEAN],
         frame' = frame \/ (job[g].pc = "publish" /\ (Zeroed \/ frame'.gen = g)),
         job[g].kind \in Halts => job[g].pc = "zeros",
         job[g].kind = "drive" => job[g].pc \in {"ready", "zeros"}
  PROVE  JobMoves(g)
<1>1. job' \in [Gens -> JobType] /\ Others(g) /\ Finished(g)
  BY StreamTypes, DoneShape
<1>2. \/ job[g].cancelled /\ job'[g] = NoJob
      \/ /\ job'[g].pc = "done" /\ job'[g].kind = job[g].kind
         /\ ~job'[g].cancelled /\ ~job[g].cancelled
  BY <1>1 DEF Finished
<1>3. job'[g].pc \notin {"check", "publish"}
  BY <1>2, NoJobType
<1>4. job[g].cancelled \in BOOLEAN /\ job'[g].cancelled \in BOOLEAN
  BY <1>1, StreamTypes DEF JobType
<1>5. \/ job[g].cancelled /\ job'[g] = NoJob
      \/ /\ job'[g].pc \in {"check", "publish", "zeros", "done"}
         /\ job'[g].kind = job[g].kind /\ job'[g].cancelled = job[g].cancelled
  BY <1>2, <1>4
<1>. QED BY <1>1, <1>3, <1>5 DEF JobMoves

\* A stream that ends is a step of its job.
LEMMA EndMoves ==
  ASSUME StreamTypeOK, NEW g \in Gens, NEW ok \in BOOLEAN, End(g, ok),
         UNCHANGED <<gen, idle, connected, caller, halted>>, faults' \in 0..MaxFaults,
         job[g].pc \in {"ready", "check", "publish"}, job[g].pc # "publish" => LoopFree,
         job[g].kind \in Streams
  PROVE  JobMoves(g)
<1>0. job[g].kind \notin Halts
  BY DEF Streams, Halts
<1>1. CASE job[g].kind = "drive"
  <2>1. /\ job' \in [Gens -> JobType] /\ Others(g) /\ frame' \in [gen: 0..LastGen, moving: BOOLEAN]
        /\ Zeroed /\ job'[g].pc = "zeros" /\ job'[g].kind = job[g].kind
        /\ job'[g].cancelled = job[g].cancelled
    BY <1>1, EndShape
  <2>2. connected => ~frame'.moving
    BY <2>1 DEF Zeroed
  <2>. QED BY <1>0, <2>1, <2>2 DEF JobMoves
<1>2. CASE job[g].kind # "drive"
  <2>1. job' = Done(g, ok) /\ frame' = frame
    BY <1>2 DEF End
  <2>. QED BY <1>0, <1>2, <2>1, StreamTypes, DoneMoves
<1>. QED BY <1>1, <1>2

\* Looking whether the stream is still wanted is a step of its job.
LEMMA CheckShape ==
  ASSUME StreamInv, NEW g \in Gens, Check(g)
  PROVE  JobMoves(g)
<1>0. StreamTypeOK /\ JobInv /\ job[g] \in JobType /\ faults \in 0..MaxFaults
  BY StreamTypes DEF StreamInv
<1>1. /\ UNCHANGED <<gen, idle, connected, caller, halted>> /\ LoopFree
      /\ job[g].kind \in Streams /\ job[g].pc \in {"ready", "check"} /\ ~job[g].cancelled
  BY DEF Check
<1>2. faults' \in 0..MaxFaults
  <2>1. faults' = faults \/ (faults < MaxFaults /\ faults' = faults + 1)
    BY DEF Check
  <2>. QED BY <1>0, <2>1, Sizes
<1>4. CASE End(g, TRUE)
  BY <1>0, <1>1, <1>2, <1>4, EndMoves
<1>5. CASE gen = g /\ connected /\ job' = [job EXCEPT ![g].pc = "publish"] /\ UNCHANGED frame
  <2>1. job[g].left > 0 /\ job[g].left \in 0..(MaxFrames + ZeroFrames)
    <3>1. job[g].left \in 0..(MaxFrames + ZeroFrames)
      BY <1>0 DEF JobType
    <3>2. job[g].left > 0
      BY <1>0, <1>1 DEF JobInv
    <3>. QED BY <3>1, <3>2
  <2>2. job' = [job EXCEPT ![g] = Step(job[g], "publish", job[g].left)]
    <3>1. [job[g] EXCEPT !.pc = "publish"] = Step(job[g], "publish", job[g].left)
      BY <1>0 DEF JobType, Step
    <3>. QED BY <1>5, <3>1
  <2>3. /\ job' \in [Gens -> JobType] /\ Others(g) /\ job'[g].pc = "publish"
        /\ job'[g].left > 0 /\ job'[g].kind = job[g].kind /\ job'[g].cancelled = job[g].cancelled
    BY <1>0, <2>1, <2>2, Stepped, StreamTypes
  <2>4. frame' = frame /\ frame \in [gen: 0..LastGen, moving: BOOLEAN]
    BY <1>0, <1>5, StreamTypes
  <2>5. job[g].kind \notin Halts
    BY <1>1 DEF Streams, Halts
  <2>. QED BY <1>1, <1>2, <1>5, <2>3, <2>4, <2>5 DEF JobMoves
<1>. QED BY <1>4, <1>5 DEF Check

\* So is publishing a frame ...
LEMMA PublishShape ==
  ASSUME StreamInv, NEW g \in Gens, Publish(g)
  PROVE  JobMoves(g)
<1>0. StreamTypeOK /\ JobInv /\ job[g] \in JobType /\ faults \in 0..MaxFaults
      /\ job[g].left \in 0..(MaxFrames + ZeroFrames) /\ job \in [Gens -> JobType]
  BY StreamTypes DEF StreamInv, JobType
<1>1. UNCHANGED <<gen, idle, connected, caller, halted>> /\ job[g].pc = "publish"
  BY DEF Publish
<1>2. faults' \in 0..MaxFaults
  <2>1. faults' = faults \/ (faults < MaxFaults /\ faults' = faults + 1)
    BY DEF Publish
  <2>. QED BY <1>0, <2>1, Sizes
<1>3. job[g].kind \in Streams /\ job[g].kind \notin Halts
  BY <1>0, <1>1 DEF JobInv, Streams, Halts
<1>4. CASE End(g, FALSE)
  BY <1>0, <1>1, <1>2, <1>3, <1>4, EndMoves
<1>5. ASSUME job[g].left > 1 \/ job[g].kind = "hold",
             PublishMotion(g) \/ (job[g].kind = "hold" /\ PublishZero),
             job' = IF job[g].left > 1 THEN [job EXCEPT ![g].pc = "check", ![g].left = @ - 1]
                    ELSE Done(g, TRUE)
      PROVE JobMoves(g)
  <2>1. frame' \in [gen: 0..LastGen, moving: BOOLEAN] /\ (Zeroed \/ frame'.gen = g)
    <3>1. CASE PublishMotion(g)
      <4>1. g \in 0..LastGen
        BY Sizes DEF Gens
      <4>. QED BY <3>1, <4>1 DEF PublishMotion
    <3>2. CASE PublishZero
      BY <1>0, <3>2, StreamTypes, ZeroShape
    <3>. QED BY <1>5, <3>1, <3>2
  <2>2. CASE job[g].left > 1
    <3>1. job' = [job EXCEPT ![g] = Step(job[g], "check", job[g].left - 1)]
      BY <1>0, <1>5, <2>2 DEF JobType, Step
    <3>2. job[g].left - 1 \in 0..(MaxFrames + ZeroFrames) /\ job[g].left - 1 > 0
      BY <1>0, <2>2, Sizes
    <3>3. /\ job' \in [Gens -> JobType] /\ Others(g) /\ job'[g].pc = "check" /\ job'[g].left > 0
          /\ job'[g].kind = job[g].kind /\ job'[g].cancelled = job[g].cancelled
      BY <1>0, <2>2, <3>1, <3>2, Stepped
    <3>. QED BY <1>1, <1>2, <1>3, <2>1, <3>3 DEF JobMoves
  <2>3. CASE ~(job[g].left > 1)
    <3>1. job' = Done(g, TRUE) /\ job[g].kind # "drive" /\ TRUE \in BOOLEAN
      BY <1>5, <2>3
    <3>. QED BY <1>0, <1>1, <1>2, <1>3, <2>1, <3>1, DoneMoves
  <2>. QED BY <2>2, <2>3
<1>6. ASSUME job[g].kind = "drive", frame' = [gen |-> g, moving |-> FALSE],
             job' = [job EXCEPT ![g].pc = "zeros", ![g].left = ZeroFrames - 1]
      PROVE JobMoves(g)
  <2>1. job' = [job EXCEPT ![g] = Step(job[g], "zeros", ZeroFrames - 1)]
    BY <1>0, <1>6 DEF JobType, Step
  <2>2. ZeroFrames - 1 \in 0..(MaxFrames + ZeroFrames)
    BY Sizes
  <2>3. frame' \in [gen: 0..LastGen, moving: BOOLEAN] /\ frame'.gen = g /\ ~frame'.moving
    BY <1>6, Sizes DEF Gens
  <2>4. /\ job' \in [Gens -> JobType] /\ Others(g) /\ job'[g].pc = "zeros"
        /\ job'[g].kind = job[g].kind /\ job'[g].cancelled = job[g].cancelled
    BY <1>0, <2>1, <2>2, Stepped
  <2>. QED BY <1>1, <1>2, <1>3, <2>3, <2>4 DEF JobMoves
<1>. QED BY <1>4, <1>5, <1>6 DEF Publish

\* ... being cancelled ...
LEMMA CancelledShape ==
  ASSUME StreamInv, NEW g \in Gens, Cancelled(g)
  PROVE  JobMoves(g)
<1>0. StreamTypeOK /\ JobInv /\ faults \in 0..MaxFaults
      /\ frame \in [gen: 0..LastGen, moving: BOOLEAN]
  BY StreamTypes DEF StreamInv
<1>1. /\ UNCHANGED <<gen, idle, connected, caller, halted, faults>> /\ LoopFree
      /\ job[g].cancelled /\ job[g].pc \in {"ready", "check", "zeros"}
  BY DEF Cancelled
<1>2. job[g].kind \in Streams /\ job[g].kind \notin Halts
  BY <1>0, <1>1 DEF JobInv, Streams, Halts
<1>3. CASE job[g].pc = "check"
  BY <1>0, <1>1, <1>2, <1>3, EndMoves DEF Cancelled
<1>4. CASE job[g].pc # "check"
  <2>1. job' = Done(g, FALSE) /\ frame' = frame /\ FALSE \in BOOLEAN
    BY <1>4 DEF Cancelled
  <2>. QED BY <1>0, <1>1, <1>2, <1>4, <2>1, DoneMoves
<1>. QED BY <1>3, <1>4

\* ... publishing zeros ...
LEMMA ZerosShape ==
  ASSUME StreamInv, NEW g \in Gens, Zeros(g)
  PROVE  JobMoves(g)
<1>0. StreamTypeOK /\ job[g] \in JobType /\ job \in [Gens -> JobType]
      /\ job[g].left \in 0..(MaxFrames + ZeroFrames) /\ job[g].ok \in BOOLEAN
      /\ faults \in 0..MaxFaults /\ frame \in [gen: 0..LastGen, moving: BOOLEAN] /\ connected \in BOOLEAN
  BY StreamTypes DEF StreamInv, JobType
<1>1. /\ UNCHANGED <<gen, idle, connected, caller, halted, faults>> /\ LoopFree
      /\ job[g].pc = "zeros" \/ (job[g].pc = "ready" /\ job[g].kind \in Halts)
  BY DEF Zeros
<1>2. job[g].pc = "ready" => job[g].left > 0
  BY DEF StreamInv, JobInv
<1>3. CASE job[g].left > 0
  <2>1. job' = [job EXCEPT ![g] = Step(job[g], "zeros", job[g].left - 1)] /\ PublishZero
    BY <1>0, <1>3 DEF Zeros, JobType, Step
  <2>2. job[g].left - 1 \in 0..(MaxFrames + ZeroFrames)
    BY <1>0, <1>3, Sizes
  <2>3. /\ job' \in [Gens -> JobType] /\ Others(g) /\ job'[g].pc = "zeros"
        /\ job'[g].kind = job[g].kind /\ job'[g].cancelled = job[g].cancelled
    BY <1>0, <2>1, <2>2, Stepped
  <2>4. frame' \in [gen: 0..LastGen, moving: BOOLEAN] /\ Zeroed
    BY <1>0, <2>1, ZeroShape
  <2>. QED BY <1>0, <1>1, <2>3, <2>4 DEF JobMoves
<1>4. CASE ~(job[g].left > 0)
  <2>1. job' = Done(g, job[g].ok) /\ frame' = frame /\ job[g].pc = "zeros"
    BY <1>1, <1>2, <1>4 DEF Zeros
  <2>. QED BY <1>0, <1>1, <2>1, DoneMoves
<1>. QED BY <1>3, <1>4

\* ... and whatever else a job does.
LEMMA JobShape ==
  ASSUME StreamInv, NEW g \in Gens, JobStep(g)
  PROVE  JobMoves(g)
BY CheckShape, PublishShape, CancelledShape, ZerosShape DEF JobStep

\* A job's step keeps who owns it.
LEMMA JobKeepsOwner ==
  ASSUME StreamInv, NEW g \in Gens, JobMoves(g)
  PROVE  OwnerInv'
<1>1. /\ gen' = gen /\ caller' = caller /\ job[g].pc \in {"ready", "check", "publish", "zeros"}
      /\ \A h \in Gens \ {g} : job'[h] = job[h]
      /\ \/ job[g].cancelled /\ job'[g] = NoJob
         \/ /\ job'[g].pc \in {"check", "publish", "zeros", "done"}
            /\ job'[g].kind = job[g].kind /\ job'[g].cancelled = job[g].cancelled
  BY DEF JobMoves, Others
<1>2. \A c \in Callers : Pending(c) => caller[c].gen \in Gens
  <2>1. gen \in 0..LastGen
    BY StreamTypes DEF StreamInv
  <2>. QED BY <2>1, Sizes DEF StreamInv, OwnerInv, Gens
<1>3. job[g].pc # "none" /\ job[g] # NoJob
  BY <1>1, NoJobType
<1>4. \A c \in Callers : caller[c].pc \in {"waiting", "woken"} => job'[caller[c].gen] = NoJob
  <2>. SUFFICES ASSUME NEW c \in Callers, caller[c].pc \in {"waiting", "woken"}
                PROVE  job'[caller[c].gen] = NoJob
    OBVIOUS
  <2>1. job[caller[c].gen] = NoJob /\ caller[c].gen \in Gens
    BY <1>2 DEF StreamInv, OwnerInv, Pending
  <2>. QED BY <1>1, <1>3, <2>1
<1>5. \A c \in Callers : caller[c].pc = "running" =>
        job'[caller[c].gen].kind = caller[c].kind /\ ~job'[caller[c].gen].cancelled
  <2>. SUFFICES ASSUME NEW c \in Callers, caller[c].pc = "running"
                PROVE  job'[caller[c].gen].kind = caller[c].kind /\ ~job'[caller[c].gen].cancelled
    OBVIOUS
  <2>1. /\ job[caller[c].gen].kind = caller[c].kind /\ ~job[caller[c].gen].cancelled
        /\ caller[c].gen \in Gens
    BY <1>2 DEF StreamInv, OwnerInv, Pending
  <2>. QED BY <1>1, <2>1
<1>6. \A h \in Gens : job'[h].pc # "none" =>
        /\ h <= gen
        /\ job'[h].cancelled \/ \E c \in Callers : caller[c].pc = "running" /\ caller[c].gen = h
  <2>. SUFFICES ASSUME NEW h \in Gens, job'[h].pc # "none"
                PROVE  /\ h <= gen
                       /\ job'[h].cancelled \/ \E c \in Callers : caller[c].pc = "running" /\ caller[c].gen = h
    OBVIOUS
  <2>1. job[h].pc # "none" /\ job'[h].cancelled = job[h].cancelled
    BY <1>1, <1>3, NoJobType
  <2>. QED BY <2>1 DEF StreamInv, OwnerInv
<1>7. \A c \in Callers : Pending(c)' <=> Pending(c)
  BY <1>1 DEF Pending
<1>. QED BY <1>1, <1>4, <1>5, <1>6, <1>7 DEF StreamInv, OwnerInv

\* A step of one job leaves every job as the invariant has it.
LEMMA JobKeepsJob ==
  ASSUME StreamInv, NEW g \in Gens, JobMoves(g)
  PROVE  JobInv'
<1>1. ASSUME NEW h \in Gens \ {g}
      PROVE  job'[h] = job[h]
  BY DEF JobMoves, Others
<1>2. CASE job[g].cancelled /\ job'[g] = NoJob
  BY <1>1, <1>2, NoJobType DEF StreamInv, JobInv
<1>3. CASE /\ job'[g].pc \in {"check", "publish", "zeros", "done"}
           /\ job'[g].kind = job[g].kind /\ job'[g].cancelled = job[g].cancelled
  <2>1. job[g].kind \in Kinds /\ (job[g].cancelled => job[g].kind \in Streams)
    BY DEF StreamInv, JobInv, JobMoves
  <2>2. job'[g].pc \in {"check", "publish"} => job[g].kind \in Streams /\ job'[g].left > 0
    BY DEF JobMoves
  <2>. QED BY <1>1, <1>3, <2>1, <2>2 DEF StreamInv, JobInv
<1>. QED BY <1>2, <1>3 DEF JobMoves

\* Only the newest generation gets to publish, and only one job at a time.
LEMMA JobKeepsLoop ==
  ASSUME StreamInv, NEW g \in Gens, JobMoves(g)
  PROVE  LoopInv'
<1>1. /\ gen' = gen /\ \A h \in Gens \ {g} : job'[h] = job[h]
      /\ job'[g].pc = "publish" => LoopFree /\ gen = g /\ frame' = frame
      /\ frame'.gen = frame.gen \/ (job[g].pc = "publish" /\ frame'.gen = g)
  BY DEF JobMoves, Others, Zeroed
<1>2. frame.gen \in Nat /\ gen \in Nat /\ Gens \subseteq Nat
  BY StreamTypes, Sizes DEF StreamInv, Gens
<1>3. \A h \in Gens : job[h].pc # "none" => h <= gen
  BY DEF StreamInv, OwnerInv
<1>4. ASSUME NEW h \in Gens, NEW k \in Gens, job'[h].pc = "publish", job'[k].pc = "publish"
      PROVE  h = k
  BY <1>1, <1>4 DEF StreamInv, LoopInv, LoopFree
<1>5. ASSUME NEW h \in Gens, job'[h].pc = "publish"
      PROVE  frame'.gen <= h
  <2>1. CASE h = g
    BY <1>1, <1>2, <1>5, <2>1 DEF StreamInv, LoopInv
  <2>2. CASE h # g
    <3>1. job[h].pc = "publish" /\ job[g].pc # "publish"
      BY <1>1, <1>5, <2>2 DEF StreamInv, LoopInv
    <3>. QED BY <1>1, <3>1 DEF StreamInv, LoopInv
  <2>. QED BY <2>1, <2>2
<1>6. frame'.gen <= gen'
  BY <1>1, <1>3 DEF StreamInv, LoopInv
<1>. QED BY <1>4, <1>5, <1>6 DEF LoopInv

\* A halt's first zero frame comes when no stream is about to publish, and a stream
\* that publishes after it has checked for a newer generation.
LEMMA JobKeepsHalt ==
  ASSUME StreamInv, NEW g \in Gens, JobMoves(g)
  PROVE  HaltInv'
<1>1. /\ gen' = gen /\ halted' = halted /\ caller' = caller /\ connected' = connected
      /\ \A h \in Gens \ {g} : job'[h] = job[h]
      /\ job[g].pc # "none"
      /\ job'[g].pc = "publish" => gen = g /\ ~job[g].cancelled /\ frame' = frame /\ job[g].kind \in Streams
      /\ job'[g].kind \in Halts => job'[g].kind = job[g].kind
      /\ job[g].kind \in Halts /\ job[g].pc # "zeros" => Zeroed /\ LoopFree
      /\ job[g].pc = "zeros" => LoopFree
      /\ frame' = frame \/ Zeroed \/ (job[g].pc = "publish" /\ frame'.gen = g)
  <2>1. NoJob.kind \notin Halts
    BY DEF NoJob, Halts
  <2>2. job[g].kind \in Halts => job[g].pc # "publish"
    BY DEF StreamInv, JobInv, Streams, Halts
  <2>. QED BY <2>1, <2>2 DEF JobMoves, Others
<1>2. frame.gen \in Nat /\ gen \in Nat /\ halted \in Nat /\ Gens \subseteq Nat
  BY StreamTypes, Sizes DEF StreamInv, Gens
<1>3. frame'.moving => (frame.moving /\ frame'.gen = frame.gen) \/ (job[g].pc = "publish" /\ frame'.gen = g)
  BY <1>1 DEF Zeroed
<1>4. job'[g].pc = "publish" => g > halted
  <2>. SUFFICES ASSUME job'[g].pc = "publish" PROVE g > halted
    OBVIOUS
  <2>1. PICK c \in Callers : caller[c].pc = "running" /\ caller[c].gen = g
    BY <1>1 DEF StreamInv, OwnerInv
  <2>2. g # halted
    BY <2>1 DEF StreamInv, HaltInv, Pending
  <2>. QED BY <1>1, <1>2, <2>2 DEF StreamInv, HaltInv
<1>5. \A h \in Gens : job'[h].pc = "publish" => h > halted
  BY <1>1, <1>4 DEF StreamInv, HaltInv
<1>6. HaltIsFinal'
  BY <1>1, <1>3 DEF StreamInv, HaltInv, HaltIsFinal
<1>7. ASSUME connected, NEW k \in Gens, job'[k].kind \in Halts, job'[k].pc \in {"zeros", "done"}
      PROVE  /\ frame'.moving => frame'.gen > k
             /\ \A h \in Gens : job'[h].pc = "publish" => h > k
  <2>1. CASE k = g /\ job[g].pc # "zeros"
    <3>1. job[g].kind \in Halts /\ Zeroed /\ LoopFree
      BY <1>1, <1>7, <2>1
    <3>2. ~frame'.moving
      BY <1>7, <3>1 DEF Zeroed
    <3>3. \A h \in Gens : job'[h].pc # "publish"
      BY <1>1, <1>7, <2>1, <3>1 DEF LoopFree
    <3>. QED BY <3>2, <3>3
  <2>2. CASE k = g /\ job[g].pc = "zeros"
    <3>1. job[k].kind \in Halts /\ job[k].pc = "zeros" /\ LoopFree
      BY <1>1, <1>7, <2>2
    <3>2. frame.moving => frame.gen > k
      BY <1>7, <3>1 DEF StreamInv, HaltInv
    <3>3. \A h \in Gens : job'[h].pc # "publish"
      BY <1>1, <1>7, <2>2, <3>1 DEF LoopFree
    <3>. QED BY <1>3, <2>2, <3>2, <3>3
  <2>3. CASE k # g
    <3>1. job[k].kind \in Halts /\ job[k].pc \in {"zeros", "done"} /\ job[k].pc # "none"
      BY <1>1, <1>7, <2>3
    <3>2. /\ frame.moving => frame.gen > k
          /\ \A h \in Gens : job[h].pc = "publish" => h > k
      BY <1>7, <3>1 DEF StreamInv, HaltInv
    <3>3. k <= gen
      BY <3>1 DEF StreamInv, OwnerInv
    <3>4. job'[g].pc = "publish" => g > k
      BY <1>1, <1>2, <2>3, <3>3
    <3>. QED BY <1>1, <1>3, <3>2, <3>4
  <2>. QED BY <2>1, <2>2, <2>3
<1>8. \A c \in Callers : Pending(c)' => caller'[c].gen # halted'
  BY <1>1 DEF StreamInv, HaltInv, Pending
<1>9. halted' <= gen'
  BY <1>1 DEF StreamInv, HaltInv
<1>. QED BY <1>1, <1>5, <1>6, <1>7, <1>8, <1>9 DEF HaltInv

\* Whatever moved the robot last is brought to rest by a drive's own zero frames, by
\* the release a hold owes or by a halt, and a job's step leaves one of them to come.
LEMMA JobKeepsRest ==
  ASSUME StreamInv, NEW g \in Gens, JobMoves(g)
  PROVE  RestInv'
<1>. SUFFICES ASSUME connected, frame'.moving \/ ~LoopFree'
              PROVE  WillDrive' \/ \E c \in Callers : WillHalt(c)'
  BY DEF RestInv, JobMoves
<1>1. /\ caller' = caller /\ gen' = gen
      /\ \A h \in Gens \ {g} : job'[h] = job[h]
      /\ job[g].pc \in {"ready", "check", "publish", "zeros"} /\ job[g].kind \in Kinds
      /\ job[g].pc # "publish" => LoopFree
      /\ job'[g].pc # "none" => job'[g].kind = job[g].kind
      /\ frame' = frame \/ Zeroed \/ job[g].pc = "publish"
  BY DEF JobMoves, Others, NoJob, StreamInv, JobInv
<1>2. frame'.moving => frame.moving \/ job[g].pc = "publish"
  BY <1>1 DEF Zeroed
<1>3. \A c \in Callers : caller[c].pc = "running" =>
        job[caller[c].gen].kind = caller[c].kind /\ caller[c].gen \in Gens
  <2>1. gen \in 0..LastGen
    BY StreamTypes DEF StreamInv
  <2>. QED BY <2>1, Sizes DEF StreamInv, OwnerInv, Pending, Gens
<1>4. CASE job[g].kind \in Halts
  <2>1. job[g].pc # "publish" /\ job'[g].pc # "publish" /\ job[g].kind # "drive" /\ job'[g].kind # "drive"
    <3>1. job[g].kind \notin Streams
      BY <1>4 DEF Streams, Halts
    <3>2. job[g].pc # "publish" /\ job'[g].pc # "publish"
      BY <3>1 DEF StreamInv, JobInv, JobMoves
    <3>3. job'[g].kind # "drive"
      BY <1>1, <3>1, NoJobType DEF JobMoves, Streams
    <3>. QED BY <3>1, <3>2, <3>3 DEF Streams
  <2>2. LoopFree /\ LoopFree'
    BY <1>1, <2>1 DEF LoopFree
  <2>3. job[g].pc = "zeros"
    BY <1>4, <2>2 DEF JobMoves, Zeroed
  <2>4. WillDrive \/ \E c \in Callers : WillHalt(c)
    BY <1>2, <2>1, <2>2 DEF StreamInv, RestInv
  <2>5. WillDrive => WillDrive'
    BY <1>1, <2>1 DEF WillDrive
  <2>6. \A c \in Callers : WillHalt(c) => WillHalt(c)'
    BY <1>1, <1>3, <2>3 DEF WillHalt
  <2>. QED BY <2>4, <2>5, <2>6
<1>5. CASE job[g].kind = "drive"
  <2>1. CASE job'[g].pc \in {"check", "publish"}
    BY <1>1, <1>5, <2>1 DEF WillDrive
  <2>2. CASE job[g].pc \in {"check", "publish"} /\ job'[g].pc \notin {"check", "publish"}
    <3>1. ~frame'.moving
      BY <1>5, <2>2 DEF JobMoves
    <3>2. LoopFree'
      <4>1. \A h \in Gens \ {g} : job[h].pc # "publish"
        BY <1>1 DEF StreamInv, LoopInv, LoopFree
      <4>. QED BY <1>1, <2>2, <4>1 DEF LoopFree
    <3>. QED BY <3>1, <3>2
  <2>3. CASE job[g].pc \notin {"check", "publish"} /\ job'[g].pc \notin {"check", "publish"}
    <3>1. LoopFree /\ LoopFree'
      BY <1>1, <2>3 DEF LoopFree
    <3>2. WillDrive \/ \E c \in Callers : WillHalt(c)
      BY <1>2, <2>3, <3>1 DEF StreamInv, RestInv
    <3>3. WillDrive => WillDrive'
      BY <1>1, <2>3 DEF WillDrive
    <3>4. \A c \in Callers : WillHalt(c) => WillHalt(c)'
      BY <1>1, <1>3, <1>5 DEF WillHalt, Halts
    <3>. QED BY <3>2, <3>3, <3>4
  <2>. QED BY <2>1, <2>2, <2>3
<1>6. CASE job[g].kind = "hold"
  <2>1. CASE job'[g].pc = "publish"
    <3>1. PICK c \in Callers : caller[c].pc = "running" /\ caller[c].gen = g
      BY <1>1, <2>1 DEF StreamInv, OwnerInv, JobMoves
    <3>2. caller[c].kind = "hold"
      BY <1>3, <1>6, <3>1
    <3>. QED BY <1>1, <3>2 DEF WillHalt
  <2>2. CASE job'[g].pc # "publish"
    <3>1. frame.moving \/ ~LoopFree
      BY <1>1, <1>2, <2>2 DEF LoopFree
    <3>2. WillDrive \/ \E c \in Callers : WillHalt(c)
      BY <3>1 DEF StreamInv, RestInv
    <3>3. WillDrive => WillDrive'
      BY <1>1, <1>6 DEF WillDrive
    <3>4. \A c \in Callers : WillHalt(c) => WillHalt(c)'
      BY <1>1, <1>3, <1>6 DEF WillHalt, Halts
    <3>. QED BY <3>2, <3>3, <3>4
  <2>. QED BY <2>1, <2>2
<1>. QED BY <1>1, <1>4, <1>5, <1>6 DEF Kinds, Streams

\* A step of a job keeps the invariant.
LEMMA JobKeeps ==
  ASSUME StreamInv, NEW g \in Gens, JobStep(g)
  PROVE  StreamInv'
<1>1. JobMoves(g)
  BY JobShape
<1>2. StreamTypeOK'
  <2>1. /\ job' \in [Gens -> JobType] /\ frame' \in [gen: 0..LastGen, moving: BOOLEAN]
        /\ faults' \in 0..MaxFaults /\ UNCHANGED <<gen, idle, connected, caller, halted>>
    BY <1>1 DEF JobMoves
  <2>. QED BY <2>1 DEF StreamInv, StreamTypeOK, JobType
<1>3. EventWillBeSet'
  BY <1>1 DEF JobMoves, StreamInv, EventWillBeSet
<1>. QED BY <1>1, <1>2, <1>3, JobKeepsOwner, JobKeepsJob, JobKeepsLoop, JobKeepsHalt,
   JobKeepsRest DEF StreamInv
-----------------------------------------------------------------------------
(* The callers.                                                            *)

\* A caller whose request goes on as it was; one that waited may have been woken.
SameRequest(d) ==
  /\ caller'[d].kind = caller[d].kind /\ caller'[d].gen = caller[d].gen
  /\ caller'[d].pc = caller[d].pc \/ (caller[d].pc = "waiting" /\ caller'[d].pc = "woken")

\* A caller's request ends, well or not: what every way out of it has in common.
Leaves(c) ==
  /\ StreamTypeOK' /\ gen' \in {gen, gen + 1} /\ frame' = frame /\ (connected' => connected)
  /\ \A d \in Callers \ {c} : SameRequest(d)
  /\ caller'[c].pc \in {"none", "after"}
  /\ \A h \in Gens :
       \/ job'[h] = job[h]
       \/ /\ caller[c].pc = "running" /\ h = caller[c].gen
          /\ \/ job[h].pc = "done" /\ job'[h] = NoJob
             \/ /\ job'[h].pc = job[h].pc /\ job'[h].kind = job[h].kind /\ job'[h].left = job[h].left
                /\ job'[h].cancelled /\ job[h].kind \in Streams
  /\ caller[c].pc = "running" =>
       job'[caller[c].gen].pc = "none" \/ job'[caller[c].gen].cancelled
  /\ \/ halted' = halted
     \/ /\ caller[c].pc = "running" /\ caller[c].kind \in Halts /\ job[caller[c].gen].pc = "done"
        /\ connected /\ halted' = caller[c].gen
  /\ idle' \/ (idle' = idle /\ ~(caller[c].pc = "running" /\ caller[c].kind \in Streams))
  /\ connected' /\ WillHalt(c) => WillHalt(c)'

\* The generations of the callers are generations of jobs.
LEMMA PendingGens ==
  ASSUME StreamInv, NEW c \in Callers, Pending(c)
  PROVE  caller[c].gen \in Gens /\ caller[c].kind \in Kinds /\ caller[c].gen <= gen
<1>1. gen \in 0..LastGen
  BY StreamTypes DEF StreamInv
<1>. QED BY <1>1, Sizes DEF StreamInv, OwnerInv, Gens

\* A caller that leaves takes no generation from another.
LEMMA LeaveKeepsOwner ==
  ASSUME StreamInv, NEW c \in Callers, Leaves(c)
  PROVE  OwnerInv'
<1>0. gen \in Nat /\ gen' \in Nat /\ gen <= gen'
  BY StreamTypes, Sizes DEF StreamInv, Leaves
<1>1. \A d \in Callers : Pending(d)' => d # c /\ Pending(d) /\ SameRequest(d)
  BY DEF Leaves, Pending, SameRequest
<1>2. \A d \in Callers : Pending(d)' => caller'[d].gen \in 1..gen' /\ caller'[d].kind \in Kinds
  BY <1>0, <1>1 DEF StreamInv, OwnerInv, SameRequest
<1>3. \A d, e \in Callers : Pending(d)' /\ Pending(e)' /\ caller'[d].gen = caller'[e].gen => d = e
  BY <1>1 DEF StreamInv, OwnerInv, SameRequest
<1>4. ASSUME NEW d \in Callers, Pending(d)'
      PROVE  job'[caller[d].gen] = job[caller[d].gen]
  <2>1. d # c /\ Pending(d) /\ caller[d].gen \in Gens
    BY <1>1, <1>4, PendingGens
  <2>2. caller[c].pc = "running" => caller[d].gen # caller[c].gen
    BY <2>1 DEF StreamInv, OwnerInv, Pending
  <2>. QED BY <2>1, <2>2 DEF Leaves
<1>5. ASSUME NEW d \in Callers, caller'[d].pc \in {"waiting", "woken"}
      PROVE  job'[caller'[d].gen] = NoJob
  <2>1. Pending(d)'
    BY <1>5 DEF Pending
  <2>2. caller[d].pc \in {"waiting", "woken"} /\ caller'[d].gen = caller[d].gen
    BY <1>1, <1>5, <2>1 DEF SameRequest
  <2>. QED BY <1>4, <2>1, <2>2 DEF StreamInv, OwnerInv
<1>6. ASSUME NEW d \in Callers, caller'[d].pc = "running"
      PROVE  job'[caller'[d].gen].kind = caller'[d].kind /\ ~job'[caller'[d].gen].cancelled
  <2>1. Pending(d)'
    BY <1>6 DEF Pending
  <2>2. caller[d].pc = "running" /\ caller'[d].gen = caller[d].gen /\ caller'[d].kind = caller[d].kind
    BY <1>1, <1>6, <2>1 DEF SameRequest
  <2>. QED BY <1>4, <2>1, <2>2 DEF StreamInv, OwnerInv
<1>7. ASSUME NEW g \in Gens, job'[g].pc # "none"
      PROVE  /\ g <= gen'
             /\ job'[g].cancelled \/ \E d \in Callers : caller'[d].pc = "running" /\ caller'[d].gen = g
  <2>1. job[g].pc # "none" /\ (job[g].cancelled => job'[g].cancelled)
    BY <1>7, NoJobType DEF Leaves
  <2>2. g \in Nat /\ g <= gen
    BY <2>1, Sizes DEF StreamInv, OwnerInv, Gens
  <2>3. CASE \E d \in Callers : caller[d].pc = "running" /\ caller[d].gen = g
    <3>1. PICK d \in Callers : caller[d].pc = "running" /\ caller[d].gen = g
      BY <2>3
    <3>2. CASE d = c
      BY <1>7, <3>1, <3>2, <1>0, <2>2 DEF Leaves
    <3>3. CASE d # c
      BY <3>1, <3>3, <1>0, <2>2 DEF Leaves, SameRequest
    <3>. QED BY <3>2, <3>3
  <2>. QED BY <1>0, <2>1, <2>2, <2>3 DEF StreamInv, OwnerInv
<1>. QED BY <1>2, <1>3, <1>5, <1>6, <1>7 DEF OwnerInv

\* A caller that leaves may cancel its job, and no other.
LEMMA LeaveKeepsJobs ==
  ASSUME StreamInv, NEW c \in Callers, Leaves(c)
  PROVE  JobInv' /\ LoopInv'
<1>1. \A h \in Gens : job'[h] = job[h] \/ job'[h] = NoJob \/
        /\ job'[h].pc = job[h].pc /\ job'[h].kind = job[h].kind /\ job'[h].left = job[h].left
        /\ job'[h].cancelled /\ job[h].kind \in Streams
  BY DEF Leaves
<1>2. JobInv'
  <2>. SUFFICES ASSUME NEW h \in Gens
                PROVE  /\ job'[h].pc = "none" => job'[h] = NoJob
                       /\ job'[h].pc # "none" => job'[h].kind \in Kinds
                       /\ job'[h].pc \in {"check", "publish"} \/ job'[h].cancelled => job'[h].kind \in Streams
                       /\ job'[h].pc \in {"ready", "check", "publish"} => job'[h].left > 0
    BY DEF JobInv
  <2>1. CASE job'[h] = job[h]
    BY <2>1 DEF StreamInv, JobInv
  <2>2. CASE job'[h] = NoJob
    BY <2>2, NoJobType
  <2>3. CASE /\ job'[h].pc = job[h].pc /\ job'[h].kind = job[h].kind /\ job'[h].left = job[h].left
             /\ job'[h].cancelled /\ job[h].kind \in Streams
    <3>1. job[h].pc # "none"
      BY <2>3, NoJobType DEF StreamInv, JobInv, Streams
    <3>. QED BY <2>3, <3>1 DEF StreamInv, JobInv
  <2>. QED BY <1>1, <2>1, <2>2, <2>3
<1>3. \A h \in Gens : job'[h].pc = "publish" => job[h].pc = "publish"
  BY <1>1, NoJobType
<1>4. gen \in Nat /\ gen' \in Nat /\ gen <= gen' /\ frame' = frame /\ frame.gen \in Nat
  BY StreamTypes, Sizes DEF StreamInv, Leaves
<1>5. LoopInv'
  BY <1>3, <1>4 DEF StreamInv, LoopInv
<1>. QED BY <1>2, <1>5

\* A caller that leaves does not take the last word from a halt.
LEMMA LeaveKeepsHalt ==
  ASSUME StreamInv, NEW c \in Callers, Leaves(c)
  PROVE  HaltInv'
<1>0. /\ gen \in Nat /\ gen' \in Nat /\ gen <= gen' /\ halted \in Nat /\ frame' = frame /\ frame.gen \in Nat
      /\ connected' => connected
  BY StreamTypes, Sizes DEF StreamInv, Leaves
<1>1. \A h \in Gens : job'[h].pc = "publish" => job[h].pc = "publish"
  BY NoJobType DEF Leaves
<1>2. \A g \in Gens : job'[g].kind \in Halts /\ job'[g].pc \in {"zeros", "done"} =>
        job[g].kind \in Halts /\ job[g].pc \in {"zeros", "done"}
  BY NoJobType DEF Leaves
<1>3. \A d \in Callers : Pending(d)' => d # c /\ Pending(d) /\ caller'[d].gen = caller[d].gen
  BY DEF Leaves, Pending, SameRequest
<1>4. \A g \in Gens : connected' /\ job'[g].kind \in Halts /\ job'[g].pc \in {"zeros", "done"} =>
        /\ frame'.moving => frame'.gen > g
        /\ \A h \in Gens : job'[h].pc = "publish" => h > g
  BY <1>0, <1>1, <1>2 DEF StreamInv, HaltInv
<1>5. CASE halted' = halted
  BY <1>0, <1>1, <1>3, <1>4, <1>5 DEF StreamInv, HaltInv, HaltIsFinal
<1>6. CASE /\ caller[c].pc = "running" /\ caller[c].kind \in Halts /\ job[caller[c].gen].pc = "done"
           /\ connected /\ halted' = caller[c].gen
  <2>1. Pending(c) /\ caller[c].gen \in Gens /\ caller[c].gen \in Nat /\ caller[c].gen <= gen
    BY <1>6, PendingGens, Sizes DEF Pending, Gens
  <2>2. job[caller[c].gen].kind \in Halts
    BY <1>6 DEF StreamInv, OwnerInv
  <2>3. /\ frame.moving => frame.gen > halted'
        /\ \A h \in Gens : job[h].pc = "publish" => h > halted'
    BY <1>6, <2>1, <2>2 DEF StreamInv, HaltInv
  <2>4. \A d \in Callers : Pending(d)' => caller'[d].gen # halted'
    BY <1>3, <1>6, <2>1 DEF StreamInv, OwnerInv
  <2>5. halted' <= gen'
    BY <1>0, <1>6, <2>1
  <2>. QED BY <1>0, <1>1, <1>4, <2>3, <2>4, <2>5 DEF HaltInv, HaltIsFinal
<1>. QED BY <1>5, <1>6 DEF Leaves

\* A caller that leaves does not set the robot in motion.
LEMMA LeaveKeepsRest ==
  ASSUME StreamInv, NEW c \in Callers, Leaves(c)
  PROVE  RestInv' /\ EventWillBeSet'
<1>1. RestInv'
  <2>. SUFFICES ASSUME connected', frame'.moving \/ ~LoopFree'
                PROVE  WillDrive' \/ \E d \in Callers : WillHalt(d)'
    BY DEF RestInv
  <2>1. connected /\ (frame.moving \/ ~LoopFree)
    BY NoJobType DEF Leaves, LoopFree
  <2>2. WillDrive => WillDrive'
    BY DEF WillDrive, Leaves
  <2>3. ASSUME NEW d \in Callers, WillHalt(d) PROVE WillHalt(d)'
    <3>1. CASE d = c
      BY <2>3, <3>1 DEF Leaves
    <3>2. CASE d # c
      <4>1. SameRequest(d)
        BY <3>2 DEF Leaves
      <4>2. CASE caller[d].pc = "running"
        <5>1. Pending(d) /\ caller[d].gen \in Gens
          BY <4>2, PendingGens DEF Pending
        <5>2. caller[c].pc = "running" => caller[d].gen # caller[c].gen
          BY <3>2, <5>1 DEF StreamInv, OwnerInv, Pending
        <5>3. job'[caller[d].gen] = job[caller[d].gen]
          BY <5>1, <5>2 DEF Leaves
        <5>. QED BY <2>3, <4>1, <4>2, <5>3 DEF WillHalt, SameRequest
      <4>3. CASE caller[d].pc # "running"
        BY <2>3, <4>1, <4>3 DEF WillHalt, SameRequest
      <4>. QED BY <4>2, <4>3
    <3>. QED BY <3>1, <3>2
  <2>. QED BY <2>1, <2>2, <2>3 DEF StreamInv, RestInv
<1>2. EventWillBeSet'
  BY DEF Leaves, StreamInv, EventWillBeSet, SameRequest
<1>. QED BY <1>1, <1>2

\* A caller that leaves keeps the invariant.
LEMMA LeaveKeeps ==
  ASSUME StreamInv, NEW c \in Callers, Leaves(c)
  PROVE  StreamInv'
<1>1. StreamTypeOK'
  BY DEF Leaves
<1>. QED BY <1>1, LeaveKeepsOwner, LeaveKeepsJobs, LeaveKeepsHalt, LeaveKeepsRest DEF
   StreamInv

\* A generation without a job that nobody but the caller has, for Submit.
Takes(c, kind, g) ==
  /\ kind \in Kinds /\ g \in Gens /\ gen' \in {gen, gen + 1} /\ g <= gen' /\ gen' \in 0..LastGen
  /\ job[g] = NoJob /\ g # halted /\ caller[c].pc # "running"
  /\ \A d \in Callers \ {c} : Pending(d) => caller[d].gen # g
  /\ connected /\ WillHalt(c) => kind = "hold" \/ kind \in Halts
  /\ UNCHANGED <<connected, frame, halted, faults>>

\* A new job is ready and has frames to send.
LEMMA NewJobType ==
  ASSUME NEW kind \in Kinds
  PROVE  /\ NewJob(kind) \in JobType /\ NewJob(kind).pc = "ready" /\ NewJob(kind).kind = kind
         /\ ~NewJob(kind).cancelled /\ NewJob(kind).left > 0
<1>1. /\ MaxFrames \in 0..(MaxFrames + ZeroFrames) /\ ZeroFrames \in 0..(MaxFrames + ZeroFrames)
      /\ MaxFrames > 0 /\ ZeroFrames > 0
  BY Sizes
<1>. QED BY <1>1 DEF NewJob, JobType

\* What Submit does, field by field.
LEMMA SubmitShape ==
  ASSUME StreamInv, NEW c \in Callers, NEW kind, NEW g, Takes(c, kind, g), Submit(c, kind, g)
  PROVE  /\ caller'[c].kind = kind /\ caller'[c].gen = g /\ caller'[c].pc = "running"
         /\ \A d \in Callers \ {c} : caller'[d] = caller[d]
         /\ job'[g].pc = "ready" /\ job'[g].kind = kind /\ ~job'[g].cancelled /\ job'[g].left > 0
         /\ \A h \in Gens \ {g} : job'[h] = job[h]
         /\ StreamTypeOK'
<1>0. kind \in Kinds /\ g \in Gens
  BY DEF Takes
<1>1. /\ caller' = [caller EXCEPT ![c] = [kind |-> kind, gen |-> g, pc |-> "running"]]
      /\ job' = [job EXCEPT ![g] = NewJob(kind)]
      /\ idle' = (idle /\ kind \notin Streams)
  BY DEF Submit
<1>2. caller \in [Callers -> CallerType] /\ job \in [Gens -> JobType]
  BY StreamTypes DEF StreamInv
<1>3. [kind |-> kind, gen |-> g, pc |-> "running"] \in CallerType
  BY <1>0, Sizes DEF CallerType, Gens
<1>4. caller' \in [Callers -> CallerType] /\ job' \in [Gens -> JobType] /\ idle' \in BOOLEAN
  BY <1>0, <1>1, <1>2, <1>3, NewJobType
<1>5. StreamTypeOK'
  <2>1. gen' \in 0..LastGen /\ UNCHANGED <<connected, frame, halted, faults>>
    BY DEF Takes
  <2>. QED BY <1>4, <2>1 DEF StreamInv, StreamTypeOK, CallerType, JobType
<1>. QED BY <1>0, <1>1, <1>2, <1>5, NewJobType

\* A caller that submits a job is the only one to await it.
LEMMA SubmitKeepsOwner ==
  ASSUME StreamInv, NEW c \in Callers, NEW kind, NEW g, Takes(c, kind, g), Submit(c, kind, g)
  PROVE  OwnerInv'
<1>0. /\ gen \in Nat /\ gen' \in Nat /\ gen <= gen' /\ g \in 1..gen' /\ kind \in Kinds /\ g \in Gens
      /\ job[g] = NoJob
  BY StreamTypes, Sizes DEF StreamInv, Takes, Gens
<1>1. /\ caller'[c].kind = kind /\ caller'[c].gen = g /\ caller'[c].pc = "running"
      /\ \A d \in Callers \ {c} : caller'[d] = caller[d]
      /\ job'[g].pc = "ready" /\ job'[g].kind = kind /\ ~job'[g].cancelled
      /\ \A h \in Gens \ {g} : job'[h] = job[h]
  BY SubmitShape
<1>2. \A d \in Callers \ {c} : Pending(d)' <=> Pending(d)
  BY <1>1 DEF Pending
<1>3. \A d \in Callers \ {c} : Pending(d) => caller[d].gen # g /\ caller[d].gen \in Gens
  BY PendingGens DEF Takes
<1>4. \A d \in Callers : Pending(d)' => caller'[d].gen \in 1..gen' /\ caller'[d].kind \in Kinds
  BY <1>0, <1>1, <1>2 DEF StreamInv, OwnerInv
<1>5. \A d, e \in Callers : Pending(d)' /\ Pending(e)' /\ caller'[d].gen = caller'[e].gen => d = e
  BY <1>1, <1>2, <1>3 DEF StreamInv, OwnerInv
<1>6. \A d \in Callers : caller'[d].pc \in {"waiting", "woken"} => job'[caller'[d].gen] = NoJob
  BY <1>1, <1>3 DEF StreamInv, OwnerInv, Pending
<1>7. \A d \in Callers : caller'[d].pc = "running" =>
        job'[caller'[d].gen].kind = caller'[d].kind /\ ~job'[caller'[d].gen].cancelled
  BY <1>1, <1>3 DEF StreamInv, OwnerInv, Pending
<1>8. ASSUME NEW h \in Gens, job'[h].pc # "none"
      PROVE  /\ h <= gen'
             /\ job'[h].cancelled \/ \E d \in Callers : caller'[d].pc = "running" /\ caller'[d].gen = h
  <2>1. CASE h = g
    BY <1>0, <1>1, <2>1
  <2>2. CASE h # g
    <3>1. job[h].pc # "none" /\ job'[h] = job[h] /\ h \in Nat
      BY <1>1, <1>8, <2>2, Sizes DEF Gens
    <3>2. h <= gen /\ (job[h].cancelled \/ \E d \in Callers : caller[d].pc = "running" /\ caller[d].gen = h)
      BY <3>1 DEF StreamInv, OwnerInv
    <3>3. caller[c].pc # "running"
      BY DEF Takes
    <3>. QED BY <1>0, <1>1, <3>1, <3>2, <3>3
  <2>. QED BY <2>1, <2>2
<1>. QED BY <1>4, <1>5, <1>6, <1>7, <1>8 DEF OwnerInv

\* A caller that submits a job keeps the invariant.
LEMMA SubmitKeeps ==
  ASSUME StreamInv, NEW c \in Callers, NEW kind, NEW g, Takes(c, kind, g), Submit(c, kind, g)
  PROVE  StreamInv'
<1>0. /\ gen \in Nat /\ gen' \in Nat /\ gen <= gen' /\ g \in Gens /\ kind \in Kinds /\ job[g] = NoJob
      /\ UNCHANGED <<connected, frame, halted>> /\ frame.gen \in Nat /\ halted \in Nat
  BY StreamTypes, Sizes DEF StreamInv, Takes
<1>1. /\ caller'[c].kind = kind /\ caller'[c].gen = g /\ caller'[c].pc = "running"
      /\ \A d \in Callers \ {c} : caller'[d] = caller[d]
      /\ job'[g].pc = "ready" /\ job'[g].kind = kind /\ ~job'[g].cancelled /\ job'[g].left > 0
      /\ \A h \in Gens \ {g} : job'[h] = job[h]
      /\ StreamTypeOK'
  BY SubmitShape
<1>2. \A h \in Gens : job'[h].pc \in {"check", "publish", "zeros", "done"} => h # g /\ job'[h] = job[h]
  BY <1>1
<1>3. JobInv'
  BY <1>0, <1>1 DEF StreamInv, JobInv
<1>4. LoopInv'
  BY <1>0, <1>2 DEF StreamInv, LoopInv
<1>5. HaltInv'
  <2>1. \A d \in Callers : Pending(d)' => caller'[d].gen # halted'
    BY <1>0, <1>1 DEF StreamInv, HaltInv, Takes, Pending
  <2>2. HaltIsFinal' /\ halted' <= gen'
    BY <1>0 DEF StreamInv, HaltInv, HaltIsFinal
  <2>3. \A h \in Gens : job'[h].pc = "publish" => h > halted'
    BY <1>0, <1>2 DEF StreamInv, HaltInv
  <2>4. \A k \in Gens : connected' /\ job'[k].kind \in Halts /\ job'[k].pc \in {"zeros", "done"} =>
          /\ frame'.moving => frame'.gen > k
          /\ \A h \in Gens : job'[h].pc = "publish" => h > k
    BY <1>0, <1>2 DEF StreamInv, HaltInv
  <2>. QED BY <2>1, <2>2, <2>3, <2>4 DEF HaltInv
<1>6. RestInv'
  <2>. SUFFICES ASSUME connected, frame.moving \/ ~LoopFree'
                PROVE  WillDrive' \/ \E d \in Callers : WillHalt(d)'
    BY <1>0 DEF RestInv
  <2>1. frame.moving \/ ~LoopFree
    BY <1>2 DEF LoopFree
  <2>2. WillDrive => WillDrive'
    <3>1. \A h \in Gens : job[h].pc \in {"check", "publish"} => job'[h] = job[h]
      BY <1>0, <1>1, NoJobType
    <3>. QED BY <3>1 DEF WillDrive
  <2>3. ASSUME NEW d \in Callers, WillHalt(d) PROVE WillHalt(d)'
    <3>1. CASE d = c
      BY <1>1, <2>3, <3>1 DEF Takes, WillHalt
    <3>2. CASE d # c
      <4>1. caller[d].pc = "running" => caller[d].gen \in Gens /\ caller[d].gen # g
        BY <3>2, PendingGens DEF Takes, Pending
      <4>. QED BY <1>1, <2>3, <3>2, <4>1 DEF WillHalt
    <3>. QED BY <3>1, <3>2
  <2>. QED BY <2>1, <2>2, <2>3 DEF StreamInv, RestInv
<1>7. EventWillBeSet'
  <2>1. idle' = (idle /\ kind \notin Streams) /\ caller[c].pc # "running"
    BY DEF Submit, Takes
  <2>. QED BY <1>1, <2>1 DEF StreamInv, EventWillBeSet
<1>. QED BY <1>1, <1>3, <1>4, <1>5, <1>6, <1>7, SubmitKeepsOwner DEF StreamInv

\* A new generation's job does not exist yet, and a woken caller's neither.
LEMMA NewGen ==
  ASSUME StreamInv, gen < LastGen
  PROVE  /\ gen + 1 \in Gens /\ gen + 1 \in 0..LastGen /\ job[gen + 1] = NoJob /\ gen + 1 # halted
         /\ \A d \in Callers : Pending(d) => caller[d].gen # gen + 1
<1>1. gen \in 0..LastGen /\ halted <= gen /\ halted \in Nat
  BY StreamTypes, Sizes DEF StreamInv, HaltInv
<1>2. gen + 1 \in Gens /\ gen + 1 \in 0..LastGen
  BY <1>1, Sizes DEF Gens
<1>3. job[gen + 1].pc = "none"
  BY <1>1, <1>2, Sizes DEF StreamInv, OwnerInv
<1>4. \A d \in Callers : Pending(d) => caller[d].gen \in Nat /\ caller[d].gen <= gen
  BY PendingGens, Sizes DEF Gens
<1>. QED BY <1>1, <1>2, <1>3, <1>4, Sizes DEF StreamInv, JobInv

\* A request takes a new generation and submits its job, or waits for the stream in flight.
LEMMA RequestKeeps ==
  ASSUME StreamInv, NEW c \in Callers, NEW kind \in Kinds, Request(c, kind)
  PROVE  StreamInv'
<1>0. /\ gen \in Nat /\ gen' = gen + 1 /\ connected /\ May(c, kind)
      /\ UNCHANGED <<connected, frame, halted, faults>>
  BY StreamTypes, Sizes DEF StreamInv, Request
<1>1. /\ gen < LastGen /\ caller[c].pc \in {"none", "after"}
      /\ WillHalt(c) => kind = "hold" \/ kind \in Halts
  <2>1. AtRest.pc = "none" /\ AtRest.kind = "none"
    BY DEF AtRest
  <2>2. \A k \in Halts : Owes(k).pc = "after" /\ "release" \in Halts
    BY DEF Owes, Halts
  <2>3. CASE caller[c] = AtRest /\ gen < MaxGen
    BY <1>0, <2>1, <2>3, Sizes DEF WillHalt, Halts
  <2>4. CASE caller[c] = Owes("release") /\ kind = "hold" /\ gen < MaxGen
    BY <1>0, <2>2, <2>4, Sizes DEF Halts
  <2>5. CASE caller[c] = Owes(kind) /\ kind \in Halts /\ gen < LastGen
    BY <1>0, <2>2, <2>5, Sizes
  <2>. QED BY <1>0, <2>3, <2>4, <2>5 DEF May
<1>2. /\ gen + 1 \in Gens /\ gen + 1 \in 0..LastGen /\ job[gen + 1] = NoJob /\ gen + 1 # halted
      /\ \A d \in Callers : Pending(d) => caller[d].gen # gen + 1
  BY <1>1, NewGen
<1>3. CASE Submit(c, kind, gen + 1)
  <2>1. Takes(c, kind, gen + 1)
    BY <1>0, <1>1, <1>2 DEF Takes
  <2>. QED BY <1>3, <2>1, SubmitKeeps
<1>4. CASE /\ caller' = [caller EXCEPT ![c] = [kind |-> kind, gen |-> gen + 1, pc |-> "waiting"]]
           /\ UNCHANGED <<idle, job>>
  <2>1. caller \in [Callers -> CallerType] /\ [kind |-> kind, gen |-> gen + 1, pc |-> "waiting"] \in CallerType
    BY <1>2, StreamTypes DEF StreamInv, CallerType
  <2>2. /\ caller'[c].kind = kind /\ caller'[c].gen = gen + 1 /\ caller'[c].pc = "waiting"
        /\ \A d \in Callers \ {c} : caller'[d] = caller[d]
        /\ caller' \in [Callers -> CallerType]
    BY <1>4, <2>1
  <2>3. StreamTypeOK'
    BY <1>0, <1>2, <1>4, <2>2 DEF StreamInv, StreamTypeOK, CallerType
  <2>4. \A d \in Callers \ {c} : Pending(d)' <=> Pending(d)
    BY <2>2 DEF Pending
  <2>5. \A g \in Gens : g \in Nat
    BY Sizes DEF Gens
  <2>6. OwnerInv'
    <3>1. \A d \in Callers : Pending(d)' => caller'[d].gen \in 1..gen' /\ caller'[d].kind \in Kinds
      BY <1>0, <2>2, <2>4 DEF StreamInv, OwnerInv
    <3>2. \A d, e \in Callers : Pending(d)' /\ Pending(e)' /\ caller'[d].gen = caller'[e].gen => d = e
      BY <1>2, <2>2, <2>4 DEF StreamInv, OwnerInv
    <3>3. \A d \in Callers : caller'[d].pc \in {"waiting", "woken"} => job'[caller'[d].gen] = NoJob
      BY <1>2, <1>4, <2>2 DEF StreamInv, OwnerInv
    <3>4. \A d \in Callers : caller'[d].pc = "running" =>
            job'[caller'[d].gen].kind = caller'[d].kind /\ ~job'[caller'[d].gen].cancelled
      BY <1>4, <2>2 DEF StreamInv, OwnerInv
    <3>5. \A g \in Gens : job'[g].pc # "none" =>
            /\ g <= gen'
            /\ job'[g].cancelled \/ \E d \in Callers : caller'[d].pc = "running" /\ caller'[d].gen = g
      BY <1>0, <1>1, <1>4, <2>2, <2>5 DEF StreamInv, OwnerInv
    <3>. QED BY <3>1, <3>2, <3>3, <3>4, <3>5 DEF OwnerInv
  <2>7. JobInv'
    BY <1>4 DEF StreamInv, JobInv
  <2>8. LoopInv'
    <3>1. frame.gen \in Nat
      BY StreamTypes DEF StreamInv
    <3>. QED BY <1>0, <1>4, <3>1 DEF StreamInv, LoopInv
  <2>9. HaltInv'
    <3>1. halted \in Nat
      BY StreamTypes DEF StreamInv
    <3>. QED BY <1>0, <1>2, <1>4, <2>2, <2>4, <3>1 DEF StreamInv, HaltInv, HaltIsFinal
  <2>10. RestInv'
    <3>1. \A d \in Callers : WillHalt(d) => WillHalt(d)'
      BY <1>1, <1>4, <2>2 DEF WillHalt
    <3>. QED BY <1>0, <1>4, <3>1 DEF StreamInv, RestInv, WillDrive, LoopFree
  <2>11. EventWillBeSet'
    BY <1>1, <1>4, <2>2 DEF StreamInv, EventWillBeSet
  <2>. QED BY <2>3, <2>6, <2>7, <2>8, <2>9, <2>10, <2>11 DEF StreamInv
<1>. QED BY <1>3, <1>4 DEF Request

\* The wait in Event.wait ends: nothing but the caller's step changes.
LEMMA WakeKeeps ==
  ASSUME StreamInv, NEW c \in Callers, Wake(c)
  PROVE  StreamInv'
<1>1. /\ caller' = [caller EXCEPT ![c].pc = "woken"] /\ caller[c].pc = "waiting"
      /\ UNCHANGED <<gen, idle, connected, job, frame, halted>>
  BY DEF Wake
<1>2. caller \in [Callers -> CallerType] /\ faults \in 0..MaxFaults
  BY StreamTypes DEF StreamInv
<1>3. /\ caller'[c].pc = "woken" /\ \A d \in Callers \ {c} : caller'[d].pc = caller[d].pc
      /\ \A d \in Callers : caller'[d].kind = caller[d].kind /\ caller'[d].gen = caller[d].gen
      /\ caller' \in [Callers -> CallerType]
  BY <1>1, <1>2 DEF CallerType
<1>4. StreamTypeOK'
  <2>1. faults' \in 0..MaxFaults
    BY <1>2, Sizes DEF Wake
  <2>. QED BY <1>1, <1>3, <2>1 DEF StreamInv, StreamTypeOK, CallerType
<1>5. \A d \in Callers : Pending(d)' <=> Pending(d)
  BY <1>1, <1>3 DEF Pending
<1>6. \A d \in Callers : caller'[d].pc = "running" <=> caller[d].pc = "running"
  BY <1>1, <1>3
<1>7. OwnerInv'
  BY <1>1, <1>3, <1>5, <1>6 DEF StreamInv, OwnerInv
<1>8. JobInv' /\ LoopInv'
  BY <1>1 DEF StreamInv, JobInv, LoopInv
<1>9. HaltInv'
  BY <1>1, <1>3, <1>5 DEF StreamInv, HaltInv, HaltIsFinal
<1>10. RestInv'
  BY <1>1, <1>3, <1>6 DEF StreamInv, RestInv, WillDrive, WillHalt, LoopFree
<1>11. EventWillBeSet'
  BY <1>1, <1>3, <1>6 DEF StreamInv, EventWillBeSet
<1>. QED BY <1>4, <1>7, <1>8, <1>9, <1>10, <1>11 DEF StreamInv

\* A caller that wakes up keeps the invariant.
LEMMA ResumeKeeps ==
  ASSUME StreamInv, NEW c \in Callers, Resume(c)
  PROVE  StreamInv'
<1>1. /\ Pending(c) /\ caller[c].pc = "woken" /\ gen' = gen /\ gen \in 0..LastGen
      /\ Submit(c, caller[c].kind, caller[c].gen) /\ UNCHANGED <<connected, frame, halted, faults>>
  BY StreamTypes DEF Resume, Pending, StreamInv
<1>2. caller[c].gen \in Gens /\ caller[c].kind \in Kinds /\ caller[c].gen <= gen
  BY <1>1, PendingGens
<1>3. Takes(c, caller[c].kind, caller[c].gen)
  <2>1. job[caller[c].gen] = NoJob /\ caller[c].gen # halted
    BY <1>1 DEF StreamInv, OwnerInv, HaltInv
  <2>2. \A d \in Callers \ {c} : Pending(d) => caller[d].gen # caller[c].gen
    BY <1>1 DEF StreamInv, OwnerInv
  <2>3. WillHalt(c) => caller[c].kind = "hold" \/ caller[c].kind \in Halts
    BY DEF WillHalt
  <2>. QED BY <1>1, <1>2, <2>1, <2>2, <2>3 DEF Takes
<1>. QED BY <1>1, <1>3, SubmitKeeps

\* What a caller still has to do when it was interrupted.
LEMMA OwesType ==
  ASSUME NEW kind \in {"none", "stop", "release"}
  PROVE  /\ Owes(kind) \in CallerType /\ Owes(kind).pc \in {"none", "after"}
         /\ kind = "release" => Owes(kind).kind = "release" /\ Owes(kind).pc = "after"
BY Sizes DEF Owes, AtRest, CallerType, Kinds, Halts

\* Setting the event wakes some of those who wait, and changes nothing else of them.
LEMMA SetIdleShape ==
  ASSUME StreamTypeOK, NEW c \in Callers, NEW next \in CallerType, SetIdle(c, next)
  PROVE  /\ idle' = TRUE /\ caller' \in [Callers -> CallerType] /\ caller'[c] = next
         /\ \A d \in Callers \ {c} : SameRequest(d)
<1>1. PICK missed \in SUBSET {d \in Callers : caller[d].pc = "waiting"} :
         caller' = [d \in Callers |->
                  IF d = c THEN next
                  ELSE IF caller[d].pc = "waiting" /\ d \notin missed
                       THEN [caller[d] EXCEPT !.pc = "woken"] ELSE caller[d]]
  BY DEF SetIdle
<1>2. \A d \in Callers : caller[d] \in CallerType
  BY StreamTypes
<1>3. \A d \in Callers : /\ [caller[d] EXCEPT !.pc = "woken"] \in CallerType
                         /\ [caller[d] EXCEPT !.pc = "woken"].pc = "woken"
                         /\ [caller[d] EXCEPT !.pc = "woken"].kind = caller[d].kind
                         /\ [caller[d] EXCEPT !.pc = "woken"].gen = caller[d].gen
  BY <1>2 DEF CallerType
<1>. QED BY <1>1, <1>2, <1>3 DEF SetIdle, SameRequest

\* A caller that is refused leaves ...
LEMMA RefusedLeaves ==
  ASSUME StreamInv, NEW c \in Callers, Refused(c)
  PROVE  Leaves(c)
<1>1. /\ caller' = [caller EXCEPT ![c] = AtRest] /\ ~connected /\ caller[c].pc = "after"
      /\ UNCHANGED <<gen, idle, connected, job, frame, halted, faults>>
  BY DEF Refused
<1>2. caller \in [Callers -> CallerType] /\ AtRest \in CallerType /\ AtRest.pc = "none"
  BY StreamTypes, Sizes DEF StreamInv, AtRest, CallerType
<1>3. StreamTypeOK'
  BY <1>1, <1>2 DEF StreamInv, StreamTypeOK, CallerType
<1>. QED BY <1>1, <1>2, <1>3 DEF Leaves, SameRequest

\* ... so does one that is cancelled while it waits ...
LEMMA CancelWaitingLeaves ==
  ASSUME StreamInv, NEW c \in Callers, CancelWaiting(c)
  PROVE  Leaves(c)
<1>1. /\ caller' = [caller EXCEPT ![c] = IF caller[c].kind = "hold" THEN Owes("release") ELSE AtRest]
      /\ caller[c].pc \in {"waiting", "woken"} /\ caller[c].kind \in Streams
      /\ UNCHANGED <<gen, idle, connected, job, frame, halted, faults>>
  BY DEF CancelWaiting
<1>2. /\ caller \in [Callers -> CallerType] /\ AtRest = Owes("none")
      /\ "none" \in {"none", "stop", "release"} /\ "release" \in {"none", "stop", "release"}
  BY StreamTypes DEF StreamInv, Owes
<1>3. caller' \in [Callers -> CallerType] /\ caller'[c].pc \in {"none", "after"}
      /\ \A d \in Callers \ {c} : caller'[d] = caller[d]
  BY <1>1, <1>2, OwesType
<1>4. WillHalt(c) => WillHalt(c)'
  <2>1. CASE caller[c].kind = "hold"
    <3>1. caller'[c].kind = "release" /\ caller'[c].pc = "after"
      BY <1>1, <1>2, <2>1, OwesType
    <3>. QED BY <3>1 DEF WillHalt, Halts
  <2>2. CASE caller[c].kind # "hold"
    BY <1>1, <2>2 DEF WillHalt, Streams, Halts
  <2>. QED BY <2>1, <2>2
<1>5. StreamTypeOK'
  BY <1>1, <1>3 DEF StreamInv, StreamTypeOK, CallerType
<1>. QED BY <1>1, <1>3, <1>4, <1>5 DEF Leaves, SameRequest

\* ... one whose stream has returned ...
LEMMA StreamReturnsLeaves ==
  ASSUME StreamInv, NEW c \in Callers, StreamReturns(c)
  PROVE  Leaves(c)
<1>. DEFINE g == caller[c].gen
<1>1. /\ caller[c].pc = "running" /\ caller[c].kind \in Streams /\ job[g].pc = "done"
      /\ job' = [job EXCEPT ![g] = NoJob]
      /\ UNCHANGED <<gen, connected, frame, halted, faults>>
  BY DEF StreamReturns
<1>2. PICK next \in Follow(caller[c].kind, job[g].ok) : SetIdle(c, Owes(next))
  BY DEF StreamReturns
<1>3. next \in {"none", "stop", "release"} /\ (caller[c].kind = "hold" => next = "release")
  BY <1>1 DEF Follow, Streams
<1>4. g \in Gens /\ job \in [Gens -> JobType]
  BY <1>1, PendingGens, StreamTypes DEF Pending, StreamInv
<1>5. /\ idle' = TRUE /\ caller' \in [Callers -> CallerType] /\ caller'[c] = Owes(next)
      /\ \A d \in Callers \ {c} : SameRequest(d)
  BY <1>2, <1>3, OwesType, SetIdleShape DEF StreamInv
<1>6. /\ job' \in [Gens -> JobType] /\ job'[g] = NoJob /\ \A h \in Gens \ {g} : job'[h] = job[h]
  BY <1>1, <1>4, NoJobType
<1>7. StreamTypeOK'
  BY <1>1, <1>5, <1>6 DEF StreamInv, StreamTypeOK, CallerType, JobType
<1>8. WillHalt(c) => WillHalt(c)'
  <2>1. CASE caller[c].kind = "hold"
    <3>1. caller'[c].kind = "release" /\ caller'[c].pc = "after"
      BY <1>3, <1>5, <2>1, OwesType
    <3>. QED BY <3>1 DEF WillHalt, Halts
  <2>2. CASE caller[c].kind # "hold"
    BY <1>1, <2>2 DEF WillHalt, Streams, Halts
  <2>. QED BY <2>1, <2>2
<1>9. caller'[c].pc \in {"none", "after"}
  BY <1>3, <1>5, OwesType
<1>. QED BY <1>1, <1>5, <1>6, <1>7, <1>8, <1>9, NoJobType DEF Leaves

\* ... one whose halt has returned ...
LEMMA HaltReturnsLeaves ==
  ASSUME StreamInv, NEW c \in Callers, HaltReturns(c)
  PROVE  Leaves(c)
<1>. DEFINE g == caller[c].gen
<1>1. /\ caller[c].pc = "running" /\ caller[c].kind \in Halts /\ job[g].pc = "done"
      /\ caller' = [caller EXCEPT ![c] = AtRest] /\ job' = [job EXCEPT ![g] = NoJob]
      /\ halted' = IF connected /\ g > halted THEN g ELSE halted
      /\ connected' = (connected /\ caller[c].kind # "disconnect")
      /\ UNCHANGED <<gen, idle, frame, faults>>
  BY DEF HaltReturns
<1>2. g \in Gens /\ job \in [Gens -> JobType] /\ caller \in [Callers -> CallerType]
  BY <1>1, PendingGens, StreamTypes DEF Pending, StreamInv
<1>3. AtRest \in CallerType /\ AtRest.pc = "none"
  BY Sizes DEF AtRest, CallerType
<1>4. /\ job' \in [Gens -> JobType] /\ job'[g] = NoJob /\ \A h \in Gens \ {g} : job'[h] = job[h]
      /\ caller' \in [Callers -> CallerType] /\ caller'[c] = AtRest
      /\ \A d \in Callers \ {c} : caller'[d] = caller[d]
  BY <1>1, <1>2, <1>3, NoJobType
<1>5. StreamTypeOK'
  <2>1. halted' \in 0..LastGen /\ connected' \in BOOLEAN
    BY <1>1, <1>2, StreamTypes, Sizes DEF StreamInv, Gens
  <2>. QED BY <1>1, <1>4, <2>1 DEF StreamInv, StreamTypeOK, CallerType, JobType
<1>6. ~WillHalt(c) /\ caller[c].kind \notin Streams
  BY <1>1 DEF WillHalt, Halts, Streams
<1>7. halted' = halted \/ (connected /\ halted' = g)
  BY <1>1
<1>8. connected' => connected
  BY <1>1
<1>. QED BY <1>1, <1>3, <1>4, <1>5, <1>6, <1>7, <1>8, NoJobType DEF Leaves, SameRequest

\* ... and one that is interrupted.
LEMMA InterruptedLeaves ==
  ASSUME StreamInv, NEW c \in Callers, NEW ok \in BOOLEAN, Interrupted(c, ok), faults' \in 0..MaxFaults
  PROVE  Leaves(c)
<1>. DEFINE g == caller[c].gen
            stopped == [job[g] EXCEPT !.cancelled = TRUE]
            next == IF caller[c].kind = "hold" THEN "release" ELSE IF ok THEN "none" ELSE "stop"
<1>1. /\ caller[c].pc = "running" /\ caller[c].kind \in Streams /\ gen < MaxGen /\ gen' = gen + 1
      /\ SetIdle(c, Owes(next)) /\ UNCHANGED <<connected, frame, halted>>
  BY DEF Interrupted
<1>2. g \in Gens /\ job \in [Gens -> JobType] /\ job[g].kind = caller[c].kind
  BY <1>1, PendingGens, StreamTypes DEF Pending, StreamInv, OwnerInv
<1>3. /\ stopped \in JobType /\ stopped.cancelled /\ stopped.pc = job[g].pc
      /\ stopped.kind = job[g].kind /\ stopped.left = job[g].left
  BY <1>2 DEF JobType
<1>4. job' = [job EXCEPT ![g] = IF job[g].pc = "done" THEN NoJob ELSE stopped]
  BY <1>2 DEF Interrupted
<1>. HIDE DEF stopped
<1>5. /\ job' \in [Gens -> JobType] /\ \A h \in Gens \ {g} : job'[h] = job[h]
      /\ job[g].pc = "done" => job'[g] = NoJob
      /\ job[g].pc # "done" => job'[g] = stopped
  BY <1>2, <1>3, <1>4, NoJobType
<1>6. next \in {"none", "stop", "release"} /\ (caller[c].kind = "hold" => next = "release")
  OBVIOUS
<1>. HIDE DEF next
<1>7. /\ idle' = TRUE /\ caller' \in [Callers -> CallerType] /\ caller'[c] = Owes(next)
      /\ \A d \in Callers \ {c} : SameRequest(d)
  BY <1>1, <1>6, OwesType, SetIdleShape DEF StreamInv
<1>8. StreamTypeOK'
  <2>1. gen' \in 0..LastGen
    BY <1>1, StreamTypes, Sizes DEF StreamInv
  <2>. QED BY <1>1, <1>5, <1>7, <2>1 DEF StreamInv, StreamTypeOK, CallerType, JobType
<1>9. WillHalt(c) => WillHalt(c)'
  <2>1. CASE caller[c].kind = "hold"
    <3>1. caller'[c].kind = "release" /\ caller'[c].pc = "after"
      BY <1>6, <1>7, <2>1, OwesType
    <3>. QED BY <3>1 DEF WillHalt, Halts
  <2>2. CASE caller[c].kind # "hold"
    BY <1>1, <2>2 DEF WillHalt, Streams, Halts
  <2>. QED BY <2>1, <2>2
<1>10. caller'[c].pc \in {"none", "after"}
  BY <1>6, <1>7, OwesType
<1>11. job'[g].pc = "none" \/ job'[g].cancelled
  BY <1>3, <1>5, NoJobType
<1>. QED BY <1>1, <1>2, <1>3, <1>5, <1>7, <1>8, <1>9, <1>10, <1>11 DEF Leaves

\* A step of a caller keeps the invariant.
LEMMA CallerKeeps ==
  ASSUME StreamInv, NEW c \in Callers, CallerStep(c)
  PROVE  StreamInv'
<1>0. faults \in 0..MaxFaults
  BY StreamTypes DEF StreamInv
<1>1. ASSUME NEW kind \in Kinds, Request(c, kind) PROVE StreamInv'
  BY <1>1, RequestKeeps
<1>2. CASE Cancel(c)
  <2>1. faults' \in 0..MaxFaults /\ Interrupted(c, TRUE)
    BY <1>0, <1>2 DEF Cancel
  <2>. QED BY <2>1, InterruptedLeaves, LeaveKeeps
<1>3. CASE BridgeTimeout(c)
  <2>1. Interrupted(c, FALSE) /\ faults < MaxFaults /\ faults' = faults + 1
    BY <1>3 DEF BridgeTimeout
  <2>2. faults' \in 0..MaxFaults
    BY <1>0, <2>1, Sizes
  <2>. QED BY <2>1, <2>2, InterruptedLeaves, LeaveKeeps
<1>. QED BY <1>1, <1>2, <1>3, WakeKeeps, ResumeKeeps, RefusedLeaves, StreamReturnsLeaves,
            HaltReturnsLeaves, CancelWaitingLeaves, LeaveKeeps DEF CallerStep
-----------------------------------------------------------------------------
\* Nobody has asked for anything yet.
LEMMA StreamStarts == StreamInit => StreamInv
<1>. SUFFICES ASSUME StreamInit PROVE StreamInv
  OBVIOUS
<1>1. /\ gen = 0 /\ idle = TRUE /\ connected = TRUE /\ halted = 0 /\ faults = 0
      /\ frame.gen = 0 /\ frame.moving = FALSE /\ frame \in [gen: 0..LastGen, moving: BOOLEAN]
  BY Sizes DEF StreamInit
<1>2. /\ caller \in [Callers -> CallerType] /\ \A c \in Callers : caller[c].pc = "none"
  BY Sizes DEF StreamInit, AtRest, CallerType
<1>3. /\ job \in [Gens -> JobType] /\ \A g \in Gens : job[g] = NoJob /\ job[g].pc = "none"
  BY NoJobType DEF StreamInit
<1>4. StreamTypeOK
  <2>1. gen \in 0..LastGen /\ halted \in 0..LastGen /\ faults \in 0..MaxFaults
    BY <1>1, Sizes
  <2>. QED BY <1>1, <1>2, <1>3, <2>1 DEF StreamTypeOK, CallerType, JobType
<1>5. OwnerInv /\ JobInv
  BY <1>2, <1>3, NoJobType DEF OwnerInv, JobInv, Pending
<1>6. LoopInv /\ HaltInv
  BY <1>1, <1>2, <1>3 DEF LoopInv, HaltInv, HaltIsFinal, Pending
<1>7. RestInv /\ EventWillBeSet
  BY <1>1, <1>3 DEF RestInv, LoopFree, EventWillBeSet
<1>. QED BY <1>4, <1>5, <1>6, <1>7 DEF StreamInv

\* Every step keeps the invariant.
LEMMA StreamInvariance == StreamInv /\ [StreamNext]_streamVars => StreamInv'
<1>1. ASSUME StreamInv, UNCHANGED streamVars PROVE StreamInv'
  BY <1>1 DEF streamVars, StreamInv, StreamTypeOK, OwnerInv, JobInv, LoopInv, HaltInv,
     HaltIsFinal,
              RestInv, WillDrive, WillHalt, LoopFree, EventWillBeSet, Pending
<1>. QED BY <1>1, CallerKeeps, JobKeeps DEF StreamNext

\* A halt that has returned is final, the robot is at rest when nobody drives it any
\* more, and nobody waits for an event that nobody will set: for any callers, and any
\* requests, frames, time-outs and cancellations (_halt_motion, _velocity_stream).
THEOREM StaysStillAlways == StreamSpec => []StaysStill
<1>1. StreamInv => StaysStill
  <2>. SUFFICES ASSUME StreamInv PROVE StaysStill
    OBVIOUS
  <2>1. HaltIsFinal /\ EventWillBeSet
    BY DEF StreamInv, HaltInv
  <2>2. ASSUME Quiescent, connected PROVE ~frame.moving
    <3>1. ~WillDrive
      BY <2>2, NoJobType DEF Quiescent, WillDrive
    <3>2. \A c \in Callers : ~WillHalt(c)
      BY <2>2 DEF Quiescent, WillHalt, AtRest, Halts
    <3>. QED BY <2>2, <3>1, <3>2 DEF StreamInv, RestInv
  <2>. QED BY <2>1, <2>2 DEF StaysStill, LeftStill
<1>. QED BY <1>1, StreamStarts, StreamInvariance, PTL DEF StreamSpec

\* Once a newer request has moved the robot, no older one does (_velocity_stream looks
\* at the generation before every frame, and nothing else runs in between).
THEOREM FramesNeverInterleave == StreamSpec => NoInterleaving
<1>1. StreamInv /\ [StreamNext]_streamVars => [frame'.gen >= frame.gen]_streamVars
  <2>. SUFFICES ASSUME StreamInv, StreamNext PROVE frame'.gen >= frame.gen
    OBVIOUS
  <2>0. frame.gen \in Nat
    BY StreamTypes DEF StreamInv
  <2>1. ASSUME NEW c \in Callers, CallerStep(c) PROVE frame' = frame
    BY <2>1 DEF CallerStep, Request, Refused, Wake, Resume, StreamReturns, HaltReturns,
                Cancel, BridgeTimeout, Interrupted, CancelWaiting
  <2>2. ASSUME NEW g \in Gens, JobStep(g) PROVE frame'.gen >= frame.gen
    <3>1. frame' = frame \/ frame'.gen = frame.gen \/ (job[g].pc = "publish" /\ frame'.gen = g)
      BY <2>2, JobShape DEF JobMoves, Zeroed
    <3>2. g \in Nat /\ (job[g].pc = "publish" => frame.gen <= g)
      BY Sizes DEF Gens, StreamInv, LoopInv
    <3>. QED BY <2>0, <3>1, <3>2
  <2>. QED BY <2>0, <2>1, <2>2 DEF StreamNext
<1>. QED BY <1>1, StreamStarts, StreamInvariance, PTL DEF StreamSpec, NoInterleaving
=============================================================================
