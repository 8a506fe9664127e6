--------------------------- MODULE TelemetryProofs ---------------------------
(***************************************************************************)
(* Proofs about Telemetry for any age limit, any wait for the lease and    *)
(* any length of a drive: the age the transport keeps is how long the      *)
(* robot has been silent, so that a drive that looked at it once is never  *)
(* further than its own time, and its wait for the lease, from a word of   *)
(* the robot.                                                              *)
(***************************************************************************)
EXTENDS Telemetry, TLAPS

\* What the transport takes for the age of the newest sport state is the robot's silence.
AgeIsSilence == age = silence

\* A drive that waits for the lease has looked at a fresh state, and a drive
\* under way is no longer than a segment.
LeaseIsFresh ==
  \A a \in Actors :
    /\ actor[a].step = "lease" =>
         /\ actor[a].report \in Standing /\ actor[a].left <= IdleWait
         /\ silence <= MaxAge + IdleWait - actor[a].left
    /\ actor[a].step = "drive" => actor[a].left <= MaxDrive

TelemetryInv ==
  TelemetryTypeOK /\ AgeIsSilence /\ LeaseIsFresh /\ DrivesOnRecentWord
-----------------------------------------------------------------------------
\* The bound of the clocks is later than any time a drive is allowed.
LEMMA TelemetryBounds ==
  /\ MaxAge \in Nat /\ IdleWait \in Nat /\ MaxDrive \in Nat
  /\ Long \in Nat /\ Long > MaxAge + IdleWait + MaxDrive
BY TelemetryAssumption DEF Long


Fields == {"step", "for", "tries", "kept", "battery", "report", "left"}
FieldType == [step |-> {"idle", "read", "wait", "age", "lease", "drive", "verify"},
              for |-> {"battery", "self", "check"}, tries |-> 0..3, kept |-> {"none", "full", "low"},
              battery |-> {"full", "low"}, report |-> Reports \union {"none"},
              left |-> 0..IdleWait + MaxDrive]

Mover == [step: {"idle", "read", "wait", "age", "lease", "drive", "verify"},
          for: {"battery", "self", "check"}, tries: 0..3, kept: {"none", "full", "low"},
          battery: {"full", "low"}, report: Reports \union {"none"},
          left: 0..IdleWait + MaxDrive]

\* A record of a command is a function of its fields.
LEMMA MoverIsFunction ==
  ASSUME NEW r
  PROVE  r \in Mover <=> r = [f \in Fields |-> r[f]] /\ \A f \in Fields : r[f] \in FieldType[f]
<1>1. ASSUME r \in Mover PROVE r = [f \in Fields |-> r[f]] 
  BY <1>1, Zenon DEF Mover, Fields, FieldType
<1>3. ASSUME r \in Mover PROVE \A f \in Fields : r[f] \in FieldType[f]
  <2>1. /\ r.step \in FieldType.step /\ r.for \in FieldType.for /\ r.tries \in FieldType.tries
        /\ r.kept \in FieldType.kept /\ r.battery \in FieldType.battery
        /\ r.report \in FieldType.report /\ r.left \in FieldType.left
    BY <1>3 DEF Mover, FieldType
  <2>. QED BY <2>1 DEF Fields
<1>2. ASSUME r = [f \in Fields |-> r[f]], \A f \in Fields : r[f] \in FieldType[f] PROVE r \in Mover
  BY <1>2 DEF Mover, Fields, FieldType
<1>. QED BY <1>1, <1>2, <1>3

\* Becomes touches one actor and, of its record, the fields it is given.
LEMMA BecomesOne ==
  ASSUME actor \in [Actors -> Mover], NEW a \in Actors, NEW fields, Becomes(a, fields),
         \A f \in DOMAIN fields : f \in Fields /\ fields[f] \in FieldType[f]
  PROVE  /\ actor' \in [Actors -> Mover]
         /\ \A b \in Actors \ {a} : actor'[b] = actor[b]
         /\ \A f \in Fields : actor'[a][f] = IF f \in DOMAIN fields THEN fields[f] ELSE actor[a][f]
<1>. DEFINE r == [f \in DOMAIN actor[a] |-> IF f \in DOMAIN fields THEN fields[f] ELSE actor[a][f]]
<1>1. actor[a] = [f \in Fields |-> actor[a][f]] /\ \A f \in Fields : actor[a][f] \in FieldType[f]
  BY MoverIsFunction
<1>2. DOMAIN actor[a] = Fields
  BY <1>1
<1>3. r = [f \in Fields |-> r[f]] /\ \A f \in Fields : r[f] \in FieldType[f]
  BY <1>1, <1>2
<1>4. r \in Mover
  BY <1>3, MoverIsFunction
<1>5. actor' = [actor EXCEPT ![a] = r]
  BY DEF Becomes
<1>. QED BY <1>2, <1>4, <1>5

\* A step of one actor that takes it neither to the lease nor to a drive.
LEMMA QuietStep ==
  ASSUME TelemetryInv, NEW a \in Actors, NEW fields, Becomes(a, fields),
         "step" \in DOMAIN fields, fields["step"] \notin {"lease", "drive"},
         \A f \in DOMAIN fields : f \in Fields /\ fields[f] \in FieldType[f],
         UNCHANGED <<transport, online, sport, low, age, silence>>
  PROVE  TelemetryInv'
<1>1. actor \in [Actors -> Mover]
  BY DEF TelemetryInv, TelemetryTypeOK, Mover
<1>2. /\ actor' \in [Actors -> Mover]
      /\ \A b \in Actors \ {a} : actor'[b] = actor[b]
      /\ actor'[a].step = fields["step"]
  BY <1>1, BecomesOne DEF Fields
<1>3. TelemetryTypeOK' /\ AgeIsSilence'
  BY <1>2 DEF TelemetryInv, TelemetryTypeOK, Mover, AgeIsSilence
<1>4. \A b \in Actors : actor'[b].step \in {"lease", "drive"} => actor'[b] = actor[b]
  BY <1>2
<1>5. LeaseIsFresh' /\ DrivesOnRecentWord'
  BY <1>4 DEF TelemetryInv, LeaseIsFresh, DrivesOnRecentWord
<1>. QED BY <1>3, <1>5 DEF TelemetryInv

\* A command that gives up or begins anew rests or reads.
LEMMA RestingFields ==
  ASSUME NEW f \in Fields
  PROVE  f \in DOMAIN Resting /\ Resting[f] \in FieldType[f]
BY TelemetryBounds DEF Fields, FieldType, Resting

\* Whoever comes to rest keeps the invariant.
LEMMA RestsStep ==
  ASSUME TelemetryInv, NEW a \in Actors, Rests(a),
         UNCHANGED <<transport, online, sport, low, age, silence>>
  PROVE  TelemetryInv'
<1>1. DOMAIN Resting = Fields /\ Resting["step"] = "idle"
  BY DEF Resting, Fields
<1>. QED BY <1>1, RestingFields, QuietStep DEF Rests, Fields

\* Whatever a command begins to read, it is given all its fields.
LEMMA ReadsStep ==
  ASSUME TelemetryInv, NEW a \in Actors, NEW given, Becomes(a, given), DOMAIN given = Fields,
         given.step = "read" /\ given.for \in {"battery", "self", "check"},
         given.tries = 0 /\ given.kept = "none" /\ given.battery \in {"full", "low"},
         given.report = "none" /\ given.left = 0,
         UNCHANGED <<transport, online, sport, low, age, silence>>
  PROVE  TelemetryInv'
<1>1. /\ given.step \in FieldType.step /\ given.for \in FieldType.for
      /\ given.tries \in FieldType.tries /\ given.kept \in FieldType.kept
      /\ given.battery \in FieldType.battery /\ given.report \in FieldType.report
      /\ given.left \in FieldType.left
  BY TelemetryBounds DEF FieldType
<1>2. \A f \in Fields : given[f] \in FieldType[f]
  BY <1>1 DEF Fields
<1>. QED BY <1>2, QuietStep DEF Fields

\* A read that succeeds: the battery is kept and the state read again, or the age is next.
LEMMA GotStep ==
  ASSUME TelemetryInv, NEW a \in Actors, NEW v \in {"none", "full", "low"}, Got(a, v),
         UNCHANGED <<transport, online, sport, low, age, silence>>
  PROVE  TelemetryInv'
<1>1. CASE actor[a].for = "battery"
  <2>. DEFINE given == [Resting EXCEPT !.step = "read", !.for = "self", !.battery = BatteryOf(sport, v)]
  <2>1. /\ DOMAIN given = Fields /\ given.step = "read" /\ given.for = "self" /\ given.tries = 0
        /\ given.kept = "none" /\ given.battery \in {"full", "low"}
        /\ given.report = "none" /\ given.left = 0
    BY DEF Resting, Fields, BatteryOf
  <2>. QED BY <1>1, <2>1, ReadsStep DEF Got
<1>2. CASE actor[a].for # "battery"
  <2>. DEFINE given == [step |-> "age", report |-> sport, tries |-> 0]
  <2>1. DOMAIN given = {"step", "report", "tries"} /\ given["step"] = "age"
    OBVIOUS
  <2>2. \A f \in DOMAIN given : f \in Fields /\ given[f] \in FieldType[f]
    BY <2>1 DEF TelemetryInv, TelemetryTypeOK, Fields, FieldType
  <2>3. Becomes(a, given)
    BY <1>2 DEF Got
  <2>. QED BY <2>1, <2>2, <2>3, QuietStep
<1>. QED BY <1>1, <1>2

\* A read that fails: read on, drive with what was read before, or give up.
LEMMA RaisedStep ==
  ASSUME TelemetryInv, NEW a \in Actors, Raised(a),
         UNCHANGED <<transport, online, sport, low, age, silence>>
  PROVE  TelemetryInv'
<1>. DEFINE again == [Resting EXCEPT !.step = "read", !.for = "self"]
            blind == [step |-> "read", for |-> "check", tries |-> 0]
<1>1. /\ DOMAIN again = Fields /\ again.step = "read" /\ again.for = "self" /\ again.tries = 0
      /\ again.kept = "none" /\ again.battery = "full" /\ again.report = "none" /\ again.left = 0
  BY DEF Resting, Fields
<1>3. DOMAIN blind = {"step", "for", "tries"} /\ blind["step"] = "read"
  OBVIOUS
<1>4. \A f \in DOMAIN blind : f \in Fields /\ blind[f] \in FieldType[f]
  BY <1>3 DEF Fields, FieldType
<1>5. Becomes(a, again) \/ Becomes(a, blind) \/ Rests(a)
  BY DEF Raised
<1>6. ASSUME Becomes(a, again) PROVE TelemetryInv'
  BY <1>1, <1>6, ReadsStep
<1>7. ASSUME Becomes(a, blind) PROVE TelemetryInv'
  BY <1>3, <1>4, <1>7, QuietStep
<1>. QED BY <1>5, <1>6, <1>7, RestsStep

\* Whoever reads the state or wakes up keeps the invariant.
LEMMA ReadStep ==
  ASSUME TelemetryInv, NEW a \in Actors, ReadState(a) \/ Wakes(a),
         UNCHANGED <<transport, online, sport, low, age, silence>>
  PROVE  TelemetryInv'
<1>. DEFINE sleep == [step |-> "wait", tries |-> 1, kept |-> low]
            more == [tries |-> actor[a].tries + 1]
<1>0. low \in {"none", "full", "low"} /\ actor \in [Actors -> Mover]
  BY DEF TelemetryInv, TelemetryTypeOK, Mover
<1>1. Got(a, low) \/ Got(a, actor[a].kept) \/ Raised(a) \/ Becomes(a, sleep)
      \/ (actor[a].step = "wait" /\ actor[a].tries < Sleeps /\ Becomes(a, more))
  BY DEF ReadState, Wakes
<1>2. CASE Becomes(a, sleep)
  <2>1. DOMAIN sleep = {"step", "tries", "kept"} /\ sleep["step"] = "wait"
    OBVIOUS
  <2>2. \A f \in DOMAIN sleep : f \in Fields /\ sleep[f] \in FieldType[f]
    BY <2>1, <1>0 DEF Fields, FieldType
  <2>. QED BY <1>2, <2>1, <2>2, QuietStep
<1>3. CASE actor[a].step = "wait" /\ actor[a].tries < Sleeps /\ Becomes(a, more)
  <2>1. actor[a].tries \in 0..3 /\ actor[a].tries + 1 \in 0..3
    BY <1>0, <1>3 DEF Mover, Sleeps
  <2>2. DOMAIN more = {"tries"} /\ "tries" \in Fields /\ more["tries"] \in FieldType["tries"]
    BY <2>1 DEF Fields, FieldType
  <2>3. /\ actor' \in [Actors -> Mover]
        /\ \A b \in Actors \ {a} : actor'[b] = actor[b]
        /\ actor'[a].step = "wait"
    BY <1>0, <1>3, <2>2, BecomesOne DEF Fields
  <2>4. TelemetryTypeOK' /\ AgeIsSilence'
    BY <2>3 DEF TelemetryInv, TelemetryTypeOK, Mover, AgeIsSilence
  <2>5. \A b \in Actors : actor'[b].step \in {"lease", "drive"} => actor'[b] = actor[b]
    BY <2>3
  <2>6. LeaseIsFresh' /\ DrivesOnRecentWord'
    BY <2>5 DEF TelemetryInv, LeaseIsFresh, DrivesOnRecentWord
  <2>. QED BY <2>4, <2>6 DEF TelemetryInv
<1>4. actor[a].kept \in {"none", "full", "low"}
  BY <1>0 DEF Mover
<1>. QED BY <1>0, <1>1, <1>2, <1>3, <1>4, GotStep, RaisedStep

\* A command or a chunk begins with a read.
LEMMA BeginStep ==
  ASSUME TelemetryInv, CommandBegins
  PROVE  TelemetryInv'
<1>. DEFINE first == [Resting EXCEPT !.step = "read"]
            chunk == [Resting EXCEPT !.step = "read", !.for = "check"]
<1>1. /\ DOMAIN first = Fields /\ first.step = "read" /\ first.for = "battery" /\ first.tries = 0
      /\ first.kept = "none" /\ first.battery = "full" /\ first.report = "none" /\ first.left = 0
  BY DEF Resting, Fields
<1>2. /\ DOMAIN chunk = Fields /\ chunk.step = "read" /\ chunk.for = "check" /\ chunk.tries = 0
      /\ chunk.kept = "none" /\ chunk.battery = "full" /\ chunk.report = "none" /\ chunk.left = 0
  BY DEF Resting, Fields
<1>3. Becomes("skill", first) \/ Becomes("teleop", chunk)
  BY DEF CommandBegins, Observe, StreamHold
<1>4. "skill" \in Actors /\ "teleop" \in Actors
  BY DEF Actors
<1>5. UNCHANGED <<transport, online, sport, low, age, silence>>
  BY DEF CommandBegins
<1>6. CASE Becomes("skill", first)
  BY <1>1, <1>4, <1>5, <1>6, ReadsStep
<1>7. CASE Becomes("teleop", chunk)
  BY <1>2, <1>4, <1>5, <1>7, ReadsStep
<1>. QED BY <1>3, <1>6, <1>7

\* The age is looked at: the command goes on to its drive, or gives up.
LEMMA AgedStep ==
  ASSUME TelemetryInv, NEW a \in Actors, Aged(a) \/ VerifyStopped(a),
         UNCHANGED <<transport, online, sport, low, age, silence>>
  PROVE  TelemetryInv'
<1>. DEFINE check == [step |-> "read", for |-> "check", report |-> "none"]
<1>1. DOMAIN check = {"step", "for", "report"} /\ check["step"] = "read"
  OBVIOUS
<1>2. \A f \in DOMAIN check : f \in Fields /\ check[f] \in FieldType[f]
  BY <1>1 DEF Fields, FieldType
<1>3. Becomes(a, check) \/ Rests(a)
  BY DEF Aged, VerifyStopped
<1>4. CASE Becomes(a, check)
  BY <1>1, <1>2, <1>4, QuietStep
<1>. QED BY <1>3, <1>4, RestsStep

\* The check of the drive itself: what it lets through is fresh, because the age is the silence.
LEMMA CheckStep ==
  ASSUME TelemetryInv, NEW a \in Actors, AssertDrivePreconditions(a),
         UNCHANGED <<transport, online, sport, low, age, silence>>
  PROVE  TelemetryInv'
<1>. DEFINE lease == [step |-> "lease", left |-> IdleWait]
<1>1. CASE age <= MaxAge /\ actor[a].report \in Standing
  <2>1. actor \in [Actors -> Mover]
    BY DEF TelemetryInv, TelemetryTypeOK, Mover
  <2>2. DOMAIN lease = {"step", "left"} /\ "step" \in Fields /\ "left" \in Fields /\ "report" \in Fields
    BY DEF Fields
  <2>3. lease["step"] \in FieldType["step"] /\ lease["left"] \in FieldType["left"]
    BY TelemetryBounds DEF FieldType
  <2>4. Becomes(a, lease)
    BY <1>1 DEF AssertDrivePreconditions
  <2>5. /\ actor' \in [Actors -> Mover]
        /\ \A b \in Actors \ {a} : actor'[b] = actor[b]
        /\ actor'[a].step = "lease" /\ actor'[a].left = IdleWait
        /\ actor'[a].report = actor[a].report
    BY <2>1, <2>2, <2>3, <2>4, BecomesOne
  <2>6. TelemetryTypeOK' /\ AgeIsSilence'
    BY <2>5 DEF TelemetryInv, TelemetryTypeOK, Mover, AgeIsSilence
  <2>7. LeaseIsFresh'
    <3>1. silence <= MaxAge + IdleWait - IdleWait
      BY <1>1, TelemetryBounds DEF TelemetryInv, AgeIsSilence, TelemetryTypeOK
    <3>. QED BY <1>1, <2>5, <3>1, TelemetryBounds DEF TelemetryInv, LeaseIsFresh
  <2>8. DrivesOnRecentWord'
    BY <2>5 DEF TelemetryInv, DrivesOnRecentWord
  <2>. QED BY <2>6, <2>7, <2>8 DEF TelemetryInv
<1>2. CASE ~(age <= MaxAge /\ actor[a].report \in Standing)
  BY <1>2, RestsStep DEF AssertDrivePreconditions
<1>. QED BY <1>1, <1>2

\* The record of a command at another step, with other ticks left.
With(r, s, n) == [r EXCEPT !.step = s, !.left = n]

\* The next step of a mover has its type.
LEMMA MoverWith ==
  ASSUME NEW r \in Mover, NEW s \in FieldType.step, NEW n \in 0..IdleWait + MaxDrive
  PROVE  /\ With(r, s, n) \in Mover
         /\ With(r, s, n).step = s /\ With(r, s, n).left = n
         /\ With(r, s, n).report = r.report
BY DEF Mover, FieldType, With

\* A mover that rests has its type.
LEMMA RestingIsMover == Resting \in Mover /\ Resting.step = "idle"
BY TelemetryBounds DEF Resting, Mover

\* The stream begins: the wait for the lease becomes the time of the drive.
LEMMA DriveStep ==
  ASSUME TelemetryInv, NEW a \in Actors, Drives(a),
         UNCHANGED <<transport, online, sport, low, age, silence>>
  PROVE  TelemetryInv'
<1>1. actor \in [Actors -> Mover]
  BY DEF TelemetryInv, TelemetryTypeOK, Mover
<1>. DEFINE ended(b) == With(actor[b], "verify", 0)
<1>2. /\ actor'[a] = With(actor[a], "drive", MaxDrive)
      /\ actor' = [b \in Actors |-> actor'[b]]
      /\ \A b \in Actors \ {a} : actor'[b] \in {actor[b], ended(b), Resting}
  BY DEF Drives, With
<1>3. /\ actor'[a] \in Mover
      /\ actor'[a].step = "drive" /\ actor'[a].left = MaxDrive /\ actor'[a].report = actor[a].report
  <2>1. "drive" \in FieldType.step /\ MaxDrive \in 0..IdleWait + MaxDrive /\ actor[a] \in Mover
    BY <1>1, TelemetryBounds DEF FieldType
  <2>. QED BY <1>2, <2>1, MoverWith
<1>4. \A b \in Actors \ {a} : ended(b) \in Mover /\ ended(b).step = "verify"
  <2>1. "verify" \in FieldType.step /\ 0 \in 0..IdleWait + MaxDrive
    BY TelemetryBounds DEF FieldType
  <2>. QED BY <1>1, <2>1, MoverWith
<1>5. \A b \in Actors \ {a} :
        actor'[b] \in Mover /\ (actor'[b].step \in {"lease", "drive"} => actor'[b] = actor[b])
  <2>. SUFFICES ASSUME NEW b \in Actors \ {a}
                PROVE  actor'[b] \in Mover /\ (actor'[b].step \in {"lease", "drive"} => actor'[b] = actor[b])
    OBVIOUS
  <2>1. actor'[b] = actor[b] \/ actor'[b] = ended(b) \/ actor'[b] = Resting
    BY <1>2
  <2>. HIDE DEF ended
  <2>2. CASE actor'[b] = actor[b]
    BY <1>1, <2>2
  <2>3. CASE actor'[b] = ended(b)
    BY <1>4, <2>3
  <2>4. CASE actor'[b] = Resting
    BY <2>4, RestingIsMover
  <2>. QED BY <2>1, <2>2, <2>3, <2>4
<1>6. TelemetryTypeOK' /\ AgeIsSilence'
  BY <1>2, <1>3, <1>5 DEF TelemetryInv, TelemetryTypeOK, Mover, AgeIsSilence
<1>7. actor[a].report \in Standing /\ silence <= MaxAge + IdleWait + MaxDrive - MaxDrive
  <2>1. /\ actor[a].left \in Nat /\ silence \in Nat /\ actor[a].report \in Standing
        /\ silence <= MaxAge + IdleWait - actor[a].left
    <3>1. actor[a].left \in Nat /\ silence \in Nat
      BY <1>1, TelemetryBounds DEF TelemetryInv, TelemetryTypeOK, Mover
    <3>. QED BY <3>1 DEF TelemetryInv, LeaseIsFresh, Drives
  <2>. QED BY <2>1, TelemetryBounds
<1>8. LeaseIsFresh'
  BY <1>3, <1>5, TelemetryBounds DEF TelemetryInv, LeaseIsFresh
<1>9. DrivesOnRecentWord'
  BY <1>3, <1>5, <1>7 DEF TelemetryInv, DrivesOnRecentWord
<1>. QED BY <1>6, <1>8, <1>9 DEF TelemetryInv

\* Whoever has driven keeps the invariant.
LEMMA DriveEndsStep ==
  ASSUME TelemetryInv, NEW a \in Actors, DriveEnds(a),
         UNCHANGED <<transport, online, sport, low, age, silence>>
  PROVE  TelemetryInv'
<1>. DEFINE verify == [step |-> "verify", left |-> 0]
<1>1. DOMAIN verify = {"step", "left"} /\ verify["step"] = "verify"
  OBVIOUS
<1>2. \A f \in DOMAIN verify : f \in Fields /\ verify[f] \in FieldType[f]
  BY <1>1, TelemetryBounds DEF Fields, FieldType
<1>3. Becomes(a, verify) \/ Rests(a)
  BY DEF DriveEnds
<1>4. CASE Becomes(a, verify)
  BY <1>1, <1>2, <1>4, QuietStep
<1>. QED BY <1>3, <1>4, RestsStep

\* A tick: who waits or drives has one tick less, and the robot has been silent one more.
LEMMA TimeStep ==
  ASSUME TelemetryInv, TimePasses
  PROVE  TelemetryInv'
<1>1. /\ actor \in [Actors -> Mover] /\ silence \in 0..Long /\ age = silence
      /\ UNCHANGED <<transport, online, sport, low>>
  BY DEF TelemetryInv, TelemetryTypeOK, Mover, AgeIsSilence, TimePasses
<1>2. age' = silence' /\ silence' \in 0..Long /\ silence' <= silence + 1
  BY <1>1, TelemetryBounds DEF TimePasses
<1>3. \A b \in Actors :
        /\ actor'[b] \in Mover /\ actor'[b].step = actor[b].step /\ actor'[b].report = actor[b].report
        /\ actor[b].step \in {"lease", "drive"} => actor'[b].left = actor[b].left - 1
  <2>. SUFFICES ASSUME NEW b \in Actors
                PROVE  /\ actor'[b] \in Mover /\ actor'[b].step = actor[b].step
                       /\ actor'[b].report = actor[b].report
                       /\ actor[b].step \in {"lease", "drive"} => actor'[b].left = actor[b].left - 1
    OBVIOUS
  <2>1. actor[b].left \in 0..IdleWait + MaxDrive
    BY <1>1 DEF Mover
  <2>2. CASE actor[b].left > 0
    <3>1. actor'[b] = [actor[b] EXCEPT !.left = @ - 1]
      BY <2>2 DEF TimePasses
    <3>2. actor[b].left - 1 \in 0..IdleWait + MaxDrive
      BY <2>1, <2>2, TelemetryBounds
    <3>. QED BY <1>1, <3>1, <3>2 DEF Mover
  <2>3. CASE ~(actor[b].left > 0)
    BY <1>1, <2>3 DEF TimePasses
  <2>. QED BY <2>2, <2>3
<1>4. TelemetryTypeOK' /\ AgeIsSilence'
  <2>1. actor' = [b \in Actors |-> actor'[b]]
    BY DEF TimePasses
  <2>. QED BY <1>1, <1>2, <1>3, <2>1 DEF TelemetryInv, TelemetryTypeOK, Mover, AgeIsSilence
<1>5. ASSUME NEW b \in Actors, actor'[b].step = "lease"
      PROVE  /\ actor'[b].report \in Standing /\ actor'[b].left <= IdleWait
             /\ silence' <= MaxAge + IdleWait - actor'[b].left
  <2>1. actor[b].left \in Nat /\ silence \in Nat /\ silence' \in Nat
    BY <1>1, <1>2, TelemetryBounds DEF Mover
  <2>2. /\ actor[b].report \in Standing /\ actor[b].left <= IdleWait
        /\ silence <= MaxAge + IdleWait - actor[b].left
    BY <1>3, <1>5 DEF TelemetryInv, LeaseIsFresh
  <2>3. actor'[b].left = actor[b].left - 1 /\ actor'[b].report = actor[b].report
    BY <1>3, <1>5
  <2>. QED BY <1>2, <2>1, <2>2, <2>3, TelemetryBounds
<1>6. ASSUME NEW b \in Actors, actor'[b].step = "drive"
      PROVE  /\ actor'[b].report \in Standing /\ actor'[b].left <= MaxDrive
             /\ silence' <= MaxAge + IdleWait + MaxDrive - actor'[b].left
  <2>1. actor[b].left \in Nat /\ silence \in Nat /\ silence' \in Nat
    BY <1>1, <1>2, TelemetryBounds DEF Mover
  <2>2. /\ actor[b].report \in Standing /\ actor[b].left <= MaxDrive
        /\ silence <= MaxAge + IdleWait + MaxDrive - actor[b].left
    BY <1>3, <1>6 DEF TelemetryInv, LeaseIsFresh, DrivesOnRecentWord
  <2>3. actor'[b].left = actor[b].left - 1 /\ actor'[b].report = actor[b].report
    BY <1>3, <1>6
  <2>. QED BY <1>2, <2>1, <2>2, <2>3, TelemetryBounds
<1>7. LeaseIsFresh' /\ DrivesOnRecentWord'
  BY <1>5, <1>6 DEF LeaseIsFresh, DrivesOnRecentWord
<1>. QED BY <1>4, <1>7 DEF TelemetryInv

\* The connection and its callbacks: a close ends every wait for the lease and
\* every drive, and a new state makes everybody's word fresher.
LEMMA ConnectionStep ==
  ASSUME TelemetryInv, Opens \/ Closes \/ SportArrives \/ OnLowState
  PROVE  TelemetryInv'
<1>1. CASE Opens \/ OnLowState
  BY <1>1 DEF TelemetryInv, TelemetryTypeOK, AgeIsSilence, LeaseIsFresh, DrivesOnRecentWord,
              Opens, OnLowState
<1>2. CASE Closes
  <2>1. actor \in [Actors -> Mover]
    BY DEF TelemetryInv, TelemetryTypeOK, Mover
  <2>2. Resting \in Mover /\ Resting.step = "idle"
    BY RestingIsMover
  <2>3. \A b \in Actors : actor'[b] \in Mover /\ actor'[b].step \notin {"lease", "drive"}
    BY <1>2, <2>1, <2>2 DEF Closes
  <2>4. actor' = [b \in Actors |-> actor'[b]] /\ online' = FALSE
        /\ sport' \in {sport, "none"} /\ low' \in {low, "none"}
        /\ UNCHANGED <<transport, age, silence>>
    BY <1>2 DEF Closes
  <2>5. TelemetryTypeOK' /\ AgeIsSilence'
    BY <2>3, <2>4 DEF TelemetryInv, TelemetryTypeOK, Mover, AgeIsSilence
  <2>. QED BY <2>3, <2>5 DEF TelemetryInv, LeaseIsFresh, DrivesOnRecentWord
<1>3. CASE SportArrives
  <2>1. /\ sport' \in Reports \union {sport} /\ UNCHANGED <<transport, online, low, actor>>
        /\ (age' = age /\ silence' = silence) \/ (age' = 0 /\ silence' = 0)
    BY <1>3 DEF SportArrives, OnSportState, Reports
  <2>2. actor \in [Actors -> Mover] /\ silence \in Nat
    BY TelemetryBounds DEF TelemetryInv, TelemetryTypeOK, Mover
  <2>3. TelemetryTypeOK' /\ AgeIsSilence'
    BY <2>1, TelemetryBounds DEF TelemetryInv, TelemetryTypeOK, AgeIsSilence
  <2>4. silence' <= silence /\ silence' \in Nat
    BY <2>1, <2>2
  <2>5. \A b \in Actors : actor[b].left \in Nat
    BY <2>2, TelemetryBounds DEF Mover
  <2>6. LeaseIsFresh'
    BY <2>1, <2>2, <2>4, <2>5, TelemetryBounds DEF TelemetryInv, LeaseIsFresh
  <2>7. DrivesOnRecentWord'
    BY <2>1, <2>2, <2>4, <2>5, TelemetryBounds DEF TelemetryInv, DrivesOnRecentWord
  <2>. QED BY <2>3, <2>6, <2>7 DEF TelemetryInv
<1>. QED BY <1>1, <1>2, <1>3

\* Initially nobody drives and the robot has never been heard.
LEMMA TelemetryStarts == TelemetryInit => TelemetryInv
<1>. SUFFICES ASSUME TelemetryInit PROVE TelemetryInv
  OBVIOUS
<1>1. Resting \in Mover /\ Resting.step = "idle"
  BY RestingIsMover
<1>2. actor \in [Actors -> Mover] /\ \A a \in Actors : actor[a].step = "idle"
  BY <1>1 DEF TelemetryInit
<1>3. TelemetryTypeOK /\ AgeIsSilence
  <2>1. age \in 0..Long /\ silence \in 0..Long /\ age = silence
    BY TelemetryBounds DEF TelemetryInit
  <2>2. transport \in {"webrtc", "sdk"} /\ online = FALSE /\ sport = "none" /\ low = "none"
    BY DEF TelemetryInit
  <2>. QED BY <1>2, <2>1, <2>2 DEF TelemetryTypeOK, AgeIsSilence, Mover
<1>. QED BY <1>2, <1>3 DEF TelemetryInv, LeaseIsFresh, DrivesOnRecentWord

\* Every step keeps the invariant.
LEMMA TelemetryInvariance == TelemetryInv /\ [TelemetryNext]_telemetryVars => TelemetryInv'
<1>. SUFFICES ASSUME TelemetryInv, [TelemetryNext]_telemetryVars PROVE TelemetryInv'
  OBVIOUS
<1>1. CASE Opens \/ Closes \/ SportArrives \/ OnLowState
  BY <1>1, ConnectionStep
<1>2. CASE TimePasses
  BY <1>2, TimeStep
<1>3. CASE CommandBegins
  BY <1>3, BeginStep
<1>4. ASSUME NEW a \in Actors, ActorSteps(a) PROVE TelemetryInv'
  <2>1. UNCHANGED <<transport, online, sport, low, age, silence>>
    BY <1>4 DEF ActorSteps
  <2>. QED BY <1>4, <2>1, ReadStep, AgedStep, CheckStep, DriveStep, DriveEndsStep DEF
     ActorSteps
<1>5. CASE UNCHANGED telemetryVars
  BY <1>5 DEF telemetryVars, TelemetryInv, TelemetryTypeOK, AgeIsSilence, LeaseIsFresh,
     DrivesOnRecentWord
<1>. QED BY <1>1, <1>2, <1>3, <1>4, <1>5 DEF TelemetryNext

\* Whoever drives, the robot was reported standing, and it moves without a word
\* of it for no longer than the age limit, the wait for the lease and one segment
\* together: for any of these times (_assert_drive_preconditions, read_state).
THEOREM RecentWord == TelemetrySpec => []DrivesOnRecentWord
<1>1. TelemetryInv => DrivesOnRecentWord
  BY DEF TelemetryInv
<1>. QED BY <1>1, TelemetryStarts, TelemetryInvariance, PTL DEF TelemetrySpec
=============================================================================
