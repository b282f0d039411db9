--------------------------- MODULE RunRepoProofs ----------------------------
(***************************************************************************)
(* What holds of RunRepo and of the calls of Sandbox it makes for every    *)
(* number of runs, every timeout, every set of inputs and distributions.   *)
(***************************************************************************)
EXTENDS RunRepo, FiniteFacts

Setup == {"install", "fetch", "acquire", "resolve"}

\* An item is looked for when it is first named, and is then in `seen`.
Tried == \A i \in Items : tries[i] <= IF i \in seen THEN 1 ELSE 0

\* What came from the network is counted, and the count decides the flag.
Counted ==
  /\ auto # {} => fetched > 0
  /\ stage = "end" /\ meta # <<>> => result.flagged = (fetched > 0)

\* Which runs have been made where.
Staged ==
  /\ stage \in Setup \cup {"boot"} => meta = <<>>
  /\ stage = "run" => Len(meta) < K
  /\ stage = "close" => meta # <<>>

\* A machine that is not up any more has come to the end of its life.
Alive ==
  /\ stage \in Setup \cup {"run"} => sbx = "up" \/ clock = Life
  /\ stage = "end" => sbx # "up"

\* A call is being made only while the scan is in a sandbox.
Placed == at # "e2b" => stage = "idle"

IInv == TypeOK /\ Tried /\ Counted /\ Staged /\ Alive /\ Placed

\* The same for one call: what its steps preserve.
Sound == SandboxTypeOK /\ Tried /\ Counted /\ Staged /\ Alive

----------------------------------------------------------------------------
(* Numbers *)

LEMMA Parameters ==
  /\ K \in Nat \ {0} /\ Rounds \in Nat
  /\ InstTimeout \in Nat \ {0} /\ RunTimeout \in Nat \ {0}
  /\ Slack \in Nat \ {0} /\ Cap \in Nat \ {0}
  /\ Pull \in Nat /\ Floor \in Nat \ {0} /\ Pull < Floor
BY SandboxAssumption

LEMMA LifeIsPositive == Life \in Nat \ {0}
<1>1. K * RunTimeout \in Nat
  BY Parameters
<1>2. InstTimeout + K * RunTimeout + Slack \in Nat \ {0}
  BY <1>1, Parameters
<1> QED
  BY <1>2, Parameters DEF Life

LEMMA FilesFound ==
  ASSUME NEW got
  PROVE  /\ Cardinality(got \cap Files) \in Nat
         /\ got \cap Files # {} => Cardinality(got \cap Files) > 0
<1>1. IsFiniteSet(got \cap Files)
  <2>1. got \cap Files \subseteq Files
    OBVIOUS
  <2> QED
    BY <2>1, FS_Subset, SandboxAssumption
<1> QED
  BY <1>1, FS_CardinalityType, FS_EmptySet

\* The slowest run so far is one of them.
LEMMA SlowestOf ==
  ASSUME meta \in Seq(Meta), meta # <<>>
  PROVE  /\ Slowest \in Nat
         /\ \A i \in DOMAIN meta : meta[i].seconds \in Nat /\ Slowest >= meta[i].seconds
<1> DEFINE S == {meta[i].seconds : i \in DOMAIN meta}
<1>1. \A i \in DOMAIN meta : meta[i].seconds \in Nat
  <2>1. \A i \in DOMAIN meta : meta[i] \in Meta
    OBVIOUS
  <2> QED
    BY <2>1 DEF Meta
<1>2. S \in SUBSET Int /\ S # {}
  BY <1>1
<1>3. IsFiniteSet(S)
  <2>1. DOMAIN meta = 1..Len(meta) /\ Len(meta) \in Nat
    OBVIOUS
  <2>2. IsFiniteSet(DOMAIN meta)
    BY <2>1, FS_Interval
  <2>3. [i \in DOMAIN meta |-> meta[i].seconds] \in Surjection(DOMAIN meta, S)
    BY DEF Surjection
  <2> HIDE DEF S
  <2> QED
    BY <2>2, <2>3, FS_Surjection
<1>4. Max(S) \in S /\ \A y \in S : Max(S) >= y
  <2> HIDE DEF S
  <2> QED
    BY <1>2, <1>3, MaxOfFinite
<1>5. Slowest = Max(S)
  BY DEF Slowest
<1> QED
  BY <1>1, <1>4, <1>5

\* What a re-run that fits may take, the copy of its capture included, is left:
\* its limit is what is left without the floor or, of less, one second, which
\* the floor has room for.
LEMMA LimitFits ==
  ASSUME meta \in Seq(Meta), meta # <<>>, clock \in 0..Life, Fits,
         NEW t \in 0..Limit, NEW pull \in 0..Pull
  PROVE  clock + t + pull <= Life /\ clock # Life
<1> USE Parameters
<1>1. Life \in Nat /\ Remaining \in Nat /\ Remaining = Life - clock /\ clock \in Nat
  BY LifeIsPositive DEF Remaining
<1>2. Slowest \in Nat
  BY SlowestOf
<1>3. Remaining * 100 >= Slowest * 115 + Floor * 100
  BY DEF Fits
<1>4. Remaining >= Floor /\ clock # Life
  BY <1>1, <1>2, <1>3
<1>5. PICK m \in Int : /\ m = Min({RunTimeout, Remaining - Floor})
                       /\ m <= Remaining - Floor
  <2>1. RunTimeout \in Int /\ Remaining - Floor \in Int
    BY <1>1
  <2>2. Min({RunTimeout, Remaining - Floor})
          = IF RunTimeout <= Remaining - Floor THEN RunTimeout ELSE Remaining - Floor
    BY ONLY <2>1, OfTwo, Zenon
  <2> QED
    BY <2>1, <2>2
<1>6. Limit = IF 1 >= m THEN 1 ELSE m
  <2>1. Limit = Max({1, m})
    BY <1>5 DEF Limit
  <2>2. 1 \in Int
    OBVIOUS
  <2>3. Max({1, m}) = IF 1 >= m THEN 1 ELSE m
    BY ONLY <1>5, <2>2, OfTwo, Zenon
  <2> QED
    BY <2>1, <2>3
<1> QED
  BY <1>1, <1>4, <1>5, <1>6

----------------------------------------------------------------------------
(* One call *)

\* A step that raises.
LEMMA RaisingKeepsSound ==
  ASSUME Sound, stage \in Setup \cup {"boot"}, SetupError
  PROVE  Sound'
<1> USE DEF SetupError
<1>1. SandboxTypeOK'
  BY DEF Sound, SandboxTypeOK, progress, acquisition, outcome, Release, NoResult, Result
<1>2. Tried'
  BY DEF Sound, Tried, acquisition, progress, outcome, Life
<1>3. Counted' /\ Staged' /\ Alive'
  BY DEF Sound, Counted, Staged, Alive, outcome, Setup, Release
<1> QED
  BY <1>1, <1>2, <1>3 DEF Sound

\* The call's beginning, or its end: nothing is kept.
LEMMA BegunIsSound ==
  ASSUME NEW s \in {"boot", "idle"}, NEW c \in Call, Begun(s, c)
  PROVE  Sound'
<1> USE DEF Begun
<1>1. SandboxTypeOK'
  <2>1. 0 \in 0..Life /\ 0 \in 0..Rounds /\ [i \in Items |-> 0] \in [Items -> Nat]
    BY LifeIsPositive, Parameters
  <2>2. NoResult \in Result
    BY DEF NoResult, Result
  <2>3. <<>> \in Seq(Meta) /\ <<>> \in Seq(BOOLEAN) /\ Len(<<>>) = 0 /\ 0 <= K
    BY Parameters
  <2>4. (clock \in 0..Life)' /\ (call \in Call)'
    BY <2>1 DEF Life, Call
  <2>5. (meta \in Seq(Meta))' /\ (result \in Result)' /\ (Len(runs) = Len(meta) /\ Len(meta) <= K)'
    BY <2>2, <2>3 DEF Meta, Result
  <2> QED
    BY <2>1, <2>3, <2>4, <2>5 DEF SandboxTypeOK, Items
<1>2. Tried'
  BY DEF Tried
<1>3. Counted' /\ Staged' /\ Alive'
  BY DEF Counted, Staged, Alive, Setup
<1> QED
  BY <1>1, <1>2, <1>3 DEF Sound

LEMMA BootKeepsSound ==
  ASSUME Sound, Boot
  PROVE  Sound'
<1>1. CASE SetupError
  BY <1>1, RaisingKeepsSound DEF Boot, Setup
<1>2. CASE /\ sbx' = "up" /\ stage' = "install"
           /\ UNCHANGED <<call, progress, acquisition, fetched, auto, outcome, result>>
  <2> USE <1>2 DEF progress, acquisition, outcome
  <2>1. SandboxTypeOK'
    BY DEF Sound, SandboxTypeOK
  <2>2. Tried' /\ Counted'
    BY DEF Sound, Tried, Counted, Life
  <2>3. Staged' /\ Alive'
    BY DEF Boot, Sound, Staged, Alive, Setup
  <2> QED
    BY <2>1, <2>2, <2>3 DEF Sound
<1> QED
  BY <1>1, <1>2 DEF Boot

\* A step of the setup that goes on, whatever it installs or fetches.
LEMMA SetupKeepsSound ==
  ASSUME Sound, stage \in Setup,
         stage' \in Setup \cup {"run"},
         SandboxTypeOK', Tried',
         auto' # {} => fetched' > 0,
         sbx' = "up" \/ clock' = Life,
         UNCHANGED outcome
  PROVE  Sound'
<1> USE DEF outcome, Setup
<1>1. meta = <<>> /\ meta' = <<>>
  BY DEF Sound, Staged
<1>2. Len(meta') < K
  BY <1>1, Parameters
<1>3. Staged'
  BY <1>1, <1>2 DEF Staged
<1>4. Counted' /\ Alive'
  BY DEF Counted, Alive, Life
<1> QED
  BY <1>3, <1>4 DEF Sound

LEMMA AfterInstallStage ==
  ASSUME Sound, AfterInstall
  PROVE  stage' \in {"fetch", "acquire", "run"}
BY DEF AfterInstall, Sound, SandboxTypeOK, Call

LEMMA InstallKeepsSound ==
  ASSUME Sound, Install \/ BumpPython
  PROVE  Sound'
<1> USE DEF acquisition, outcome, Setup
<1>1. CASE Install
  <2>1. PICK got \in Installs(call.strict), t \in {0, InstTimeout} :
          clock + t < Life /\ has' = has \cup got /\ clock' = clock + t
    BY <1>1 DEF Install
  <2>2. got \subseteq Deps
    <3>1. call.pip \subseteq Deps /\ got \subseteq call.pip
      BY <2>1 DEF Installs, Sound, SandboxTypeOK, Call
    <3> QED
      BY <3>1
  <2>3. clock' \in 0..Life
    BY <2>1, LifeIsPositive, Parameters DEF Sound, SandboxTypeOK
  <2>4. stage' \in {"fetch", "acquire", "run"}
    BY <1>1, AfterInstallStage DEF Install
  <2>5. SandboxTypeOK'
    BY <1>1, <2>1, <2>2, <2>3, <2>4 DEF Install, Sound, SandboxTypeOK, Life
  <2>6. Tried' /\ (auto' # {} => fetched' > 0)
    BY <1>1 DEF Install, Sound, Tried, Counted
  <2>7. clock # Life /\ sbx' = sbx
    BY <1>1, <2>1, LifeIsPositive, Parameters DEF Install, Sound, SandboxTypeOK
  <2>8. sbx' = "up"
    BY <1>1, <2>7 DEF Install, Sound, Alive
  <2> QED
    BY <1>1, <2>4, <2>5, <2>6, <2>8, SetupKeepsSound DEF Install
<1>2. CASE BumpPython
  <2>1. SandboxTypeOK'
    BY <1>2 DEF BumpPython, Sound, SandboxTypeOK, Life
  <2>2. Tried' /\ (auto' # {} => fetched' > 0)
    BY <1>2 DEF BumpPython, Sound, Tried, Counted
  <2>3. sbx' = "up" \/ clock' = Life
    BY <1>2 DEF BumpPython, Sound, Alive
  <2> QED
    BY <1>2, <2>1, <2>2, <2>3, SetupKeepsSound DEF BumpPython
<1> QED
  BY <1>1, <1>2

LEMMA RelaxPinsKeepsSound ==
  ASSUME Sound, RelaxPins
  PROVE  Sound'
<1> USE DEF acquisition, outcome, Setup
<1>1. CASE SetupError
  BY <1>1, RaisingKeepsSound DEF RelaxPins
<1>2. CASE ~SetupError
  <2>1. PICK got \in Installs(FALSE) : has' = has \cup got
    BY <1>2 DEF RelaxPins
  <2>2. /\ AfterInstall
        /\ UNCHANGED <<call, sbx, clock, ladder, acquisition, fetched, auto, outcome, result>>
    BY <1>2 DEF RelaxPins
  <2>3. got \subseteq Deps
    BY <2>1 DEF Installs, Sound, SandboxTypeOK, Call
  <2>4. stage' \in {"fetch", "acquire", "run"}
    BY <2>2, AfterInstallStage
  <2>5. SandboxTypeOK'
    BY <2>1, <2>2, <2>3, <2>4 DEF Sound, SandboxTypeOK, Life
  <2>6. Tried' /\ (auto' # {} => fetched' > 0)
    BY <2>2 DEF Sound, Tried, Counted
  <2>7. sbx' = "up" \/ clock' = Life
    BY <2>2 DEF RelaxPins, Sound, Alive
  <2> QED
    BY <2>2, <2>4, <2>5, <2>6, <2>7, SetupKeepsSound DEF RelaxPins
<1> QED
  BY <1>1, <1>2

LEMMA FetchSourcesKeepsSound ==
  ASSUME Sound, FetchSources
  PROVE  Sound'
<1> USE DEF progress, acquisition, outcome, Setup
<1>1. PICK got \in SUBSET Files :
        auto' = auto \cup got /\ fetched' = fetched + Cardinality(got)
  BY DEF FetchSources
<1>2. Cardinality(got) \in Nat /\ (got # {} => Cardinality(got) > 0)
  <2>1. got \cap Files = got
    OBVIOUS
  <2> QED
    BY <2>1, FilesFound
<1>3. fetched \in Nat /\ auto \subseteq Files /\ (auto # {} => fetched > 0)
  BY DEF Sound, SandboxTypeOK, Counted
<1>4. fetched' \in Nat /\ auto' \subseteq Files /\ (auto' # {} => fetched' > 0)
  BY <1>1, <1>2, <1>3
<1>5. SandboxTypeOK'
  BY <1>4 DEF FetchSources, Sound, SandboxTypeOK, Life
<1>6. Tried' /\ (sbx' = "up" \/ clock' = Life)
  BY DEF FetchSources, Sound, Tried, Alive
<1> QED
  BY <1>4, <1>5, <1>6, SetupKeepsSound DEF FetchSources

\* What an acquisition forgets when it is over.
LEMMA OverForgets ==
  ASSUME Sound, Over
  PROVE  /\ stage' = "run" /\ Tried'
         /\ named' \subseteq Items /\ seen' \subseteq Items
         /\ round' \in 0..Rounds /\ tries' \in [Items -> Nat]
<1>1. 0 \in 0..Rounds
  BY Parameters
<1> QED
  BY <1>1 DEF Over, Tried, Items

LEMMA AcquireKeepsSound ==
  ASSUME Sound, Acquire \/ ResolvedEnough
  PROVE  Sound'
<1> USE DEF progress, outcome, Setup
<1>1. /\ stage \in Setup /\ stage' \in Setup \cup {"run"}
      /\ UNCHANGED <<call, sbx, progress, fetched, auto, outcome, result>>
  BY DEF Acquire, ResolvedEnough, Over
<1>2. /\ named' \subseteq Items /\ seen' \subseteq Items
      /\ round' \in 0..Rounds /\ tries' \in [Items -> Nat] /\ Tried'
  <2>1. CASE Over
    BY <2>1, OverForgets
  <2>2. CASE ~Over
    BY <2>2 DEF Acquire, ResolvedEnough, Sound, SandboxTypeOK, Tried, Items
  <2> QED
    BY <2>1, <2>2
<1>3. SandboxTypeOK'
  BY <1>1, <1>2 DEF Sound, SandboxTypeOK, Life, Items
<1>4. (auto' # {} => fetched' > 0) /\ (sbx' = "up" \/ clock' = Life)
  BY <1>1 DEF Sound, Counted, Alive
<1> QED
  BY <1>1, <1>2, <1>3, <1>4, SetupKeepsSound

LEMMA ResolveKeepsSound ==
  ASSUME Sound, Resolve
  PROVE  Sound'
<1> USE DEF progress, outcome, Setup
<1> DEFINE new == named \ seen
<1>1. PICK got \in SUBSET new :
        /\ auto' = auto \cup (got \cap Files)
        /\ fetched' = fetched + Found(got)
        /\ \/ Over
           \/ /\ got # {}
              /\ round' = round + 1
              /\ tries' = [i \in Items |-> IF i \in new THEN tries[i] + 1 ELSE tries[i]]
              /\ seen' = Attempted(new, got)
              /\ stage' = "resolve" /\ named' \in SUBSET Items
  BY DEF Resolve
<1>2. /\ stage = "resolve" /\ round < Rounds
      /\ UNCHANGED <<call, sbx, progress, outcome, result>>
  BY DEF Resolve
<1>3. fetched' \in Nat /\ auto' \subseteq Files /\ (auto' # {} => fetched' > 0)
  <2>1. fetched \in Nat /\ auto \subseteq Files /\ (auto # {} => fetched > 0)
    BY DEF Sound, SandboxTypeOK, Counted
  <2>2. Found(got) \in Nat /\ (got \cap Files # {} => Found(got) > 0)
    BY FilesFound DEF Found
  <2> QED
    BY <1>1, <2>1, <2>2
<1>4. /\ named \subseteq Items /\ seen \subseteq Items /\ round \in 0..Rounds
      /\ tries \in [Items -> Nat] /\ Tried
  BY DEF Sound, SandboxTypeOK
<1>5. /\ stage' \in Setup \cup {"run"}
      /\ named' \subseteq Items /\ seen' \subseteq Items
      /\ round' \in 0..Rounds /\ tries' \in [Items -> Nat] /\ Tried'
  <2>1. CASE Over
    BY <2>1, OverForgets
  <2>2. CASE ~Over
    <3>1. /\ round' = round + 1
          /\ tries' = [i \in Items |-> IF i \in new THEN tries[i] + 1 ELSE tries[i]]
          /\ seen' = seen \cup new
          /\ stage' = "resolve" /\ named' \subseteq Items
      BY <1>1, <2>2 DEF Attempted
    <3>2. round' \in 0..Rounds
      BY <1>2, <1>4, <3>1, Parameters
    <3>3. tries' \in [Items -> Nat] /\ seen' \subseteq Items
      BY <1>4, <3>1
    <3>4. ASSUME NEW i \in Items
          PROVE  tries'[i] <= IF i \in seen' THEN 1 ELSE 0
      <4>1. tries[i] <= (IF i \in seen THEN 1 ELSE 0) /\ tries[i] \in Nat
        BY <1>4 DEF Tried
      <4>2. tries'[i] = IF i \in new THEN tries[i] + 1 ELSE tries[i]
        BY <3>1
      <4> QED
        BY <3>1, <4>1, <4>2
    <3>5. Tried'
      BY <3>4 DEF Tried, Items
    <3> QED
      BY <3>1, <3>2, <3>3, <3>5
  <2> QED
    BY <2>1, <2>2
<1>6. SandboxTypeOK'
  BY <1>2, <1>3, <1>5 DEF Sound, SandboxTypeOK, Life, Items
<1>7. sbx' = "up" \/ clock' = Life
  BY <1>2 DEF Sound, Alive
<1> QED
  BY <1>2, <1>3, <1>5, <1>6, <1>7, SetupKeepsSound

LEMMA ExpireKeepsSound ==
  ASSUME Sound, Expire
  PROVE  Sound'
<1> USE DEF outcome, Setup
<1>1. /\ stage \in Setup /\ clock' = Life /\ sbx' = "gone"
      /\ UNCHANGED <<call, has, ladder, fetched, auto, outcome, result>>
  BY DEF Expire
<1>2. /\ stage' = "run" /\ Tried'
      /\ named' \subseteq Items /\ seen' \subseteq Items
      /\ round' \in 0..Rounds /\ tries' \in [Items -> Nat]
  BY OverForgets DEF Expire
<1>3. Life \in 0..Life /\ Life' = Life
  BY LifeIsPositive DEF Life
<1>4. SandboxTypeOK'
  BY <1>1, <1>2, <1>3 DEF Sound, SandboxTypeOK, Items
<1>5. auto' # {} => fetched' > 0
  BY <1>1 DEF Sound, Counted
<1> QED
  BY <1>1, <1>2, <1>4, <1>5, SetupKeepsSound

LEMMA SkipRerunKeepsSound ==
  ASSUME Sound, SkipRerun
  PROVE  Sound'
<1> USE DEF SkipRerun, progress, acquisition
<1>1. SandboxTypeOK'
  BY DEF Sound, SandboxTypeOK, Life
<1>2. Tried' /\ Counted'
  BY DEF Sound, Tried, Counted, Life
<1>3. Staged' /\ Alive'
  BY DEF Sound, Staged, Alive, Setup
<1> QED
  BY <1>1, <1>2, <1>3 DEF Sound

LEMMA CloseKeepsSound ==
  ASSUME Sound, Close
  PROVE  Sound'
<1> USE DEF Close, progress, acquisition, outcome
<1>1. result' \in Result /\ result'.flagged = (fetched > 0)
  <2>1. \A i \in DOMAIN meta : meta[i] \in Meta
    BY DEF Sound, SandboxTypeOK
  <2>2. UNION {meta[i].missing : i \in DOMAIN meta} \subseteq Deps
    BY <2>1 DEF Meta
  <2>3. runs[1] \in BOOLEAN
    <3>1. 1 \in DOMAIN runs
      BY DEF Sound, Staged, SandboxTypeOK
    <3> QED
      BY <3>1 DEF Sound, SandboxTypeOK
  <2>4. fetched \in Nat
    BY DEF Sound, SandboxTypeOK
  <2> QED
    BY <2>2, <2>3, <2>4 DEF Result
<1>2. SandboxTypeOK'
  BY <1>1 DEF Sound, SandboxTypeOK, Life, Result
<1>3. Tried'
  BY DEF Sound, Tried, Life
<1>4. Counted' /\ Staged' /\ Alive'
  BY <1>1 DEF Sound, Counted, Staged, Alive, Setup
<1> QED
  BY <1>2, <1>3, <1>4 DEF Sound

\* A run: the machine is gone only at the end of its life.
LEMMA RunKeepsSound ==
  ASSUME Sound, Run
  PROVE  Sound' /\ (meta # <<>> => sbx' = "up")
<1>1. PICK t \in 0..Limit, pull \in 0..Pull :
        LET alive == sbx = "up" /\ clock + t + pull <= Life
            s == IF alive THEN t + pull ELSE Life - clock
        IN  /\ clock' = clock + s
            /\ sbx' = IF alive THEN "up" ELSE "gone"
            /\ \E m \in Outcomes(s, alive), wrote \in BOOLEAN :
                 /\ m.killed => t = Limit \/ ~alive
                 /\ wrote => alive
                 /\ Ran(m, wrote)
  BY DEF Run
<1> DEFINE alive == sbx = "up" /\ clock + t + pull <= Life
           s == IF alive THEN t + pull ELSE Life - clock
<1>2. PICK m \in Outcomes(s, alive), wrote \in BOOLEAN : Ran(m, wrote)
  BY <1>1
<1>3. clock' = clock + s /\ sbx' = (IF alive THEN "up" ELSE "gone")
  BY <1>1
<1>4. stage = "run" /\ (meta = <<>> \/ Fits)
  BY DEF Run
<1>5. clock \in 0..Life /\ Life \in Nat /\ t \in Nat /\ pull \in Nat
  BY LifeIsPositive, Parameters DEF Sound, SandboxTypeOK
<1>6. /\ s \in Nat /\ clock' \in 0..Life
      /\ ~alive => clock' = Life
  <2>1. CASE alive
    BY <1>3, <1>5, <2>1
  <2>2. CASE ~alive
    <3>1. sbx # "up" => clock = Life
      BY <1>4 DEF Sound, Alive
    <3> QED
      BY <1>3, <1>5, <2>2, <3>1
  <2> QED
    BY <2>1, <2>2
<1>7. meta \in Seq(Meta) /\ runs \in Seq(BOOLEAN) /\ Len(runs) = Len(meta) /\ Len(meta) < K
  BY <1>4 DEF Sound, SandboxTypeOK, Staged
<1>8. m \in Meta /\ m.seconds = s
  <2>1. m \in [rc : BOOLEAN, killed : BOOLEAN, missing : SUBSET Needs, seconds : {s}]
    BY DEF Outcomes
  <2>2. m.missing \subseteq Deps
    BY <2>1, SandboxAssumption
  <2> QED
    BY <1>6, <2>1, <2>2 DEF Meta
<1> HIDE DEF alive, s
<1>9. /\ meta' = Append(meta, m) /\ runs' = Append(runs, Sample(m, wrote))
      /\ capped' = (capped \/ (meta # <<>> /\ m.killed))
      /\ stage' = IF Len(meta') = K THEN "close" ELSE "run"
      /\ UNCHANGED <<call, has, ladder, acquisition, fetched, auto, result>>
  BY <1>2 DEF Ran
<1>10. Sample(m, wrote) \in BOOLEAN /\ m.killed \in BOOLEAN
  BY <1>8 DEF Sample, Meta
<1>11. /\ meta' \in Seq(Meta) /\ runs' \in Seq(BOOLEAN)
       /\ Len(meta') = Len(meta) + 1 /\ Len(runs') = Len(meta') /\ Len(meta') <= K
       /\ meta' # <<>>
       /\ \A i \in DOMAIN meta' : meta'[i] = IF i = Len(meta') THEN m ELSE meta[i]
       /\ DOMAIN meta' = 1..(Len(meta) + 1) /\ DOMAIN meta = 1..Len(meta)
  BY <1>7, <1>8, <1>9, <1>10, Parameters
<1>12. meta # <<>> => alive
  <2>1. ASSUME meta # <<>>
        PROVE  clock + t + pull <= Life /\ clock # Life
    BY <1>4, <1>5, <1>7, <2>1, LimitFits DEF Sound
  <2>2. meta # <<>> => sbx = "up"
    BY <1>4, <2>1 DEF Sound, Alive
  <2> QED
    BY <2>1, <2>2 DEF alive
<1>13. SandboxTypeOK'
  <2>1. capped' \in BOOLEAN
    BY <1>9, <1>10 DEF Sound, SandboxTypeOK
  <2>2. UNCHANGED <<call, has, ladder, named, seen, round, tries, fetched, auto, result>>
    BY <1>9 DEF acquisition
  <2>3. stage' \in {"close", "run"} /\ sbx' \in {"up", "gone"}
    BY <1>3, <1>9
  <2> QED
    BY <1>6, <1>11, <2>1, <2>2, <2>3 DEF Sound, SandboxTypeOK, Life, Meta
<1>14. Tried' /\ Counted'
  BY <1>9 DEF acquisition, Sound, Tried, Counted, Items
<1>15. Staged'
  <2>1. stage' = "run" => Len(meta') < K
    <3>1. Len(meta') \in Nat /\ Len(meta') <= K /\ K \in Nat
      BY <1>7, <1>11, Parameters
    <3> QED
      BY <1>9, <3>1
  <2>2. stage' \in {"run", "close"} /\ meta' # <<>>
    BY <1>9, <1>11
  <2> QED
    BY <2>1, <2>2 DEF Staged, Setup
<1>16. Alive'
  BY <1>3, <1>6, <1>9 DEF Alive, Setup, Life
<1> QED
  BY <1>3, <1>12, <1>13, <1>14, <1>15, <1>16 DEF Sound

LEMMA SessionKeepsSound ==
  ASSUME Sound, Session
  PROVE  Sound' /\ (meta # <<>> /\ meta' # meta => sbx' = "up")
<1>1. CASE Run
  BY <1>1, RunKeepsSound
<1>2. CASE Boot \/ SetupFails
  BY <1>2, BootKeepsSound, RaisingKeepsSound DEF SetupFails, Setup, Boot, SetupError, outcome
<1>3. CASE Install \/ BumpPython \/ RelaxPins
  BY <1>3, InstallKeepsSound, RelaxPinsKeepsSound
     DEF Install, BumpPython, RelaxPins, SetupError, outcome
<1>4. CASE FetchSources \/ Acquire \/ Resolve \/ ResolvedEnough \/ Expire
  BY <1>4, FetchSourcesKeepsSound, AcquireKeepsSound, ResolveKeepsSound, ExpireKeepsSound
     DEF FetchSources, Acquire, Resolve, ResolvedEnough, Expire, outcome
<1>5. CASE SkipRerun \/ Close
  BY <1>5, SkipRerunKeepsSound, CloseKeepsSound DEF SkipRerun, Close, outcome
<1> QED
  BY <1>1, <1>2, <1>3, <1>4, <1>5 DEF Session

----------------------------------------------------------------------------
(* The scans of one tree *)

\* The variables of the scan itself.
ScanTypeOK ==
  /\ at \in {"idle", "e2b", "local", "ran", "heal", "repair", "done"}
  /\ scan \in 0..Scans
  /\ pip \subseteq Deps /\ held \subseteq Deps
  /\ left \in 0..(HealTries + RepairSteps)
  /\ added \subseteq Deps
  /\ python \in {"base", "venv"} /\ venv \subseteq Deps
  /\ bank \subseteq SUBSET Deps /\ hints \subseteq Deps

LEMMA InvariantParts == IInv <=> Sound /\ ScanTypeOK /\ Placed
BY DEF IInv, Sound, ScanTypeOK, TypeOK

\* A host run's result touches nothing of a call, for there is none.
LEMMA HostRunKeepsSound ==
  ASSUME Sound, stage = "idle", result' \in Result,
         UNCHANGED <<stage, call, sbx, progress, acquisition, fetched, auto, outcome>>
  PROVE  Sound'
<1> USE DEF progress, acquisition, outcome
<1>1. SandboxTypeOK'
  BY DEF Sound, SandboxTypeOK, Life, Result
<1>2. Tried' /\ Counted'
  BY DEF Sound, Tried, Counted, Life, Items
<1>3. Staged' /\ Alive'
  BY DEF Sound, Staged, Alive, Setup
<1> QED
  BY <1>1, <1>2, <1>3 DEF Sound

LEMMA StutterKeepsSound ==
  ASSUME Sound, UNCHANGED sandbox
  PROVE  Sound'
<1> USE DEF sandbox, progress, acquisition, outcome
<1>1. SandboxTypeOK'
  BY DEF Sound, SandboxTypeOK, Life, Result
<1>2. Tried' /\ Counted'
  BY DEF Sound, Tried, Counted, Life, Items
<1>3. Staged' /\ Alive'
  BY DEF Sound, Staged, Alive, Setup
<1> QED
  BY <1>1, <1>2, <1>3 DEF Sound

LEMMA HostResults ==
  ASSUME NEW installed
  PROVE  LocalResults(installed) \subseteq Result
BY DEF LocalResults

LEMMA ScanBounds == HealTries \in Nat /\ RepairSteps \in Nat /\ Scans \in Nat
BY RunRepoAssumption

LEMMA StepKeepsSound ==
  ASSUME IInv, Next
  PROVE  Sound' /\ (meta # <<>> /\ meta' # meta /\ meta' # <<>> => sbx' = "up")
<1>1. Sound /\ ScanTypeOK /\ Placed
  BY InvariantParts
<1>2. CASE StartE2B
  <2>1. PICK explicit \in BOOLEAN, acquire \in BOOLEAN, fetch \in BOOLEAN :
          \E p \in Plans(explicit) :
            Begun("boot", [pip |-> p[1], strict |-> p[2], acquire |-> acquire, fetch |-> fetch])
    BY <1>2 DEF StartE2B
  <2>2. PICK p \in Plans(explicit) :
          Begun("boot", [pip |-> p[1], strict |-> p[2], acquire |-> acquire, fetch |-> fetch])
    BY <2>1
  <2>3. p[1] \subseteq Deps /\ p[2] \in BOOLEAN
    BY <1>1, RunRepoAssumption DEF Plans, ScanTypeOK
  <2>4. [pip |-> p[1], strict |-> p[2], acquire |-> acquire, fetch |-> fetch] \in Call
    BY <2>3 DEF Call
  <2>5. meta' = <<>>
    BY <2>2 DEF Begun
  <2> QED
    BY <2>2, <2>4, <2>5, BegunIsSound
<1>3. CASE SandboxStep
  BY <1>1, <1>3, SessionKeepsSound DEF SandboxStep
<1>4. CASE Heal
  <2>1. PICK d \in result.missing :
          Begun("boot", [pip |-> pip \cup {d}, strict |-> call.strict,
                         acquire |-> FALSE, fetch |-> FALSE])
    BY <1>4 DEF Heal
  <2>2. pip \subseteq Deps /\ d \in Deps /\ call.strict \in BOOLEAN
    BY <1>1 DEF Sound, SandboxTypeOK, ScanTypeOK, Result, Call
  <2>3. [pip |-> pip \cup {d}, strict |-> call.strict, acquire |-> FALSE, fetch |-> FALSE] \in Call
    BY <2>2 DEF Call
  <2>4. meta' = <<>>
    BY <2>1 DEF Begun
  <2> QED
    BY <2>1, <2>3, <2>4, BegunIsSound
<1>5. CASE FinishE2B \/ FinishLocal
  <2>1. Begun("idle", NoCall)
    BY <1>5 DEF FinishE2B, FinishLocal
  <2>2. NoCall \in Call
    BY DEF NoCall, Call
  <2>3. meta' = <<>>
    BY <2>1 DEF Begun
  <2> QED
    BY <2>1, <2>2, <2>3, BegunIsSound
<1>6. CASE StartLocal
  BY <1>1, <1>6, StutterKeepsSound DEF StartLocal, sandbox, outcome
<1>7. CASE RunLocal \/ Retry \/ HealLocal \/ Repair
  <2>1. stage = "idle"
    BY <1>1, <1>7 DEF Placed, RunLocal, Retry, HealLocal, Repair
  <2>2. UNCHANGED <<stage, call, sbx, progress, acquisition, fetched, auto, outcome>>
    BY <1>7 DEF RunLocal, Retry, HealLocal, Repair
  <2>3. result' \in Result
    <3>1. result \in Result
      BY <1>1 DEF Sound, SandboxTypeOK
    <3> QED
      BY <1>7, <3>1, HostResults DEF RunLocal, Retry, HealLocal, Repair
  <2>4. meta' = meta
    BY <2>2 DEF outcome
  <2> QED
    BY <1>1, <2>1, <2>2, <2>3, <2>4, HostRunKeepsSound
<1> QED
  BY <1>2, <1>3, <1>4, <1>5, <1>6, <1>7 DEF Next

LEMMA StepKeepsPlaced ==
  ASSUME IInv, Next
  PROVE  Placed'
<1>1. Placed
  BY DEF IInv
<1>2. CASE StartE2B \/ SandboxStep \/ Heal
  BY <1>2 DEF StartE2B, SandboxStep, Heal, Placed
<1>3. CASE FinishE2B \/ FinishLocal
  BY <1>3 DEF FinishE2B, FinishLocal, Begun, Placed
<1>4. CASE StartLocal
  BY <1>1, <1>4 DEF StartLocal, sandbox, Placed
<1>5. CASE RunLocal \/ Retry \/ HealLocal \/ Repair
  BY <1>1, <1>5 DEF RunLocal, Retry, HealLocal, Repair, Placed
<1> QED
  BY <1>2, <1>3, <1>4, <1>5 DEF Next

LEMMA StepKeepsScanTypes ==
  ASSUME IInv, Next
  PROVE  ScanTypeOK'
<1> USE DEF caches, interpreters, plan
<1>1. ScanTypeOK /\ result \in Result
  BY InvariantParts DEF Sound, SandboxTypeOK
<1>2. CASE StartE2B
  <2>1. PICK explicit \in BOOLEAN : \E p \in Plans(explicit) : pip' = p[1] /\ held' = p[1]
    BY <1>2 DEF StartE2B
  <2>2. PICK p \in Plans(explicit) : pip' = p[1] /\ held' = p[1]
    BY <2>1
  <2>3. p[1] \subseteq Deps
    BY <1>1, RunRepoAssumption DEF Plans, ScanTypeOK
  <2>4. scan' \in 0..Scans /\ left' \in 0..(HealTries + RepairSteps)
    BY <1>1, <1>2, ScanBounds DEF StartE2B, ScanTypeOK
  <2> QED
    BY <1>1, <1>2, <2>2, <2>3, <2>4 DEF StartE2B, ScanTypeOK
<1>3. CASE SandboxStep
  BY <1>1, <1>3 DEF SandboxStep, ScanTypeOK
<1>4. CASE Heal
  <2>1. result.missing \subseteq Deps
    BY <1>1 DEF Result
  <2>2. left' \in 0..(HealTries + RepairSteps)
    BY <1>1, <1>4, ScanBounds DEF Heal, Retries, ScanTypeOK
  <2> QED
    BY <1>1, <1>4, <2>1, <2>2 DEF Heal, ScanTypeOK
<1>5. CASE FinishE2B
  <2>1. hints' \subseteq Deps /\ bank' \subseteq SUBSET Deps
    BY <1>1, <1>5 DEF FinishE2B, Hinted, ScanTypeOK
  <2> QED
    BY <1>1, <1>5, <2>1, ScanBounds DEF FinishE2B, ScanTypeOK
<1>6. CASE StartLocal
  <2>1. PICK p \in Lists \cup {{}} :
          /\ pip' = p /\ held' = p
          /\ python' = IF p = {} THEN "base" ELSE "venv"
          /\ \/ venv' = p /\ at' = "local"
             \/ p # {} /\ venv' = {} /\ at' = "idle"
    BY <1>6 DEF StartLocal
  <2>2. p \subseteq Deps
    BY RunRepoAssumption
  <2>3. scan' \in 0..Scans
    BY <1>1, <1>6, ScanBounds DEF StartLocal, ScanTypeOK
  <2> QED
    BY <1>1, <1>6, <2>1, <2>2, <2>3, ScanBounds DEF StartLocal, ScanTypeOK
<1>7. CASE RunLocal \/ Retry
  <2>1. left' \in 0..(HealTries + RepairSteps)
    BY <1>1, <1>7, ScanBounds DEF RunLocal, Retry, ScanTypeOK
  <2> QED
    BY <1>1, <1>7, <2>1 DEF RunLocal, Retry, ScanTypeOK
<1>8. CASE HealLocal \/ Repair
  <2>1. left' \in 0..(HealTries + RepairSteps)
    BY <1>1, <1>8, ScanBounds DEF HealLocal, Repair, ScanTypeOK
  <2>2. result.missing \subseteq Deps
    BY <1>1 DEF Result
  <2>3. venv' \subseteq Deps
    BY <1>1, <1>8, <2>2 DEF HealLocal, Repair, PipInstall, ScanTypeOK
  <2> QED
    BY <1>1, <1>8, <2>1, <2>3 DEF HealLocal, Repair, ScanTypeOK
<1>9. CASE FinishLocal
  BY <1>1, <1>9, ScanBounds DEF FinishLocal, ScanTypeOK
<1> QED
  BY <1>2, <1>3, <1>4, <1>5, <1>6, <1>7, <1>8, <1>9 DEF Next

LEMMA StartsSound == Init => IInv
<1> SUFFICES ASSUME Init PROVE IInv
  OBVIOUS
<1> USE DEF Init, SandboxInit
<1>1. 0 \in 0..Life /\ 0 \in 0..Rounds /\ [i \in Items |-> 0] \in [Items -> Nat]
  BY LifeIsPositive, Parameters
<1>2. NoResult \in Result /\ NoCall \in Call
  BY DEF NoResult, Result, NoCall, Call
<1>3. <<>> \in Seq(Meta) /\ <<>> \in Seq(BOOLEAN) /\ Len(<<>>) = 0 /\ 0 <= K
  BY Parameters
<1>4. SandboxTypeOK
  BY <1>1, <1>2, <1>3 DEF SandboxTypeOK
<1>5. ScanTypeOK /\ Placed
  BY ScanBounds DEF ScanTypeOK, Placed
<1>6. Tried /\ Counted /\ Staged /\ Alive
  BY <1>1 DEF Tried, Counted, Staged, Alive, Setup
<1> QED
  BY <1>4, <1>5, <1>6, InvariantParts DEF Sound

LEMMA StepKeepsInvariant ==
  ASSUME IInv, [Next]_vars
  PROVE  IInv'
<1>1. CASE Next
  <2>1. Sound' /\ Placed' /\ ScanTypeOK'
    BY <1>1, StepKeepsSound, StepKeepsPlaced, StepKeepsScanTypes
  <2> QED
    BY <2>1 DEF IInv, Sound, ScanTypeOK, TypeOK
<1>2. CASE UNCHANGED vars
  <2>1. Sound /\ ScanTypeOK /\ Placed
    BY InvariantParts
  <2>2. Sound'
    BY <1>2, <2>1, StutterKeepsSound DEF vars
  <2>3. ScanTypeOK' /\ Placed'
    BY <1>2, <2>1 DEF vars, plan, interpreters, caches, sandbox, ScanTypeOK, Placed
  <2> QED
    BY <2>2, <2>3 DEF IInv, Sound, ScanTypeOK, TypeOK
<1> QED
  BY <1>1, <1>2

LEMMA AlwaysSound == Spec => []IInv
BY StartsSound, StepKeepsInvariant, PTL DEF Spec

----------------------------------------------------------------------------
(* Results *)

\* Every state of _run_repo and run_e2b has the types the modules give it.
THEOREM TypeCorrect == Spec => []TypeOK
<1>1. IInv => TypeOK
  BY DEF IInv
<1> QED
  BY <1>1, AlwaysSound, PTL

\* An item an acquisition step names is looked for at most once in a call,
\* however many rounds the loop makes.
THEOREM NothingIsSoughtTwice == Spec => []SoughtOnce
<1>1. IInv => SoughtOnce
  <2> SUFFICES ASSUME IInv, NEW i \in Items PROVE tries[i] <= 1
    BY DEF SoughtOnce
  <2>1. tries[i] \in Nat /\ tries[i] <= IF i \in seen THEN 1 ELSE 0
    BY DEF IInv, TypeOK, SandboxTypeOK, Tried
  <2> QED
    BY <2>1
<1> QED
  BY <1>1, AlwaysSound, PTL

\* A result that rests on a file from the network carries the flag by which
\* its mismatch is not called a refutation.
THEOREM FetchedFilesAreFlagged == Spec => []FetchedIsFlagged
<1>1. IInv => FetchedIsFlagged
  BY DEF IInv, Counted, FetchedIsFlagged
<1> QED
  BY <1>1, AlwaysSound, PTL

\* run_e2b leaves no machine running, whichever way it ends.
THEOREM MachinesAreReleased == Spec => []SandboxReleased
<1>1. IInv => SandboxReleased
  BY DEF IInv, Alive, SandboxReleased
<1> QED
  BY <1>1, AlwaysSound, PTL

\* For any timeouts, floor and length of the earlier runs, a re-run that is
\* started ends, its capture copied back, before the machine does.
THEOREM RerunsEndInTime == Spec => RerunWithinLife
<1>1. IInv /\ [Next]_vars
      => [meta # <<>> /\ meta' # meta /\ meta' # <<>> => sbx' = "up"]_sandbox
  <2> SUFFICES ASSUME IInv, [Next]_vars, meta # <<>>, meta' # meta, meta' # <<>>
               PROVE  sbx' = "up"
    OBVIOUS
  <2>1. CASE Next
    BY <2>1, StepKeepsSound
  <2>2. CASE UNCHANGED vars
    BY <2>2 DEF vars, sandbox, outcome
  <2> QED
    BY <2>1, <2>2
<1> QED
  BY <1>1, AlwaysSound, PTL DEF Spec, RerunWithinLife
----------------------------------------------------------------------------
(* A scan is bounded *)

\* What is left of one call of run_e2b: the runs not made, before them the
\* rounds of the acquisition, and the stages.
CallWork ==
  CASE stage = "boot"    -> K + Rounds + 8
    [] stage = "install" -> K + Rounds + (IF ladder = "asked" THEN 7 ELSE 6)
    [] stage = "fetch"   -> K + Rounds + 5
    [] stage = "acquire" -> K + Rounds + 4
    [] stage = "resolve" -> K + Rounds + 3 - round
    [] stage = "run"     -> K + 2 - Len(meta)
    [] stage = "close"   -> 1
    [] OTHER             -> 0

\* A new machine is a whole call again.
Attempt == K + Rounds + 9

\* What is left of a scan: the machines that may still be started for a missing
\* module, or the runs that may still be made on the host.
Work ==
  CASE at = "e2b" -> Attempt * left + CallWork + 1
    [] at = "local" -> HealTries + RepairSteps + 3
    [] at = "ran" -> HealTries + RepairSteps + 2
    [] at \in {"heal", "repair"} -> left + 1
    [] at = "done" -> 1
    [] OTHER -> 0

LEMMA RoundsLeft ==
  ASSUME NEW k \in Nat, NEW r \in Nat, NEW n \in 0..r
  PROVE  k + r + 3 - n \in Nat
<1>1. n \in Nat /\ n <= r
  OBVIOUS
<1>2. r - n \in Nat
  BY <1>1
<1>3. k + r + 3 - n = k + 3 + (r - n)
  BY <1>1
<1> QED
  BY <1>2, <1>3

LEMMA CallWorkBounds ==
  ASSUME SandboxTypeOK
  PROVE  CallWork \in Nat /\ CallWork < Attempt
<1>1. K \in Nat /\ Rounds \in Nat /\ round \in 0..Rounds
  BY Parameters DEF SandboxTypeOK
<1>2. PICK m \in Nat : m = Len(meta) /\ m <= K
  BY DEF SandboxTypeOK
<1>3. CallWork \in Nat
  <2>1. K + 2 - m \in Nat
    BY <1>1, <1>2
  <2>2. K + Rounds + 3 - round \in Nat
    BY <1>1, RoundsLeft
  <2>3. \A i \in Nat : K + Rounds + i \in Nat
    BY <1>1
  <2>4. CASE stage \in {"boot", "install", "fetch", "acquire"}
    BY <2>3, <2>4 DEF CallWork
  <2>5. CASE stage = "resolve"
    BY <2>2, <2>5 DEF CallWork
  <2>6. CASE stage = "run"
    BY <1>2, <2>1, <2>6 DEF CallWork
  <2>7. CASE stage \in {"idle", "close", "end"}
    BY <2>7 DEF CallWork
  <2> QED
    BY <2>4, <2>5, <2>6, <2>7 DEF SandboxTypeOK
<1>4. CallWork <= K + Rounds + 8
  BY <1>1, <1>2 DEF CallWork
<1> QED
  BY <1>1, <1>3, <1>4 DEF Attempt

LEMMA SessionShrinks ==
  ASSUME Sound, Session
  PROVE  CallWork' < CallWork
<1>1. /\ K \in Nat /\ Rounds \in Nat /\ round \in 0..Rounds
      /\ Len(meta) \in Nat /\ Len(meta) <= K /\ meta \in Seq(Meta)
  BY Parameters DEF Sound, SandboxTypeOK
<1>2. /\ stage \in Setup \cup {"boot"} => Len(meta) = 0
      /\ stage = "run" => Len(meta) < K
  BY <1>1 DEF Sound, Staged
<1>3. CASE stage \in {"boot", "install", "fetch", "acquire", "resolve"} /\ SetupError
  BY <1>1, <1>3 DEF SetupError, CallWork
<1>4. CASE /\ stage \in {"install", "fetch", "acquire", "resolve"}
           /\ Over /\ UNCHANGED outcome
  <2>1. stage' = "run" /\ meta' = meta /\ Len(meta) = 0
    BY <1>2, <1>4 DEF Over, outcome, Setup
  <2> QED
    BY <1>1, <1>4, <2>1 DEF CallWork
<1>5. CASE Boot
  BY <1>1, <1>3, <1>5 DEF Boot, CallWork, progress
<1>6. CASE stage = "install" /\ AfterInstall /\ UNCHANGED outcome
  <2>1. stage' \in {"fetch", "acquire", "run"} /\ meta' = meta /\ Len(meta) = 0
    BY <1>2, <1>6 DEF AfterInstall, outcome, Setup
  <2> QED
    BY <1>1, <1>6, <2>1 DEF CallWork
<1>7. CASE BumpPython
  BY <1>1, <1>7 DEF BumpPython, CallWork
<1>8. CASE FetchSources
  <2>1. /\ stage = "fetch" /\ stage' \in {"acquire", "run"} /\ meta' = meta /\ Len(meta) = 0
    BY <1>2, <1>8 DEF FetchSources, outcome, Setup
  <2> QED
    BY <1>1, <2>1 DEF CallWork
<1>9. CASE stage = "acquire" /\ stage' = "resolve" /\ UNCHANGED round
  BY <1>1, <1>9 DEF CallWork
<1>10. CASE /\ stage = "resolve" /\ round < Rounds
            /\ stage' = "resolve" /\ round' = round + 1
  BY <1>1, <1>10 DEF CallWork
<1>11. CASE SkipRerun
  BY <1>1, <1>2, <1>11 DEF SkipRerun, CallWork
<1>12. CASE Run
  <2>1. PICK m : /\ meta' = Append(meta, m)
                 /\ stage' = IF Len(meta') = K THEN "close" ELSE "run"
    BY <1>12 DEF Run, Ran
  <2>2. stage = "run" /\ Len(meta') = Len(meta) + 1
    BY <1>1, <1>12, <2>1 DEF Run
  <2> QED
    BY <1>1, <1>2, <2>1, <2>2 DEF CallWork
<1>13. CASE Close
  BY <1>13 DEF Close, CallWork
<1>14. CASE Acquire
  BY <1>4, <1>9, <1>14 DEF Acquire
<1>15. CASE Resolve \/ ResolvedEnough
  BY <1>4, <1>10, <1>15 DEF Resolve, ResolvedEnough
<1> QED
  BY <1>3, <1>4, <1>5, <1>6, <1>7, <1>8, <1>11, <1>12, <1>13, <1>14, <1>15
  DEF Session, Install, RelaxPins, SetupFails, Expire

LEMMA WorkIsNatural ==
  ASSUME TypeOK
  PROVE  Work \in Nat
<1>1. left \in Nat /\ HealTries \in Nat /\ RepairSteps \in Nat /\ Attempt \in Nat
  BY ScanBounds, Parameters DEF TypeOK, Attempt
<1>2. CallWork \in Nat
  BY CallWorkBounds DEF TypeOK
<1>3. Attempt * left \in Nat
  BY <1>1
<1> QED
  BY <1>1, <1>2, <1>3 DEF Work

LEMMA OneLess ==
  ASSUME NEW a \in Nat, NEW n \in Nat, NEW m \in Nat, m = n - 1
  PROVE  a * n \in Nat /\ a * m \in Nat /\ a * n = a * m + a
<1>1. n = m + 1
  OBVIOUS
<1> QED
  BY <1>1

LEMMA StepShrinks ==
  ASSUME IInv, IInv', at # "idle", Next
  PROVE  Work' < Work
<1>1. /\ left \in 0..(HealTries + RepairSteps) /\ left' \in 0..(HealTries + RepairSteps)
      /\ HealTries \in Nat /\ RepairSteps \in Nat /\ Attempt \in Nat
  BY ScanBounds, Parameters DEF IInv, TypeOK, Attempt
<1>2. /\ CallWork \in Nat /\ CallWork < Attempt
      /\ CallWork' \in Nat /\ CallWork' < Attempt
  <2>1. CallWork \in Nat /\ CallWork < Attempt
    BY CallWorkBounds DEF IInv, TypeOK
  <2>2. K \in Nat /\ Rounds \in Nat /\ round' \in 0..Rounds
    BY Parameters DEF IInv, TypeOK, SandboxTypeOK
  <2>3. PICK m \in Nat : m = Len(meta') /\ m <= K
    BY DEF IInv, TypeOK, SandboxTypeOK
  <2>4. CallWork' \in Nat
    <3>1. K + 2 - m \in Nat
      BY <2>2, <2>3
    <3>2. K + Rounds + 3 - round' \in Nat
      BY <2>2, RoundsLeft
    <3>3. \A i \in Nat : K + Rounds + i \in Nat
      BY <2>2
    <3>4. CASE stage' \in {"boot", "install", "fetch", "acquire"}
      BY <3>3, <3>4 DEF CallWork
    <3>5. CASE stage' = "resolve"
      BY <3>2, <3>5 DEF CallWork
    <3>6. CASE stage' = "run"
      BY <2>3, <3>1, <3>6 DEF CallWork
    <3>7. CASE stage' \in {"idle", "close", "end"}
      BY <3>7 DEF CallWork
    <3> QED
      BY <3>4, <3>5, <3>6, <3>7 DEF IInv, TypeOK, SandboxTypeOK
  <2>5. CallWork' <= K + Rounds + 8
    BY <2>2, <2>3 DEF CallWork
  <2> QED
    BY <2>1, <2>2, <2>4, <2>5 DEF Attempt
<1>3. Work \in Nat
  BY WorkIsNatural DEF IInv
<1>4. CASE SandboxStep
  <2>1. CallWork' < CallWork /\ at = "e2b" /\ at' = "e2b" /\ left' = left
    BY <1>4, SessionShrinks, InvariantParts DEF SandboxStep, plan
  <2>2. Attempt * left \in Nat
    BY <1>1
  <2> QED
    BY <1>2, <2>1, <2>2 DEF Work, Attempt
<1>5. CASE Heal
  <2>1. at = "e2b" /\ at' = "e2b" /\ left' = left - 1 /\ left > 0
    BY <1>5 DEF Heal, Retries
  <2>2. left \in Nat /\ left' \in Nat
    BY <1>1
  <2>3. PICK p \in Nat, q \in Nat : p = Attempt * left /\ q = Attempt * left' /\ p = q + Attempt
    BY <1>1, <2>1, <2>2, OneLess
  <2>4. p = q + Attempt
    BY <2>3
  <2>5. q + CallWork' + 1 < p + CallWork + 1
    <3> DEFINE c == CallWork
               d == CallWork'
    <3>1. c \in Nat /\ d \in Nat /\ d < Attempt /\ Attempt \in Nat
      BY <1>1, <1>2
    <3> HIDE DEF c, d
    <3>2. q + d + 1 < p + c + 1
      BY <2>4, <3>1
    <3> QED
      BY <3>2 DEF c, d
  <2> QED
    BY <2>1, <2>3, <2>5 DEF Work, Attempt
<1>6. CASE FinishE2B \/ FinishLocal
  <2>1. at' = "idle" /\ at \in {"e2b", "heal", "repair", "done"}
    BY <1>6 DEF FinishE2B, FinishLocal
  <2>2. Work' = 0
    BY <2>1 DEF Work
  <2>3. Work >= 1
    <3>1. Attempt * left \in Nat
      BY <1>1
    <3> QED
      BY <1>1, <1>2, <2>1, <3>1 DEF Work
  <2> QED
    BY <1>3, <2>2, <2>3
<1>7. CASE RunLocal
  <2>1. at = "local" /\ at' = "ran"
    BY <1>7 DEF RunLocal
  <2> QED
    BY <1>1, <2>1 DEF Work
<1>8. CASE Retry
  <2>1. /\ at = "ran" /\ at' \in {"heal", "repair", "done"}
    BY <1>8 DEF Retry
  <2> QED
    BY <1>1, <2>1 DEF Work
<1>9. CASE HealLocal \/ Repair
  <2>1. at' = at /\ at \in {"heal", "repair"} /\ left' = left - 1
    BY <1>9 DEF HealLocal, Repair
  <2> QED
    BY <1>1, <2>1 DEF Work
<1> QED
  BY <1>4, <1>5, <1>6, <1>7, <1>8, <1>9 DEF Next, StartE2B, StartLocal

\* A scan is bounded, whatever its runs report missing and however often
\* (pipeline.py:552, 652): each of its steps leaves less to be done, by a measure
\* of the retries, rounds and runs left.  This is the part of ScanEnds that needs
\* no fairness.
THEOREM ScansAreBounded ==
  Spec => /\ [](Work \in Nat)
          /\ [][at # "idle" => Work' < Work]_vars
<1>1. IInv => Work \in Nat
  BY WorkIsNatural DEF IInv
<1>2. IInv /\ IInv' /\ [Next]_vars => [at # "idle" => Work' < Work]_vars
  BY StepShrinks
<1> QED
  BY <1>1, <1>2, AlwaysSound, PTL DEF Spec
=============================================================================
