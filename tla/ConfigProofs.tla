------------------------------- MODULE ConfigProofs --------------------------------
(***********************************************************************************)
(* Proofs about what `stabsight run` makes of its configuration, for every set of    *)
(* files, flags and environments, whatever edits come between the two readings, and *)
(* any number of targets.                                                           *)
(***********************************************************************************)
EXTENDS Startup, WellFoundedInduction, TLAPS

-------------------------------------------------------------------------------------
(* Types. *)

IsConfig(c) ==
  /\ c = [settings |-> c.settings, buckets |-> c.buckets, targets |-> c.targets]
  /\ c.settings \in Settings /\ c.buckets \in Seq(Floats) /\ AreTargets(c.targets)

ConfigTyped ==
  /\ file \in Files /\ edits \in 0..MaxEdits /\ flags \in Flags /\ env \in Envs
  /\ fromFile \in PartialSettings
  /\ IsConfig(config)
  /\ loader \in {"reading", "decoding", "validating", "loaded", "failed"}

LEMMA NothingIsTyped == IsConfig(NewDefaultConfig)
  <1>1. AreTargets(<<>>)
    BY DEF AreTargets
  <1> QED
    BY <1>1 DEF IsConfig, NewDefaultConfig, Defaults, Settings, Values

\* Whatever the layers, viper returns a value for every key.
LEMMA MergedTyped ==
  ASSUME flags \in PartialSettings, env \in PartialSettings, fromFile \in PartialSettings
  PROVE  Merged \in Settings
  <1> USE DEF PartialSettings, Settings, Values, Unset
  <1>1. Over(fromFile, Defaults) \in Settings
    BY DEF Over, Defaults
  <1>2. NotEmpty(env) \in PartialSettings
    BY DEF NotEmpty
  <1>3. Over(NotEmpty(env), Over(fromFile, Defaults)) \in Settings
    BY <1>1, <1>2 DEF Over
  <1> QED
    BY <1>3 DEF Merged, Over

LEMMA LoadTyped ==
  ASSUME ConfigTyped, LoadStep
  PROVE  ConfigTyped'
  <1> USE DEF ConfigTyped
  <1>1. IsFile(file)
    BY FilesAssumption
  <1>2. CASE ReadInConfig
    BY <1>1, <1>2 DEF ReadInConfig, IsFile
  <1>3. CASE ReadInConfigFails
    BY <1>3 DEF ReadInConfigFails
  <1>4. CASE DecodeTargets
    <2>1. config' = [settings |-> config.settings, buckets |-> file.buckets,
                     targets |-> file.targets]
      BY <1>4 DEF DecodeTargets, IsConfig
    <2>2. IsConfig(config)'
      BY <1>1, <2>1 DEF IsConfig, IsFile
    <2> QED
      BY <1>4, <2>2 DEF DecodeTargets
  <1>5. CASE DecodeTargetsFails
    BY <1>5 DEF DecodeTargetsFails
  <1>6. CASE MergeAndValidate
    <2>1. config' = [settings |-> Merged, buckets |-> config.buckets,
                     targets |-> config.targets]
      BY <1>6 DEF MergeAndValidate, IsConfig
    <2>2. IsConfig(config)'
      BY <2>1, MergedTyped, LayersAssumption DEF IsConfig
    <2>3. loader' \in {"loaded", "failed"}
      BY <1>6 DEF MergeAndValidate
    <2> QED
      BY <1>6, <2>2, <2>3 DEF MergeAndValidate
  <1> QED
    BY <1>2, <1>3, <1>4, <1>5, <1>6 DEF LoadStep

LEMMA EditTyped ==
  ASSUME ConfigTyped, Edit
  PROVE  ConfigTyped'
  BY EditsAssumption DEF ConfigTyped, Edit

LEMMA ConfigStays ==
  ASSUME ConfigTyped, UNCHANGED configVars
  PROVE  ConfigTyped'
  BY DEF ConfigTyped, configVars

\* What a step of the program is to the configuration.
LEMMA StepsOfConfig ==
  [StartupNext]_vars => LoadStep \/ Edit \/ UNCHANGED configVars
  BY DEF StartupNext, vars, Load, FileEdited, Signal, RunAppStep, Listen, ListenFails,
         CreateExporter, CreateExporterFails, CreateProvider, CreateProviderFails,
         CreateInstruments, CreateInstrumentsFails, RegisterNext, StartWorkers, BeginStop,
         StopReturns, ServerIsDown, Cleanup, WorkerStep, FirstCheck, CheckOnTick,
         FinishCheck, WorkerExits, Outside

LEMMA ConfigTypedAlways == StartupSpec => []ConfigTyped
  <1>1. StartupInit => ConfigTyped
    BY NothingIsTyped, EditsAssumption
    DEF StartupInit, ConfigInit, ConfigTyped, NoSettings, PartialSettings, Unset
  <1>2. ConfigTyped /\ [StartupNext]_vars => ConfigTyped'
    BY StepsOfConfig, LoadTyped, EditTyped, ConfigStays
  <1> QED
    BY <1>1, <1>2, PTL DEF StartupSpec

-------------------------------------------------------------------------------------
(* Precedence. *)

LEMMA EffectiveIsMerged ==
  ASSUME NEW k \in Keys,
         flags \in PartialSettings, env \in PartialSettings, fromFile \in PartialSettings
  PROVE  Effective(k) = Merged[k]
  <1> DEFINE given == {s \in {<<3, flags[k]>>, <<2, env[k]>>, <<1, fromFile[k]>>,
                              <<0, "default">>} : s[2] # Unset /\ s # <<2, "blank">>}
             top == IF flags[k] # Unset THEN <<3, flags[k]>>
                    ELSE IF env[k] \notin {Unset, "blank"} THEN <<2, env[k]>>
                    ELSE IF fromFile[k] # Unset THEN <<1, fromFile[k]>> ELSE <<0, "default">>
  <1>1. top \in given /\ \A r \in given : r[1] <= top[1]
    BY DEF Unset
  <1>2. \A s \in given : (\A r \in given : r[1] <= s[1]) => s = top
    BY <1>1
  <1>3. (CHOOSE s \in given : \A r \in given : r[1] <= s[1]) = top
    BY <1>1, <1>2
  <1>4. top[2] = Merged[k]
    BY DEF Merged, Over, NotEmpty, Defaults, Unset
  <1> HIDE DEF top
  <1> QED
    BY <1>3, <1>4 DEF Effective

\* What Load has validated comes from the file as it is, or there was none to read.
FromTheFile ==
  \/ config.buckets = file.buckets /\ config.targets = file.targets
  \/ config.buckets = <<>> /\ config.targets = <<>>

LoadInv ==
  /\ loader = "loaded" => config.settings = Merged /\ ValidConfig(config)
  /\ (loader = "validating" /\ edits = 0) => FromTheFile
  /\ (loader = "failed" /\ file.syntax = "fine" /\ edits = 0) =>
       config.settings = Merged /\ ~ValidConfig(config) /\ FromTheFile

LEMMA LoadInvStep ==
  ASSUME ConfigTyped, LoadInv, LoadStep
  PROVE  LoadInv'
  <1> USE DEF LoadInv, FromTheFile
  <1>1. CASE ReadInConfig
    BY <1>1 DEF ReadInConfig
  <1>2. CASE ReadInConfigFails
    BY <1>2 DEF ReadInConfigFails
  <1>3. CASE DecodeTargets
    <2>1. config' = [settings |-> config.settings, buckets |-> file.buckets,
                     targets |-> file.targets]
      BY <1>3 DEF DecodeTargets, ConfigTyped, IsConfig
    <2> QED
      BY <1>3, <2>1 DEF DecodeTargets
  <1>4. CASE DecodeTargetsFails
    BY <1>4 DEF DecodeTargetsFails
  <1>5. CASE MergeAndValidate
    <2>1. config' = [settings |-> Merged, buckets |-> config.buckets,
                     targets |-> config.targets]
      BY <1>5 DEF MergeAndValidate, ConfigTyped, IsConfig
    <2>2. config' = [config EXCEPT !.settings = Merged]
      BY <1>5 DEF MergeAndValidate
    <2>3. loader' = IF ValidConfig(config') THEN "loaded" ELSE "failed"
      BY <1>5, <2>2 DEF MergeAndValidate
    <2>4. ValidConfig(config') <=> ValidConfig(config)'
      OBVIOUS
    <2>5. Merged' = Merged
      BY <1>5 DEF MergeAndValidate, Merged, Over, NotEmpty, Defaults, Keys
    <2>6. /\ loader = "validating" /\ UNCHANGED <<file, edits>>
          /\ config'.settings = Merged /\ config'.buckets = config.buckets
          /\ config'.targets = config.targets
      BY <1>5, <2>1 DEF MergeAndValidate
    <2> QED
      BY <2>3, <2>4, <2>5, <2>6
  <1> QED
    BY <1>1, <1>2, <1>3, <1>4, <1>5 DEF LoadStep

LEMMA LoadInvAlways == StartupSpec => []LoadInv
  <1>1. StartupInit => LoadInv
    BY DEF StartupInit, ConfigInit, LoadInv, FromTheFile, NewDefaultConfig
  <1>2. ConfigTyped /\ LoadInv /\ [StartupNext]_vars => LoadInv'
    <2>1. ASSUME ConfigTyped, LoadInv, Edit
          PROVE  LoadInv'
      BY <2>1, EditsAssumption DEF LoadInv, Edit, ConfigTyped
    <2>2. ASSUME LoadInv, UNCHANGED configVars
          PROVE  LoadInv'
      <3>1. ValidConfig(config)' <=> ValidConfig(config)
        BY <2>2 DEF configVars
      <3>2. Merged' = Merged
        BY <2>2 DEF configVars, Merged, Over, NotEmpty, Defaults
      <3> QED
        BY <2>2, <3>1, <3>2 DEF LoadInv, configVars, FromTheFile
    <2> QED
      BY <2>1, <2>2, LoadInvStep, StepsOfConfig
  <1> QED
    BY <1>1, <1>2, ConfigTypedAlways, PTL DEF StartupSpec

(***********************************************************************************)
(* Flag over environment over file over default, for every key and however the file *)
(* changes between its two readings; and a load that nothing disturbs fails only for *)
(* an illegal effective value, the boundaries or a target (config.go:174-216).       *)
(***********************************************************************************)
THEOREM PrecedenceHolds == StartupSpec => []OverridesDecide
  <1>1. ConfigTyped /\ LoadInv => OverridesDecide
    <2> SUFFICES ASSUME ConfigTyped, LoadInv PROVE OverridesDecide
      OBVIOUS
    <2>1. /\ flags \in PartialSettings /\ env \in PartialSettings
          /\ fromFile \in PartialSettings
      BY LayersAssumption DEF ConfigTyped
    <2>2. \A k \in Keys : Effective(k) = Merged[k]
      BY <2>1, EffectiveIsMerged
    <2>3. Merged = [k \in Keys |-> Merged[k]]
      BY DEF Merged, Over
    <2>4. Merged = [k \in Keys |-> Effective(k)]
      BY <2>2, <2>3
    <2>5. ValidBuckets(<<>>)
      BY DEF ValidBuckets
    <2> HIDE DEF Effective
    <2>6. ASSUME loader = "failed", file.syntax = "fine", edits = 0
          PROVE  \/ \E k \in Keys : Effective(k) \notin LegalValues(k)
                 \/ ~ValidBuckets(file.buckets)
                 \/ \E i \in 1..Len(file.targets) : ~ValidTarget(file.targets[i])
      BY <2>2, <2>5, <2>6 DEF LoadInv, FromTheFile, ValidConfig
    <2> QED
      BY <2>4, <2>6 DEF OverridesDecide, LoadInv
  <1> QED
    BY <1>1, ConfigTypedAlways, LoadInvAlways, PTL

-------------------------------------------------------------------------------------
(* Registration. The loop walks through the positions 6 * (i - 1) + k - 1 of target i *)
(* and kind k; what stands in workers comes from positions it has passed.            *)

Setup == {"listen", "exporter", "provider", "instruments"}

Phases ==
  /\ main \in {"loading"} \cup Setup => next = 0 /\ workers = <<>>
  /\ main \in Setup \cup {"register", "waiting", "stopping"} => loader = "loaded"
  /\ next \in Nat
  /\ main \in {"waiting", "stopping"} =>
       next = Len(config.targets) * 6 /\ DOMAIN doing = DOMAIN workers

Passed(i, k) ==
  /\ i \in 1..Len(config.targets) /\ k \in 1..6
  /\ 6 * (i - 1) + k - 1 < next
  /\ KindOrder[k] \in DOMAIN config.targets[i].probes

Name(i, k) == NameOf(config.targets[i], KindOrder[k])

Worker(i, k) ==
  Construct(KindOrder[k], config.targets[i], config.targets[i].probes[KindOrder[k]])

PassedHaveWorkers ==
  \A i, k \in Nat : Passed(i, k) =>
    /\ Name(i, k) \in DOMAIN workers
    /\ IsFirst(i, KindOrder[k]) => workers[Name(i, k)] = Worker(i, k)

\* What is registered under a name is the first that has it.
WorkersHavePassed ==
  \A n \in DOMAIN workers :
    \E i, k \in Nat : Passed(i, k) /\ IsFirst(i, KindOrder[k]) /\ n = Name(i, k)

RegistrationInv == Phases /\ PassedHaveWorkers /\ WorkersHavePassed

LEMMA SixKinds ==
  /\ Len(KindOrder) = 6
  /\ \A k, l \in 1..6 : KindOrder[k] = KindOrder[l] => k = l
  /\ Kinds \subseteq {KindOrder[k] : k \in 1..6}
  BY DEF KindOrder, Kinds

LEMMA PositionsAreUnique ==
  ASSUME NEW i \in Nat, NEW k \in 1..6, NEW p \in Nat, 6 * (i - 1) + k - 1 = p
  PROVE  i = (p \div 6) + 1 /\ k = (p % 6) + 1
  OBVIOUS

LEMMA RegisterStep ==
  ASSUME ConfigTyped, RegistrationInv, RegisterNext
  PROVE  RegistrationInv'
  <1> DEFINE a == (next \div 6) + 1
             b == (next % 6) + 1
             t == config.targets[a]
  <1>1. /\ next \in Nat /\ a \in 1..Len(config.targets) /\ b \in 1..6
        /\ next' = next + 1 /\ main = "register"
        /\ 6 * (a - 1) + b - 1 = next
    <2>1. Len(config.targets) \in Nat
      BY DEF ConfigTyped, IsConfig, AreTargets
    <2>2. next \in Nat /\ next < Len(config.targets) * 6
      BY SixKinds DEF RegisterNext, RegistrationInv, Phases
    <2> QED
      BY <2>1, <2>2 DEF RegisterNext
  <1>2. UNCHANGED <<config, main, loader, doing>>
    BY DEF RegisterNext, configVars
  <1>3. workers' = IF KindOrder[b] \in DOMAIN t.probes
                   THEN [n \in DOMAIN workers \cup {Name(a, b)} |->
                           IF n \in DOMAIN workers THEN workers[n] ELSE Worker(a, b)]
                   ELSE workers
    BY SixKinds DEF RegisterNext, RegisterWorker, Name, Worker
  <1>4. \A i, k \in Nat : Passed(i, k)' =>
          Passed(i, k) \/ (i = a /\ k = b /\ KindOrder[b] \in DOMAIN t.probes)
    <2> SUFFICES ASSUME NEW i \in Nat, NEW k \in Nat, Passed(i, k)', ~Passed(i, k)
                 PROVE  i = a /\ k = b /\ KindOrder[b] \in DOMAIN t.probes
      OBVIOUS
    <2>1. /\ k \in 1..6 /\ i \in 1..Len(config.targets)
          /\ 6 * (i - 1) + k - 1 = next
          /\ KindOrder[k] \in DOMAIN config.targets[i].probes
      BY <1>1, <1>2 DEF Passed
    <2> QED
      BY <2>1, <1>1, PositionsAreUnique
  <1>5. \A i, k \in Nat : Passed(i, k) => Passed(i, k)'
    BY <1>1, <1>2 DEF Passed
  <1>6. \A i, k \in Nat : /\ Name(i, k)' = Name(i, k) /\ Worker(i, k)' = Worker(i, k)
                          /\ IsFirst(i, KindOrder[k])' <=> IsFirst(i, KindOrder[k])
    BY <1>2 DEF Name, Worker, IsFirst
  <1>7. IsFirst(a, KindOrder[b]) => Name(a, b) \notin DOMAIN workers
    <2> SUFFICES ASSUME Name(a, b) \in DOMAIN workers, IsFirst(a, KindOrder[b]) PROVE FALSE
      OBVIOUS
    <2>1. PICK i, k \in Nat : Passed(i, k) /\ Name(a, b) = Name(i, k)
      BY DEF RegistrationInv, WorkersHavePassed
    <2>2. /\ config.targets[i].name = config.targets[a].name
          /\ KindOrder[i] = KindOrder[i] /\ KindOrder[k] = KindOrder[b]
      BY <2>1 DEF Name, NameOf
    <2>3. k = b /\ i \in 1..Len(config.targets) /\ 6 * (i - 1) + k - 1 < next
      BY <2>1, <2>2, <1>1, SixKinds DEF Passed
    <2>4. i \in 1..(a - 1)
      BY <2>3, <1>1
    <2> QED
      BY <2>1, <2>2, <2>4 DEF IsFirst, Passed
  <1> HIDE DEF a, b, t
  <1>8. PassedHaveWorkers'
    BY <1>1, <1>3, <1>4, <1>6, <1>7 DEF PassedHaveWorkers, RegistrationInv
  <1>9. WorkersHavePassed'
    <2> SUFFICES ASSUME NEW n \in DOMAIN workers'
                 PROVE  \E i, k \in Nat :
                          Passed(i, k)' /\ IsFirst(i, KindOrder[k])' /\ n = Name(i, k)'
      BY DEF WorkersHavePassed
    <2>1. CASE n \in DOMAIN workers
      BY <2>1, <1>5, <1>6 DEF WorkersHavePassed, RegistrationInv
    <2>2. CASE n \notin DOMAIN workers
      <3>1. n = Name(a, b) /\ KindOrder[b] \in DOMAIN t.probes
        <4>1. KindOrder[b] \in DOMAIN t.probes
          BY <2>2, <1>3
        <4>2. DOMAIN workers' = DOMAIN workers \cup {Name(a, b)}
          BY <4>1, <1>3
        <4> QED
          BY <2>2, <4>1, <4>2
      <3>2. PICK i, k \in Nat : i = a /\ k = b
        BY <1>1
      <3>3. Passed(i, k)'
        <4>1. /\ i \in 1..Len(config'.targets) /\ k \in 1..6
              /\ 6 * (i - 1) + k - 1 < next'
          BY <3>2, <1>1, <1>2
        <4>2. KindOrder[k] \in DOMAIN config'.targets[i].probes
          BY <3>1, <3>2, <1>2 DEF t
        <4> QED
          BY <4>1, <4>2 DEF Passed
      <3>4. IsFirst(i, KindOrder[k])
        <4> SUFFICES ASSUME ~IsFirst(i, KindOrder[k]) PROVE n \in DOMAIN workers
          BY <2>2
        <4>1. PICK j \in 1..(i - 1) : /\ config.targets[j].name = config.targets[i].name
                                     /\ KindOrder[k] \in DOMAIN config.targets[j].probes
          BY DEF IsFirst
        <4>2. j \in Nat /\ k \in Nat /\ Passed(j, k)
          BY <4>1, <3>2, <1>1 DEF Passed
        <4>3. Name(j, k) \in DOMAIN workers
          BY <4>2 DEF RegistrationInv, PassedHaveWorkers
        <4> QED
          BY <4>1, <4>3, <3>1, <3>2 DEF Name, NameOf
      <3> QED
        BY <3>1, <3>2, <3>3, <3>4, <1>6
    <2> QED
      BY <2>1, <2>2
  <1>10. Phases'
    BY <1>1, <1>2 DEF Phases, RegistrationInv, Setup
  <1> QED
    BY <1>8, <1>9, <1>10 DEF RegistrationInv

\* A step that leaves the configuration and the loop alone disturbs at most Phases.
LEMMA TableStays ==
  ASSUME RegistrationInv, UNCHANGED <<config, next, workers>>, Phases'
  PROVE  RegistrationInv'
  <1>1. \A i, k : /\ Passed(i, k)' <=> Passed(i, k)
                  /\ IsFirst(i, KindOrder[k])' <=> IsFirst(i, KindOrder[k])
                  /\ Name(i, k)' = Name(i, k) /\ Worker(i, k)' = Worker(i, k)
    BY DEF Passed, IsFirst, Name, Worker
  <1>2. PassedHaveWorkers'
    BY <1>1 DEF RegistrationInv, PassedHaveWorkers
  <1>3. WorkersHavePassed'
    BY <1>1 DEF RegistrationInv, WorkersHavePassed
  <1> QED
    BY <1>2, <1>3 DEF RegistrationInv

LEMMA LoadKeepsTable ==
  ASSUME ConfigTyped, RegistrationInv, Load
  PROVE  RegistrationInv'
  <1>1. main = "loading" /\ next' = 0 /\ workers' = <<>>
    BY DEF Load, RegistrationInv, Phases, Return, Goto, appVars
  <1>2. main' \in {"loading", "returned"} \/ (main' = "listen" /\ loader' = "loaded")
    BY <1>1 DEF Load, Return, Goto, appVars
  <1>3. Phases'
    BY <1>1, <1>2 DEF Phases, Setup
  <1>4. \A i, k \in Nat : ~Passed(i, k)'
    <2>1. Len(config'.targets) \in Nat
      BY LoadTyped DEF Load, ConfigTyped, IsConfig, AreTargets
    <2> QED
      BY <1>1, <2>1 DEF Passed
  <1>5. DOMAIN workers' = {}
    BY <1>1
  <1> QED
    BY <1>3, <1>4, <1>5 DEF RegistrationInv, PassedHaveWorkers, WorkersHavePassed

LEMMA OthersKeepTable ==
  ASSUME RegistrationInv,
         \/ FileEdited \/ Signal \/ Outside
         \/ Listen \/ ListenFails \/ CreateExporter \/ CreateExporterFails
         \/ CreateProvider \/ CreateProviderFails \/ CreateInstruments
         \/ CreateInstrumentsFails \/ StartWorkers \/ BeginStop \/ StopReturns
         \/ ServerIsDown \/ Cleanup
         \/ \E n \in DOMAIN doing : WorkerStep(n)
         \/ UNCHANGED vars
  PROVE  RegistrationInv'
  <1> USE DEF Return, Goto, configVars, appVars
  <1>1. UNCHANGED <<config, next, workers, loader>>
    BY DEF FileEdited, Edit, Signal, Outside, Listen, ListenFails, CreateExporter,
           CreateExporterFails, CreateProvider, CreateProviderFails, CreateInstruments,
           CreateInstrumentsFails, StartWorkers, BeginStop, StopReturns, ServerIsDown,
           Cleanup, WorkerStep, FirstCheck, CheckOnTick, FinishCheck, WorkerExits, vars
  <1>2. Phases'
    <2>1. CASE StartWorkers
      BY <1>1, <2>1, SixKinds DEF StartWorkers, RegistrationInv, Phases, Setup
    <2>2. CASE \E n \in DOMAIN doing : WorkerStep(n)
      BY <1>1, <2>2 DEF WorkerStep, FirstCheck, CheckOnTick, FinishCheck, WorkerExits, Do,
                        RegistrationInv, Phases
    <2>3. CASE UNCHANGED <<main, doing>>
      BY <1>1, <2>3 DEF RegistrationInv, Phases
    <2>4. CASE UNCHANGED doing /\ \/ main' \in {"cleanup", "draining", "returned"}
                                  \/ main \in Setup /\ main' \in Setup \cup {"register"}
                                  \/ main = "waiting" /\ main' = "stopping"
      BY <1>1, <2>4 DEF RegistrationInv, Phases, Setup
    <2> QED
      BY <2>1, <2>2, <2>3, <2>4
      DEF FileEdited, Signal, Outside, Listen, ListenFails, CreateExporter,
          CreateExporterFails, CreateProvider, CreateProviderFails, CreateInstruments,
          CreateInstrumentsFails, BeginStop, StopReturns, ServerIsDown, Cleanup, Setup, vars
  <1> QED
    BY <1>1, <1>2, TableStays

LEMMA RegistrationAlways == StartupSpec => []RegistrationInv
  <1>1. StartupInit => RegistrationInv
    <2> SUFFICES ASSUME StartupInit PROVE RegistrationInv
      OBVIOUS
    <2>1. main = "loading" /\ next = 0 /\ workers = <<>> /\ DOMAIN workers = {}
      BY DEF StartupInit
    <2> QED
      BY <2>1 DEF RegistrationInv, Phases, Setup, PassedHaveWorkers, WorkersHavePassed, Passed
  <1>2. ConfigTyped /\ RegistrationInv /\ [StartupNext]_vars => RegistrationInv'
    BY RegisterStep, LoadKeepsTable, OthersKeepTable DEF StartupNext, RunAppStep
  <1> QED
    BY <1>1, <1>2, ConfigTypedAlways, PTL DEF StartupSpec

LEMMA PortsArePositive == \A x \in Ports : x > 0
  <1> DEFINE n == 65535
  <1>1. Ports = 1..n
    BY DEF Ports
  <1>2. n \in Nat
    OBVIOUS
  <1> HIDE DEF n
  <1> QED
    BY <1>1, <1>2

\* A probe that Validate has passed is built as it is configured.
LEMMA ConstructKeeps ==
  ASSUME NEW kind, NEW t, NEW p, ValidProbe(kind, p)
  PROVE  Construct(kind, t, p) =
           [host |-> IF kind = "speedtest" THEN "" ELSE t.host, interval |-> p.interval,
            timeout |-> p.timeout, port |-> IF kind = "tcp" THEN p.port ELSE 0]
  <1>1. p.interval > 0 /\ p.timeout > 0 /\ (kind = "tcp" => p.port > 0)
    BY PortsArePositive, Zenon DEF ValidProbe
  <1>2. CASE kind = "tcp"
    BY <1>1, <1>2, Zenon DEF Construct
  <1>3. CASE kind # "tcp"
    BY <1>1, <1>3, Zenon DEF Construct
  <1> QED
    BY <1>2, <1>3, Zenon

(***********************************************************************************)
(* The workers of a serving agent are exactly the configured probes, the first of    *)
(* each name, and each has the host, interval, timeout and port that its own target *)
(* gives, never a constructor's default (run.go:110-164, config.go:238-345).         *)
(***********************************************************************************)
THEOREM ProbesRunAsConfigured == StartupSpec => []RunsAsConfigured
  <1>1. ConfigTyped /\ LoadInv /\ RegistrationInv => RunsAsConfigured
    <2> SUFFICES ASSUME ConfigTyped, LoadInv, RegistrationInv, Serving
                 PROVE  RunsAsConfigured
      BY DEF RunsAsConfigured
    <2>1. /\ next = Len(config.targets) * 6 /\ DOMAIN doing = DOMAIN workers
          /\ Len(config.targets) \in Nat
      BY DEF Serving, RegistrationInv, Phases, ConfigTyped, IsConfig, AreTargets
    <2>2. ValidConfig(config)
      BY DEF Serving, RegistrationInv, Phases, LoadInv
    <2>3. ASSUME NEW i \in 1..Len(config.targets),
                 NEW kind \in DOMAIN config.targets[i].probes, IsFirst(i, kind)
          PROVE  LET p == config.targets[i].probes[kind]
                 IN /\ RunsAs(i, kind)
                    /\ p.interval > 0 /\ p.timeout > 0
                    /\ kind = "tcp" => p.port \in Ports
      <3> DEFINE t == config.targets[i]
                 p == t.probes[kind]
      <3>1. i \in DOMAIN config.targets /\ IsTarget(t)
        BY DEF ConfigTyped, IsConfig, AreTargets
      <3>2. PICK k \in 1..6 : KindOrder[k] = kind
        BY <3>1, SixKinds DEF IsTarget
      <3>3. Passed(i, k) /\ i \in Nat /\ k \in Nat
        BY <3>2, <2>1 DEF Passed
      <3>4. /\ NameIn(i, kind) \in DOMAIN workers
            /\ workers[NameIn(i, kind)] = Construct(kind, t, p)
        BY <2>3, <3>2, <3>3 DEF RegistrationInv, PassedHaveWorkers, Name, NameIn, Worker
      <3>5. ValidProbe(kind, p)
        BY <2>2, <3>1 DEF ValidConfig, ValidTarget
      <3> HIDE DEF p, t
      <3>6. workers[NameIn(i, kind)] =
              [host |-> IF kind = "speedtest" THEN "" ELSE t.host, interval |-> p.interval,
               timeout |-> p.timeout, port |-> IF kind = "tcp" THEN p.port ELSE 0]
        BY <3>4, <3>5, ConstructKeeps
      <3>7. RunsAs(i, kind)
        BY <2>1, <3>4, <3>6 DEF RunsAs, p, t
      <3>8. p.interval > 0 /\ p.timeout > 0 /\ (kind = "tcp" => p.port \in Ports)
        BY <3>5 DEF ValidProbe
      <3> QED
        BY <3>7, <3>8 DEF p, t
    <2>4. ASSUME NEW n \in DOMAIN doing
          PROVE  \E c \in Configured : IsFirst(c[1], c[2]) /\ n = NameIn(c[1], c[2])
      <3>1. PICK i, k \in Nat : Passed(i, k) /\ IsFirst(i, KindOrder[k]) /\ n = Name(i, k)
        BY <2>1, <2>4 DEF RegistrationInv, WorkersHavePassed
      <3>2. /\ i \in 1..Len(config.targets) /\ k \in 1..6
            /\ KindOrder[k] \in DOMAIN config.targets[i].probes
        BY <3>1 DEF Passed
      <3>3. KindOrder[k] \in Kinds
        BY <3>2 DEF KindOrder, Kinds
      <3>4. <<i, KindOrder[k]>> \in Configured
        BY <3>2, <3>3 DEF Configured
      <3> QED
        BY <3>1, <3>4 DEF Name, NameIn
    <2> QED
      BY <2>3, <2>4 DEF RunsAsConfigured, Configured
  <1> QED
    BY <1>1, ConfigTypedAlways, LoadInvAlways, RegistrationAlways, PTL

-------------------------------------------------------------------------------------
(* The rest of the type invariant. *)

TelemetryTyped ==
  /\ server \in {"none", "listening", "broken", "draining", "closed"}
  /\ scraping \in BOOLEAN /\ gaveUp \in BOOLEAN /\ flushed \in BOOLEAN
  /\ exporter.scheme \in {"none", "http", "https"} /\ exporter.insecure \in BOOLEAN
  /\ provider \in {"none", "open", "closed"}
  /\ aggregation.kind \in {"none", "explicit", "exponential"}
  /\ recorded \in Nat /\ exported \in 0..recorded

AppTyped ==
  /\ main \in {"loading", "listen", "exporter", "provider", "instruments", "register",
               "waiting", "stopping", "draining", "cleanup", "returned"}
  /\ outcome \in {"running", "ok", "error", "killed"} /\ ctxDone \in BOOLEAN
  /\ next \in 0..(Len(config.targets) * 6)
  /\ DOMAIN doing \subseteq DOMAIN workers
  /\ \A n \in DOMAIN doing : doing[n] \in {"new", "checking", "idle", "exited"}

LEMMA ExporterIsTyped ==
  ASSUME CreateExporter
  PROVE  exporter'.scheme \in {"none", "http", "https"} /\ exporter'.insecure \in BOOLEAN
  <1>1. PICK endpoint \in Endpoints, general, metrics \in ProtocolNames :
               NewOTLPExporter(endpoint, general, metrics)
    BY DEF CreateExporter, Spelling, Endpoints
  <1> DEFINE protocol == Protocol(endpoint, general, metrics)
  <1>2. exporter' = [scheme |-> endpoint.scheme, protocol |-> protocol,
                     insecure |-> InsecureOption(protocol, endpoint)]
    BY <1>1 DEF NewOTLPExporter
  <1> HIDE DEF protocol
  <1>3. endpoint.scheme \in {"none", "http", "https"}
    BY DEF Endpoints
  <1>4. InsecureOption(protocol, endpoint) \in BOOLEAN
    BY DEF InsecureOption
  <1> QED
    BY <1>2, <1>3, <1>4

LEMMA TelemetryTypedStep ==
  TelemetryTyped /\ [StartupNext]_vars => TelemetryTyped'
  <1> SUFFICES ASSUME TelemetryTyped, [StartupNext]_vars PROVE TelemetryTyped'
    OBVIOUS
  <1> USE DEF TelemetryTyped, telemetryVars, serverVars, meterVars
  <1>1. CASE CreateExporter
    <2>1. UNCHANGED <<serverVars, meterVars>>
      BY <1>1 DEF CreateExporter, NewOTLPExporter
    <2> QED
      BY <1>1, <2>1, ExporterIsTyped
  <1>2. CASE CreateProvider
    <2>1. /\ provider' = "open" /\ aggregation'.kind \in {"explicit", "exponential"}
          /\ UNCHANGED <<serverVars, exporter, recorded, exported, flushed>>
      BY <1>2 DEF CreateProvider, NewProvider
    <2> QED
      BY <2>1
  <1>3. CASE Cleanup
    BY <1>3 DEF Cleanup, ShutdownProvider
  <1>4. CASE Outside
    <2>1. CASE ServeFails \/ ScrapeBegins \/ ScrapeEnds
      BY <2>1 DEF ServeFails, ScrapeBegins, ScrapeEnds
    <2>2. CASE Export
      BY <2>2 DEF Export
    <2> QED
      BY <1>4, <2>1, <2>2 DEF Outside
  <1>5. CASE \E n \in DOMAIN doing : WorkerStep(n)
    BY <1>5 DEF WorkerStep, FirstCheck, CheckOnTick, FinishCheck, WorkerExits, Record
  <1>6. CASE Listen
    BY <1>6 DEF Listen, StartMetricsServer
  <1>7. CASE StopReturns
    BY <1>7 DEF StopReturns, CloseListener
  <1>8. CASE ServerIsDown
    BY <1>8 DEF ServerIsDown, Drained, DrainTimesOut
  <1>9. CASE UNCHANGED telemetryVars
    BY <1>9
  <1> QED
    BY <1>1, <1>2, <1>3, <1>4, <1>5, <1>6, <1>7, <1>8, <1>9
    DEF StartupNext, RunAppStep, Load, FileEdited, Signal, ListenFails, CreateExporterFails,
        CreateProviderFails, CreateInstruments, CreateInstrumentsFails, RegisterNext,
        StartWorkers, BeginStop, vars

LEMMA AppTypedStep ==
  ConfigTyped /\ ConfigTyped' /\ RegistrationInv /\ AppTyped /\ [StartupNext]_vars => AppTyped'
  <1> SUFFICES ASSUME ConfigTyped, ConfigTyped', RegistrationInv, AppTyped, [StartupNext]_vars
               PROVE  AppTyped'
    OBVIOUS
  <1> USE DEF AppTyped, Return, Goto, configVars, appVars
  <1>1. Len(config.targets) \in Nat /\ Len(config.targets)' \in Nat
    BY DEF ConfigTyped, IsConfig, AreTargets
  <1>2. CASE Load
    <2>1. next' = 0 /\ main' \in {"loading", "listen", "returned"}
          /\ outcome' \in {"running", "ok", "error", "killed"}
          /\ UNCHANGED <<ctxDone, workers, doing>>
      BY <1>2 DEF Load, RegistrationInv, Phases
    <2> QED
      BY <1>1, <2>1
  <1>3. CASE RegisterNext
    <2>1. next' \in 0..(Len(config.targets) * 6)
      BY <1>1, <1>3, SixKinds DEF RegisterNext
    <2>2. UNCHANGED <<config, main, outcome, ctxDone, doing>>
      BY <1>3 DEF RegisterNext
    <2>3. DOMAIN workers \subseteq DOMAIN workers'
      BY <1>3 DEF RegisterNext, RegisterWorker
    <2> QED
      BY <2>1, <2>2, <2>3
  <1>4. CASE StartWorkers
    BY <1>4 DEF StartWorkers
  <1>5. CASE \E n \in DOMAIN doing : WorkerStep(n)
    BY <1>5 DEF WorkerStep, FirstCheck, CheckOnTick, FinishCheck, WorkerExits, Do
  <1>6. CASE FileEdited \/ Signal \/ Outside \/ UNCHANGED vars
    BY <1>6 DEF FileEdited, Edit, Signal, Outside, vars
  <1>7. CASE \/ Listen \/ ListenFails \/ CreateExporter \/ CreateExporterFails
             \/ CreateProvider \/ CreateProviderFails \/ CreateInstruments
             \/ CreateInstrumentsFails \/ BeginStop \/ StopReturns \/ ServerIsDown \/ Cleanup
    BY <1>7 DEF Listen, ListenFails, CreateExporter, CreateExporterFails, CreateProvider,
                CreateProviderFails, CreateInstruments, CreateInstrumentsFails, BeginStop,
                StopReturns, ServerIsDown, Cleanup
  <1> QED
    BY <1>2, <1>3, <1>4, <1>5, <1>6, <1>7 DEF StartupNext, RunAppStep

(***********************************************************************************)
(* Type correctness of a whole run: the registration loop stays within the targets   *)
(* whichever version of the file they come from, only what is registered runs, and   *)
(* the collector never has more than was measured (run.go:31-182).                   *)
(***********************************************************************************)
THEOREM StartupTypeCorrect == StartupSpec => []StartupTypeOK
  <1>1. StartupInit => TelemetryTyped /\ (ConfigTyped => AppTyped)
    <2> SUFFICES ASSUME StartupInit PROVE TelemetryTyped /\ (ConfigTyped => AppTyped)
      OBVIOUS
    <2>1. TelemetryTyped
      <3>1. /\ exporter.scheme = "none" /\ exporter.insecure = FALSE
            /\ aggregation.kind = "none"
        BY DEF StartupInit, TelemetryInit, NoExporter, NoAggregation
      <3>2. /\ server = "none" /\ scraping = FALSE /\ gaveUp = FALSE
            /\ provider = "none" /\ recorded = 0 /\ exported = 0 /\ flushed = FALSE
        BY DEF StartupInit, TelemetryInit
      <3>3. /\ scraping \in BOOLEAN /\ gaveUp \in BOOLEAN /\ flushed \in BOOLEAN
            /\ exporter.insecure \in BOOLEAN
        BY <3>1, <3>2
      <3>4. recorded \in Nat /\ exported \in 0..recorded
        BY <3>2
      <3> QED
        BY <3>1, <3>2, <3>3, <3>4, Zenon DEF TelemetryTyped
    <2>2. ASSUME ConfigTyped PROVE AppTyped
      <3>1. Len(config.targets) \in Nat
        BY <2>2 DEF ConfigTyped, IsConfig, AreTargets
      <3>2. DOMAIN doing = {}
        BY DEF StartupInit
      <3>3. /\ main = "loading" /\ outcome = "running" /\ ctxDone = FALSE
            /\ next \in 0..(Len(config.targets) * 6)
        BY <3>1 DEF StartupInit
      <3> QED
        BY <3>2, <3>3 DEF AppTyped
    <2> QED
      BY <2>1, <2>2
  <1>2. ConfigTyped /\ TelemetryTyped /\ AppTyped => StartupTypeOK
    <2> SUFFICES ASSUME ConfigTyped, TelemetryTyped, AppTyped PROVE StartupTypeOK
      OBVIOUS
    <2>1. /\ config.settings \in Settings /\ config.buckets \in Seq(Floats)
          /\ AreTargets(config.targets) /\ DOMAIN config = DOMAIN NewDefaultConfig
      BY DEF ConfigTyped, IsConfig, NewDefaultConfig
    <2> QED
      BY <2>1, SixKinds DEF ConfigTyped, TelemetryTyped, AppTyped, StartupTypeOK
  <1> QED
    BY <1>1, <1>2, ConfigTypedAlways, RegistrationAlways, TelemetryTypedStep, AppTypedStep, PTL
    DEF StartupSpec

-------------------------------------------------------------------------------------
(* Histogram boundaries. *)

\* A set of numbers has a least element.
LEMMA LeastExists ==
  ASSUME NEW S, S \subseteq Nat, S # {}
  PROVE  \E x \in S : \A y \in S : x <= y
  <1> DEFINE Less == {p \in Nat \X Nat : p[1] < p[2]}
  <1>1. IsWellFoundedOn(Less, Nat)
    BY NatLessThanWellFounded DEF OpToRel
  <1>2. \E x \in S : \A y \in S : ~ (<<y, x>> \in Less)
    <2> HIDE DEF Less
    <2> QED
      BY <1>1, WFMin
  <1>3. PICK x \in S : \A y \in S : ~ (<<y, x>> \in Less)
    BY <1>2
  <1>4. x \in Nat /\ \A y \in S : y \in Nat /\ ~ (y < x)
    BY <1>3
  <1> QED
    BY <1>4

\* Validate compares neighbours, and that is enough where no NaN comes between: otherwise
\* take the least index that does not exceed some index before it with no NaN between
\* them, and look at its left neighbour.
LEMMA NeighboursDecide ==
  ASSUME NEW b \in Seq(Floats), ValidBuckets(b)
  PROVE  \A i, j \in 1..Len(b) :
           i <= j /\ (\A k \in i..j : b[k] # NaN) => b[i] > 0 /\ (i < j => b[i] < b[j])
  <1> DEFINE Numbers(i, j) == \A k \in i..j : b[k] # NaN
             Misplaced ==
               {j \in 1..Len(b) : \E i \in 1..Len(b) : i < j /\ Numbers(i, j) /\ ~(b[i] < b[j])}
  <1>1. Len(b) \in Nat /\ \A i \in 1..Len(b) : b[i] # NaN => b[i] \in Int /\ b[i] > 0
    <2>1. NaN # 0
      BY NaNAssumption
    <2> QED
      BY <2>1 DEF ValidBuckets, NotAbove, Floats
  <1>2. \A i \in 1..Len(b) : i > 1 /\ b[i] # NaN /\ b[i - 1] # NaN => b[i] > b[i - 1]
    <2> SUFFICES ASSUME NEW i \in 1..Len(b), i > 1, b[i] # NaN, b[i - 1] # NaN
                 PROVE  b[i] > b[i - 1]
      OBVIOUS
    <2>1. i - 1 \in 1..Len(b) /\ b[i] \in Int /\ b[i - 1] \in Int
      BY <1>1
    <2>2. ~(b[i] <= b[i - 1])
      BY DEF ValidBuckets, NotAbove
    <2> QED
      BY <2>1, <2>2
  <1>3. ASSUME Misplaced # {} PROVE FALSE
    <2>1. PICK j \in Misplaced : \A k \in Misplaced : j <= k
      <3>1. Misplaced \subseteq Nat
        BY <1>1
      <3> HIDE DEF Misplaced
      <3> QED
        BY <1>3, <3>1, LeastExists
    <2>2. PICK i \in 1..Len(b) : i < j /\ Numbers(i, j) /\ ~(b[i] < b[j])
      BY <2>1
    <2>3. j \in 1..Len(b) /\ j > 1 /\ j - 1 \in 1..Len(b)
      BY <1>1, <2>1, <2>2
    <2>4. /\ Numbers(i, j - 1)
          /\ b[i] # NaN /\ b[j] # NaN /\ b[j - 1] # NaN
      BY <1>1, <2>2, <2>3
    <2>5. b[j] > b[j - 1]
      BY <1>2, <2>3, <2>4
    <2>6. b[i] \in Int /\ b[j] \in Int /\ b[j - 1] \in Int
      BY <1>1, <2>3, <2>4
    <2> HIDE DEF Numbers
    <2>7. i < j - 1 /\ ~(b[i] < b[j - 1])
      BY <1>1, <2>2, <2>3, <2>5, <2>6
    <2>8. j - 1 \in Misplaced
      BY <2>2, <2>3, <2>4, <2>7
    <2>9. j \in Nat
      BY <1>1, <2>3
    <2> HIDE DEF Misplaced
    <2>10. j <= j - 1
      BY <2>1, <2>8
    <2> QED
      BY <2>9, <2>10
  <1>4. \A i, j \in 1..Len(b) : i < j /\ Numbers(i, j) => b[i] < b[j]
    BY <1>3
  <1>5. \A i, j \in 1..Len(b) : i <= j /\ Numbers(i, j) => b[i] > 0
    BY <1>1
  <1> QED
    BY <1>4, <1>5

LEMMA DefaultsAreValid ==
  DefaultLatencyBuckets \in Seq(Floats) /\ ValidBuckets(DefaultLatencyBuckets)
  BY DEF DefaultLatencyBuckets, ValidBuckets, NotAbove, Floats

BoundariesInv == aggregation.boundaries \in Seq(Floats) /\ ValidBuckets(aggregation.boundaries)

(***********************************************************************************)
(* The boundaries that the SDK gets are positive and increase wherever no NaN comes  *)
(* between them, whichever version of the file they come from and for any number of *)
(* them (config.go:249, provider.go:93).                                            *)
(***********************************************************************************)
THEOREM HistogramsAreOrdered == StartupSpec => []BoundariesAreOrdered
  <1>1. StartupInit => BoundariesInv
    <2> SUFFICES ASSUME StartupInit PROVE BoundariesInv
      OBVIOUS
    <2>1. aggregation.boundaries = <<>>
      BY DEF StartupInit, TelemetryInit, NoAggregation
    <2> QED
      BY <2>1 DEF BoundariesInv, ValidBuckets
  <1>2. BoundariesInv => BoundariesAreOrdered
    BY NeighboursDecide DEF BoundariesInv, BoundariesAreOrdered
  <1>3. ConfigTyped /\ LoadInv /\ RegistrationInv /\ BoundariesInv /\ [StartupNext]_vars
          => BoundariesInv'
    <2> SUFFICES ASSUME ConfigTyped, LoadInv, RegistrationInv, BoundariesInv, [StartupNext]_vars
                 PROVE  BoundariesInv'
      OBVIOUS
    <2>1. CASE CreateProvider
      <3>1. config.buckets \in Seq(Floats) /\ ValidBuckets(config.buckets)
        BY <2>1 DEF CreateProvider, RegistrationInv, Phases, Setup, LoadInv, ValidConfig,
                    ConfigTyped, IsConfig
      <3>2. aggregation'.boundaries \in {<<>>, DefaultLatencyBuckets, config.buckets}
        BY <2>1 DEF CreateProvider, NewProvider
      <3>3. <<>> \in Seq(Floats) /\ ValidBuckets(<<>>)
        BY DEF ValidBuckets
      <3> QED
        BY <3>1, <3>2, <3>3, DefaultsAreValid DEF BoundariesInv
    <2>2. CASE UNCHANGED aggregation
      BY <2>2 DEF BoundariesInv
    <2>3. CreateProvider \/ UNCHANGED aggregation
      BY DEF StartupNext, vars, telemetryVars, meterVars, Load, FileEdited, Signal, RunAppStep,
             Listen, ListenFails, StartMetricsServer, CreateExporter, NewOTLPExporter,
             CreateExporterFails, CreateProviderFails, CreateInstruments,
             CreateInstrumentsFails, RegisterNext, StartWorkers, BeginStop, StopReturns,
             CloseListener, ServerIsDown, Drained, DrainTimesOut, Cleanup, ShutdownProvider,
             WorkerStep, FirstCheck, CheckOnTick, FinishCheck, Record, WorkerExits, Outside,
             ServeFails, ScrapeBegins, ScrapeEnds, Export
    <2> QED
      BY <2>1, <2>2, <2>3
  <1> QED
    BY <1>1, <1>2, <1>3, ConfigTypedAlways, LoadInvAlways, RegistrationAlways, PTL
    DEF StartupSpec

=====================================================================================
