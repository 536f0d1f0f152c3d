---------------------------------- MODULE Config ----------------------------------
(***********************************************************************************)
(* config.Load: the operational settings are merged from four layers, flag over     *)
(* environment over file over default; the targets come from the file alone. The    *)
(* file is read twice, by viper for the settings and by os.ReadFile for the targets *)
(* (config.go:174 and 182), and somebody may edit it in between.                    *)
(***********************************************************************************)
EXTENDS Integers, Sequences

CONSTANTS NaN,        \* .nan in the YAML, of type float64
          Files,      \* what the file may contain: see IsFile
          Flags,      \* the flags somebody may give: partial settings
          Envs,       \* the environment: partial settings
          MaxEdits    \* bound: how often the file changes while it is read

Keys == {"log_level", "log_format", "histogram_mode", "metrics_addr", "otlp_endpoint"}

\* root.go declares no --histogram-mode, so BindFlags finds no such flag (config.go:147).
FlagKeys == Keys \ {"histogram_mode"}

Unset == "unset"

\* A value by what Validate and RunApp tell apart: the default, another good one, the
\* empty string, and text that means nothing for the key.
Values == {"default", "other", "blank", "bad"}

Settings == [Keys -> Values]
PartialSettings == [Keys -> Values \cup {Unset}]
NoSettings == [k \in Keys |-> Unset]
Defaults == [k \in Keys |-> "default"]

Kinds == {"icmp", "dns", "http", "tcp", "mtr", "speedtest"}
\* A bucket boundary. Integers stand for the numbers, of which only the order counts.
ASSUME NaNAssumption == NaN \notin Int
Floats == Int \cup {NaN}

ProbeConfigs == [interval : Int, timeout : Int, port : Int]

IsTarget(t) ==
  /\ t.name \in STRING /\ t.host \in STRING /\ t.ip_version \in STRING
  /\ DOMAIN t.probes \subseteq Kinds
  /\ \A kind \in DOMAIN t.probes : t.probes[kind] \in ProbeConfigs

AreTargets(ts) ==
  /\ ts \in Seq({ts[i] : i \in DOMAIN ts})
  /\ \A i \in DOMAIN ts : IsTarget(ts[i])

(***********************************************************************************)
(* syntax: "missing"; "malformed" (not YAML); "mistyped" (YAML that viper accepts    *)
(* and the typed decoding of the targets does not); "fine".                         *)
(***********************************************************************************)
IsFile(f) ==
  /\ f.syntax \in {"missing", "malformed", "mistyped", "fine"}
  /\ f.settings \in PartialSettings
  /\ f.buckets \in Seq(Floats)
  /\ AreTargets(f.targets)

ASSUME FilesAssumption == \A f \in Files : IsFile(f)
ASSUME LayersAssumption == /\ Flags \subseteq PartialSettings
                           /\ \A f \in Flags : \A k \in Keys \ FlagKeys : f[k] = Unset
                           /\ Envs \subseteq PartialSettings
ASSUME EditsAssumption == MaxEdits \in Nat

VARIABLES file,      \* what is on the disk now
          edits,     \* how often it has changed
          flags, env,
          fromFile,  \* what viper has read
          config,    \* cfg
          loader     \* where Load is

configVars == <<file, edits, flags, env, fromFile, config, loader>>

NewDefaultConfig == [settings |-> Defaults, buckets |-> <<>>, targets |-> <<>>]

\* An empty --config skips the file.
ConfigInit ==
  /\ file \in Files
  /\ flags \in Flags
  /\ env \in Envs
  /\ edits = 0
  /\ fromFile = NoSettings
  /\ config = NewDefaultConfig
  /\ loader \in {"reading", "validating"}

\* Somebody edits the file while the program reads it. Nothing reads it later.
Edit ==
  /\ loader \in {"reading", "decoding"}
  /\ edits < MaxEdits
  /\ file' \in Files \ {file}
  /\ edits' = edits + 1
  /\ UNCHANGED <<flags, env, fromFile, config, loader>>

\* v.ReadInConfig.
ReadInConfig ==
  /\ loader = "reading"
  /\ file.syntax \in {"mistyped", "fine"}
  /\ fromFile' = file.settings
  /\ loader' = "decoding"
  /\ UNCHANGED <<file, edits, flags, env, config>>

ReadInConfigFails ==
  /\ loader = "reading"
  /\ file.syntax \in {"missing", "malformed"}
  /\ loader' = "failed"
  /\ UNCHANGED <<file, edits, flags, env, fromFile, config>>

\* os.ReadFile and yaml.Unmarshal into targets and buckets.
DecodeTargets ==
  /\ loader = "decoding"
  /\ file.syntax = "fine"
  /\ config' = [config EXCEPT !.buckets = file.buckets, !.targets = file.targets]
  /\ loader' = "validating"
  /\ UNCHANGED <<file, edits, flags, env, fromFile>>

DecodeTargetsFails ==
  /\ loader = "decoding"
  /\ file.syntax # "fine"
  /\ loader' = "failed"
  /\ UNCHANGED <<file, edits, flags, env, fromFile, config>>

-------------------------------------------------------------------------------------
(* What viper's GetString resolves. An empty environment variable counts as unset.  *)

Over(high, low) == [k \in Keys |-> IF high[k] = Unset THEN low[k] ELSE high[k]]

NotEmpty(layer) == [k \in Keys |-> IF layer[k] = "blank" THEN Unset ELSE layer[k]]

\* Mutant of Merged: NewViper sets no defaults.
MergedNoDefaults == Over(flags, Over(NotEmpty(env), fromFile))

\* Mutant of Merged: the file wins over the environment.
MergedFileFirst == Over(flags, Over(fromFile, Over(NotEmpty(env), Defaults)))

Merged == Over(flags, Over(NotEmpty(env), Over(fromFile, Defaults)))

-------------------------------------------------------------------------------------
(* Validate. *)

Ports == 1..65535

LegalValues(k) ==
  {"default", "other"} \cup
  (IF k \in {"log_format", "histogram_mode"} THEN {"blank"} ELSE {}) \cup
  (IF k \in {"metrics_addr", "otlp_endpoint"} THEN {"bad"} ELSE {})

\* x <= y as Go has it for float64: no comparison with NaN is true.
NotAbove(x, y) == x # NaN /\ y # NaN /\ x <= y

\* Mutant of ValidBuckets: equal neighbours are let through.
ValidBucketsLoose(b) ==
  \A i \in 1..Len(b) : /\ ~NotAbove(b[i], 0)
                       /\ i > 1 => b[i] = b[i - 1] \/ ~NotAbove(b[i], b[i - 1])

\* Validate rejects on b <= 0 and on b <= previous, so a NaN is let through.
ValidBuckets(b) ==
  \A i \in 1..Len(b) : ~NotAbove(b[i], 0) /\ (i > 1 => ~NotAbove(b[i], b[i - 1]))

\* Mutant of ValidProbe: the speedtest is forgotten.
ValidProbeButSpeedtest(kind, p) ==
  kind # "speedtest" => p.interval > 0 /\ p.timeout > 0 /\ (kind = "tcp" => p.port \in Ports)

ValidProbe(kind, p) ==
  p.interval > 0 /\ p.timeout > 0 /\ (kind = "tcp" => p.port \in Ports)

ValidTarget(t) ==
  /\ t.name # "" /\ t.host # ""
  /\ t.ip_version \in {"", "ipv4", "ipv6"}
  /\ \A kind \in DOMAIN t.probes : ValidProbe(kind, t.probes[kind])

ValidConfig(c) ==
  /\ \A k \in Keys : c.settings[k] \in LegalValues(k)
  /\ ValidBuckets(c.buckets)
  /\ \A i \in 1..Len(c.targets) : ValidTarget(c.targets[i])

MergeAndValidate ==
  LET merged == [config EXCEPT !.settings = Merged] IN
  /\ loader = "validating"
  /\ config' = merged
  /\ loader' = IF ValidConfig(merged) THEN "loaded" ELSE "failed"
  /\ UNCHANGED <<file, edits, flags, env, fromFile>>

LoadStep == \/ ReadInConfig \/ ReadInConfigFails
            \/ DecodeTargets \/ DecodeTargetsFails
            \/ MergeAndValidate
=====================================================================================
