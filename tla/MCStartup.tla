-------------------------------- MODULE MCStartup --------------------------------
(* What files, flags and environments TLC tries: the least in which each rule of    *)
(* Validate is broken once, each layer overrides another, and two versions of the   *)
(* file differ both in settings and in targets.                                     *)
EXTENDS Startup, TLC

Probe(interval, timeout, port) == [interval |-> interval, timeout |-> timeout, port |-> port]

Target(name, host, probes) ==
  [name |-> name, host |-> host, ip_version |-> "", probes |-> probes]

One == <<Target("a", "h1", [icmp |-> Probe(1, 1, 0), tcp |-> Probe(2, 1, 65535)])>>

\* Two targets of one name; the second adds a probe and repeats one.
Twice == <<Target("a", "h1", [icmp |-> Probe(1, 1, 0)]),
           Target("a", "h2", [icmp |-> Probe(3, 2, 0), speedtest |-> Probe(9, 5, 0)])>>

Broken == {
  <<Target("a", "h1", [tcp |-> Probe(1, 1, 65536)])>>,
  <<Target("a", "h1", [speedtest |-> Probe(9, 0, 0)])>>,
  <<Target("a", "", [icmp |-> Probe(1, 1, 0)])>>}

File(syntax, settings, buckets, targets) ==
  [syntax |-> syntax, settings |-> settings @@ NoSettings, buckets |-> buckets,
   targets |-> targets]

MCFiles ==
  {File("missing", <<>>, <<>>, <<>>), File("malformed", <<>>, <<>>, <<>>),
   File("mistyped", "log_level" :> "other", <<>>, <<>>),
   File("fine", <<>>, <<>>, One),
   File("fine", "log_level" :> "bad" @@ "otlp_endpoint" :> "other", <<1, 5, NaN, 2>>, Twice),
   File("fine", "histogram_mode" :> "other", <<5, 5>>, One)}
  \cup {File("fine", <<>>, <<>>, ts) : ts \in Broken}

MCFlags == {NoSettings, "log_level" :> "other" @@ NoSettings,
            "metrics_addr" :> "blank" @@ NoSettings}

MCEnvs == {NoSettings, "log_level" :> "blank" @@ "metrics_addr" :> "bad" @@ NoSettings,
           "log_level" :> "default" @@ "otlp_endpoint" :> "default" @@ NoSettings}
=====================================================================================
