--------------------------- MODULE SettingsBounds ---------------------------
(* The bounds of a setting, which the program keeps in three places: the       *)
(* dashboard refuses what lies outside them (handlePutSettings and the         *)
(* validators it calls), Config.Validate repairs what a save or a hand-edited  *)
(* file holds, and an agent overlays what its dashboard serves, clamping again *)
(* (applyRemoteConfig).  One behaviour carries one setting the whole way:      *)
(* request or editor, config.json, the running service, the agent.             *)
(*                                                                             *)
(* Numbers are the source's own bounds; the two fractional ones are scaled     *)
(* (spike_threshold in 1e-9, mean_prior in tenths).  A notification target is  *)
(* a record whose strings are reduced to what the rules tell apart, and each   *)
(* rule looks at one target alone, so that a list of them is a set; a map of   *)
(* per-channel cooldowns has the raw keys "", "a", "a " and "b".               *)
EXTENDS Integers, FiniteSets, Sequences

CONSTANT MaxOverrides      \* 256 in the code: entries of the cooldown map

ASSUME BoundsAssumption == MaxOverrides \in Nat

VARIABLES
    kind,       \* what is carried: "number", "target", "cooldowns"
    origin,     \* "dashboard" (a PUT) or "editor" (config.json edited by hand)
    sent,       \* the value sent or typed
    hop,        \* how far it has come
    saved,      \* << value in config.json >>, or << >>
    inUse,      \* << value the service runs with >>, or << >>
    agent       \* << value the agent has taken from the dashboard >>, or << >>

boundVars == <<kind, origin, sent, hop, saved, inUse, agent>>

-----------------------------------------------------------------------------
(* Numbers.  "repair" is what Config.Validate does with a value out of range:  *)
(* reset it to the default, clamp it to the nearer bound, or, for the spike    *)
(* detector's knobs, take 0 for "not set" and clamp the rest.  "put" says      *)
(* whether the dashboard may set the field and "wire" how an agent takes it.   *)
NoLimit == 10000000

Field(lo, hi, default, repair, put, wire) ==
    [lo |-> lo, hi |-> hi, default |-> default, repair |-> repair,
     put |-> put, wire |-> wire]

Spike(lo, hi, default) == Field(lo, hi, default, "zero", "range", "knob")

Fields ==
    [grace_period        |-> Field(1, 1440, 60, "reset", "range", "positive"),
     poll_interval       |-> Field(10, 86400, 300, "reset", "range", "positive"),
     session_warning     |-> Field(0, 100, 80, "clamp", "range", "natural"),
     retention_days      |-> Field(1, 365, 90, "clamp", "none", "none"),
     audit_days          |-> Field(1, 3650, 365, "clamp", "none", "none"),
     aggregator_interval |-> Field(10, 3600, 300, "reset", "none", "none"),
     retention_interval  |-> Field(1, 1440, 60, "reset", "none", "none"),
     dashboard_port      |-> Field(1, 65535, 49470, "reset", "none", "none"),
     memory_limit        |-> Field(32, 4096, 32, "clamp", "none", "none"),
     sample_interval     |-> Field(10, 300, 60, "zero", "or zero", "copied"),
     alert_delay         |-> Field(0, NoLimit, 120, "zero only", "range", "copied"),
     update_poll_hours   |-> Field(1, NoLimit, 24, "zero", "range", "copied"),
     top_processes       |-> Field(0, 5, 3, "reset", "range", "policy"),
     retention_hours     |-> Field(1, 168, 24, "reset", "range", "none"),
     min_count           |-> Spike(1, 10000, 10),
     spike_threshold     |-> Spike(1, 100000000, 100000),
     cooldown_minutes    |-> Spike(1, 1440, 60),
     maturity            |-> Spike(1, 10000, 630),
     persist_interval    |-> Spike(60, 86400, 900),
     half_life           |-> Spike(60, 10000, 630),
     prior_strength      |-> Spike(1, 10000, 60),
     mean_prior          |-> Spike(0, 10000, 1)]

Boundary(f) ==
    LET b == Fields[f]
    IN  {-1, 0, b.lo - 1, b.lo, b.default, b.hi, b.hi + 1}

InRange(b, v) == b.lo <= v /\ v <= b.hi

Nearest(b, v) == IF v < b.lo THEN b.lo ELSE IF v > b.hi THEN b.hi ELSE v

(* The range checks of handlePutSettings, ValidateEvtSpikePatch and            *)
(* ValidateSessionsConfig.                                                     *)
NumberAccepted(n) ==
    LET b == Fields[n.field]
    IN  /\ b.put # "none"
        /\ InRange(b, n.value) \/ (b.put = "or zero" /\ n.value = 0)

Repaired(b, v) ==
    CASE b.repair = "reset"     -> IF InRange(b, v) THEN v ELSE b.default
      [] b.repair = "clamp"     -> Nearest(b, v)
      [] b.repair = "zero"      -> IF v = 0 THEN b.default ELSE Nearest(b, v)
      [] b.repair = "zero only" -> IF v = 0 THEN b.default ELSE v

NumberValidated(n) == [n EXCEPT !.value = Repaired(Fields[n.field], @)]

(* applyRemoteConfig, overlayEvtSpikeFromRemote, clampRemoteInt and            *)
(* applyRemoteSessionsConfig: what the agent keeps of its own value (here the  *)
(* default) when the wire carries a value it does not take.                    *)
Overlaid(b, v) ==
    CASE b.wire = "positive" -> IF v > 0 THEN Nearest(b, v) ELSE b.default
      [] b.wire = "natural"  -> IF v >= 0 THEN Nearest(b, v) ELSE b.default
      [] b.wire = "knob"     -> IF v = 0 THEN b.default ELSE Nearest(b, v)
      [] b.wire = "policy"   -> IF InRange(b, v) THEN v ELSE b.default
      [] b.wire = "copied"   -> v

NumberRemote(n) == {[n EXCEPT !.value = Overlaid(Fields[n.field], @)]}

-----------------------------------------------------------------------------
(* Notification targets.                                                       *)
DefaultTriggers == {"alert", "healthy"}
ValidTriggers   == {"alert", "healthy", "event_spike"}

Plain == [type |-> "webhook", url |-> "http", triggers |-> {}, excluded |-> "nobody",
          exclusion |-> {}, repeat |-> 0, severity |-> "alert", addressed |-> FALSE]

Targets ==
    [type : {"webhook", "email"}, url : {"none", "http", "smtp"},
     triggers : {{}, {"event_spike"}, {"alert", "bogus"}, {"bogus"}},
     excluded : {"nobody", "blank", "dot", "h1"}, exclusion : {{}, {"alert"}, {"event_spike"}},
     repeat : {-1, 10080, 10081}, severity : {"alert", "loud"}, addressed : BOOLEAN]
    \union {[Plain EXCEPT !.type = "sms"], [Plain EXCEPT !.url = "ftp"]}

HasTrigger(t, tr) == tr \in IF t.triggers = {} THEN DefaultTriggers ELSE t.triggers

(* validateNotificationTarget.  The server name is trimmed; a lone dot is a    *)
(* name here.  Addresses and severity are not looked at.                       *)
TargetAccepted(t) ==
    /\ t.type # "sms"
    /\ t.url # "ftp"
    /\ t.triggers \subseteq ValidTriggers
    /\ t.excluded # "blank"
    /\ t.excluded # "nobody" =>
         /\ t.exclusion # {}
         /\ \A tr \in t.exclusion : tr \in ValidTriggers /\ HasTrigger(t, tr)
    /\ 0 <= t.repeat /\ t.repeat <= 10080

(* The targets' part of Config.Validate: targets of an unknown type or scheme  *)
(* are dropped, triggers defaulted or stripped, then exclusions, the repeat    *)
(* interval and the severity normalised, and an email target that could not be *)
(* sent to loses its URL.                                                      *)
TriggersKept(t) == IF t.triggers = {} THEN DefaultTriggers ELSE t.triggers \cap ValidTriggers

ExclusionKept(t) ==
    LET s    == [t EXCEPT !.triggers = TriggersKept(t)]
        kept == {tr \in t.exclusion : tr \in ValidTriggers /\ HasTrigger(s, tr)}
    IN  IF t.excluded \in {"nobody", "blank", "dot"} \/ kept = {}
        THEN [s EXCEPT !.excluded = "nobody", !.exclusion = {}]
        ELSE [s EXCEPT !.exclusion = kept]

Sendable(t) == t.type # "email" \/ (t.url = "smtp" /\ t.addressed)

Supported(t) == t.type # "sms" /\ t.url # "ftp"

Normalised(t) ==
    LET u == ExclusionKept(t)
    IN  [u EXCEPT !.repeat = IF @ < 0 THEN 0 ELSE IF @ > 10080 THEN 10080 ELSE @,
                  !.severity = IF @ = "loud" THEN "" ELSE @,
                  !.url = IF Sendable(t) THEN @ ELSE "none"]

TargetValidated(targets) == {Normalised(t) : t \in {u \in targets : Supported(u)}}

-----------------------------------------------------------------------------
(* Per-channel cooldowns, a map from raw channel names to minutes.             *)
RawNames == {"", "a", "a ", "b"}
Trim(name) == IF name = "a " THEN "a" ELSE name
Before(m, n) == <<m, n>> \in {<<"a", "a ">>, <<"a", "b">>, <<"a ", "b">>}
Cooldowns == UNION {[ns -> {0, 1, 1440, 1441}] : ns \in SUBSET RawNames}

CooldownsAccepted(m) ==
    /\ Cardinality(DOMAIN m) <= MaxOverrides
    /\ \A n \in DOMAIN m : n # "" /\ InRange(Fields.cooldown_minutes, m[n])
    /\ \A n1, n2 \in DOMAIN m : Trim(n1) = Trim(n2) => n1 = n2

(* The map under trimmed names, from the raw names ns it keeps.                *)
UnderNames(m, ns, Clamped(_, _)) ==
    [c \in {Trim(n) : n \in ns} |->
        Clamped(Fields.cooldown_minutes, m[CHOOSE n \in ns : Trim(n) = c])]

(* normalizeEvtSpikeChannelCooldowns: raw names in order, the first of two     *)
(* that trim alike, no more than the limit.                                    *)
CooldownsValidated(m) ==
    LET First == {n \in DOMAIN m \ {""} :
                    \A o \in DOMAIN m : Trim(o) = Trim(n) /\ Before(o, n) => o = n}
        kept  == {n \in First : Cardinality({o \in First : Before(o, n)}) < MaxOverrides}
    IN  UnderNames(m, kept, Repaired)

(* clampRemoteChannelCooldowns ranges over the map in no particular order.     *)
CooldownsRemote(m) ==
    LET names == {Trim(n) : n \in DOMAIN m} \ {""}
        Full(ns) == /\ {Trim(n) : n \in ns} \subseteq names
                    /\ \A n1, n2 \in ns : Trim(n1) = Trim(n2) => n1 = n2
                    /\ Cardinality(ns) = IF Cardinality(names) < MaxOverrides
                                         THEN Cardinality(names) ELSE MaxOverrides
    IN  {UnderNames(m, ns, Overlaid) : ns \in {s \in SUBSET DOMAIN m : Full(s)}}

-----------------------------------------------------------------------------
Inputs(k) ==
    CASE k = "number"    -> UNION {[field : {f}, value : Boundary(f)] : f \in DOMAIN Fields}
      [] k = "target"    -> {{t} : t \in Targets}
      [] k = "cooldowns" -> Cooldowns

Accepted(k, v) ==
    CASE k = "number"    -> NumberAccepted(v)
      [] k = "target"    -> \A t \in v : TargetAccepted(t)
      [] k = "cooldowns" -> CooldownsAccepted(v)

(* Config.Validate.        *)
Validated(k, v) ==
    CASE k = "number"    -> NumberValidated(v)
      [] k = "target"    -> TargetValidated(v)
      [] k = "cooldowns" -> CooldownsValidated(v)

(* What readModifyWrite writes; mutant: it forgets to validate first. *)
Persisted_AsSent(k, v) == v
Persisted(k, v) == Validated(k, v)

(* What an agent may end up with: targets and performance settings are copied. *)
Remote(k, v) ==
    CASE k = "number"    -> NumberRemote(v)
      [] k = "target"    -> {v}
      [] k = "cooldowns" -> CooldownsRemote(v)

OnTheWire(k, v) == k = "number" => Fields[v.field].wire # "none"

BoundsInit ==
    /\ kind \in {"number", "target", "cooldowns"}
    /\ origin \in {"dashboard", "editor"}
    /\ sent \in Inputs(kind)
    /\ hop = "sent"
    /\ saved = <<>> /\ inUse = <<>> /\ agent = <<>>

(* handlePutSettings answers 400, or saves: readModifyWrite validates the      *)
(* configuration before it writes it.                                          *)
Refuse ==
    /\ hop = "sent" /\ origin = "dashboard" /\ ~Accepted(kind, sent)
    /\ hop' = "refused"
    /\ UNCHANGED <<kind, origin, sent, saved, inUse, agent>>

Put ==
    /\ hop = "sent" /\ origin = "dashboard" /\ Accepted(kind, sent)
    /\ hop' = "saved" /\ saved' = <<Persisted(kind, sent)>>
    /\ UNCHANGED <<kind, origin, sent, inUse, agent>>

EditByHand ==
    /\ hop = "sent" /\ origin = "editor"
    /\ hop' = "saved" /\ saved' = <<sent>>
    /\ UNCHANGED <<kind, origin, sent, inUse, agent>>

(* loadConfigLocked validates what it has read.                                *)
LoadSettings ==
    /\ hop = "saved"
    /\ hop' = "loaded" /\ inUse' = <<Validated(kind, saved[1])>>
    /\ UNCHANGED <<kind, origin, sent, saved, agent>>

(* GET /api/v1/config loads the file again and serves it.                      *)
FetchSettings ==
    /\ hop = "loaded" /\ OnTheWire(kind, saved[1])
    /\ hop' = "fetched"
    /\ \E v \in Remote(kind, inUse[1]) : agent' = <<v>>
    /\ UNCHANGED <<kind, origin, sent, saved, inUse>>

(* An agent on which performance monitoring is forced off takes none of its    *)
(* settings.                                                                   *)
FetchForced ==
    /\ hop = "loaded" /\ kind = "number"
    /\ saved[1].field \in {"sample_interval", "alert_delay"}
    /\ hop' = "fetched"
    /\ UNCHANGED <<kind, origin, sent, saved, inUse, agent>>

BoundsNext ==
    Refuse \/ Put \/ EditByHand \/ LoadSettings \/ FetchSettings \/ FetchForced

BoundsSpec == BoundsInit /\ [][BoundsNext]_boundVars
-----------------------------------------------------------------------------
BoundsTypeOK ==
    /\ hop \in {"sent", "refused", "saved", "loaded", "fetched"}
    /\ kind \in {"number", "target", "cooldowns"}
    /\ origin \in {"dashboard", "editor"}
    /\ \A v \in {saved, inUse, agent} : Len(v) \in {0, 1}

(* A setting made on the dashboard reads back as it was written: loading the   *)
(* file the save produced repairs nothing a second time (config.go:542-544,    *)
(* the same Validate before every save and after every load).                  *)
SavedSettingsReadBack ==
    origin = "dashboard" /\ inUse # <<>> => inUse = saved

(* An agent that takes a setting takes what was set on the dashboard: clamping *)
(* once more changes nothing that Validate has let through (applyRemoteConfig, *)
(* internal/svc/check.go:804-816).  A mean of -1 typed into the file is        *)
(* clamped to 0, which the wire takes for "not set": hence the premise.        *)
AgentTakesTheDashboardsValue == origin = "dashboard" /\ agent # <<>> => agent = inUse

(* Whatever is typed into config.json, the service runs inside the documented  *)
(* ranges, with at most MaxOverrides cooldowns under distinct trimmed names,   *)
(* and never excludes a server from a trigger its target does not have.        *)
RunsInBounds ==
    inUse # <<>> =>
      /\ kind = "number" /\ Fields[sent.field].repair # "zero only" =>
           InRange(Fields[sent.field], inUse[1].value)
      /\ kind = "cooldowns" =>
           /\ Cardinality(DOMAIN inUse[1]) <= MaxOverrides
           /\ \A c \in DOMAIN inUse[1] :
                c \notin {"", "a "} /\ InRange(Fields.cooldown_minutes, inUse[1][c])
      /\ kind = "target" =>
           \A t \in inUse[1] : \A tr \in t.exclusion : HasTrigger(t, tr)

(* A setting means the same wherever it is used: in the file, in the service   *)
(* and on an agent that takes it (Validate, applyRemoteConfig).                *)
SettingsHold ==
    SavedSettingsReadBack /\ AgentTakesTheDashboardsValue /\ RunsInBounds
=============================================================================
