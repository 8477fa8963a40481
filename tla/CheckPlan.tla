------------------------------ MODULE CheckPlan -----------------------------
(***************************************************************************)
(* What a check decides before its pool starts (src/main.rs): the          *)
(* configuration is validated, the targets are chosen, the registry of     *)
(* payloads is built, the catalog is rendered with its aliases, and the    *)
(* candidates are selected.  A composition of PayloadRegistry,             *)
(* ProbeTargets, StrategyCatalog and StrategySelection; the baseline and   *)
(* the firewall between these steps are CheckRun's.                        *)
(***************************************************************************)
EXTENDS StrategyCatalog, ProbeTargets

CONSTANTS
  Names, Valid, Reserved, Cleaned, Files, Stem, Present, NoFile,  \* of PayloadRegistry
  Plans      \* the configurations and command lines considered, in groups

VARIABLES
  plan,      \* what the command was started with
  stage,     \* how far it is
  targets,   \* the targets of every strategy, the first that of the baseline
  payloads, status, pushed, registry  \* of PayloadRegistry

Registry == INSTANCE PayloadRegistry

PlanOK(p) ==
  /\ p.request \in Request /\ Registry!PayloadConfigOK(p.payloads) /\ p.options \in OptionSet
  /\ CatalogOK(p.catalog) /\ p.mode \in {"signal", "expand", "force"}
  /\ p.settings.mode \in {"extend", "override"}
  /\ \A q \in {"http", "tls", "quic"} :
       p.settings.values[q] \in [DOMAIN p.settings.values[q] -> Seq(Values)]

ASSUME PlanAssumption ==
  /\ \A group \in DOMAIN Plans : \A p \in Plans[group] : PlanOK(p)
  /\ Stem \in [Files -> Names] /\ Cleaned \in [Names -> Names] /\ NoFile \notin Files
  /\ Names \subseteq Values /\ Keys \subseteq DOMAIN Standard
  /\ Valid \cap DOMAIN BlobName = {}

selectionVars == vars
planVars == <<plan, stage, targets, selectionVars, payloads, status, pushed, registry>>

PlanTypeOK ==
  /\ TypeOK /\ Registry!RegistryTypeOK
  /\ stage \in {"load", "targets", "payloads", "catalog", "select", "refused"}
  /\ targets \in Seq(Target)
  /\ stage \in {"load", "targets"} => targets = <<>>
  /\ stage \in {"catalog", "select"} => status = "built" /\ targets # <<>>

\* before the configuration is read nothing has been rendered
PlanInit ==
  /\ \E group \in DOMAIN Plans : plan \in Plans[group]
  /\ stage = "load" /\ targets = <<>>
  /\ payloads = plan.payloads /\ Registry!RegistryInit
  /\ options = plan.options /\ variants = <<>> /\ Unstarted

-----------------------------------------------------------------------------
\* AppConfig::load
LoadConfig ==
  /\ stage = "load"
  /\ Registry!Validate
  /\ stage' = IF status' = "accepted" THEN "targets" ELSE "refused"
  /\ UNCHANGED <<plan, targets, selectionVars>>

ChooseTargets ==
  /\ stage = "targets"
  /\ IF Acceptable(plan.request)
     THEN stage' = "payloads" /\ targets' = TargetsOf(plan.request)
     ELSE stage' = "refused" /\ UNCHANGED targets
  /\ UNCHANGED <<plan, selectionVars, payloads, status, pushed, registry>>

\* resolve_one fails for one of the hosts
Unresolved ==
  /\ stage = "targets"
  /\ stage' = "refused"
  /\ UNCHANGED <<plan, targets, selectionVars, payloads, status, pushed, registry>>

BuildRegistry ==
  /\ stage = "payloads"
  /\ Registry!PushProtocol
  /\ stage' = CASE status' = "built" -> "catalog"
                [] status' = "failed" -> "refused"
                [] status' = "accepted" -> stage
  /\ UNCHANGED <<plan, targets, selectionVars>>

\* the catalog is rendered for the protocol of the first target
Key == targets[1].protocol

\* the aliases are sorted
Aliases == Sorted(Registry!Offers(Key))

Settings == [mode |-> plan.settings.mode, values |-> plan.settings.values[Registry!ProtocolOf(Key)]]

\* a plain list is taken as it is; a catalog needs a generator for the protocol
LoadCatalog ==
  /\ stage = "catalog"
  /\ IF options.catalog /\ ~HasGenerator(plan.catalog, plan.mode, Key)
     THEN stage' = "refused" /\ UNCHANGED variants
     ELSE /\ stage' = "select"
          /\ variants' = IF options.catalog
                         THEN Rendered(plan.catalog, plan.mode, Key, Aliases, Settings)
                         ELSE plan.catalog.strategies
         /\ Len(variants') \in DOMAIN Digits  \* bound
  /\ UNCHANGED <<plan, targets, options, phase, next, nodes, todo, waiting, served,
                 selected, combined, payloads, status, pushed, registry>>

SelectCandidates ==
  /\ stage = "select" /\ Step
  /\ UNCHANGED <<plan, stage, targets, payloads, status, pushed, registry>>

Ended == stage = "refused" \/ (stage = "select" /\ Finished)

PlanNext == LoadConfig \/ ChooseTargets \/ Unresolved \/ BuildRegistry \/ LoadCatalog
            \/ SelectCandidates \/ (Ended /\ UNCHANGED planVars)

PlanSpec == PlanInit /\ [][PlanNext]_planVars

-----------------------------------------------------------------------------
(***************************************************************************)
(* Properties.                                                             *)
(***************************************************************************)
\* The domains that are probed without TLS when the command line leaves the protocol open.
OverHttp(d, r) == d.scheme = "http" \/ (d.scheme = "none" /\ r.preferred = "http")

\* A check probes no protocol that is disabled, and every domain test_count times, with
\* the protocol of --probe-protocol if there is one. The strategies are rendered for the
\* protocol of the first target: they meet a target of another protocol exactly when
\* neither --host, --url nor --probe-protocol is given and some base domains stand for
\* plain HTTP and some for TLS.
TargetsAgree ==
  targets # <<>> =>
    LET r == plan.request
        times(s, h) == Cardinality({i \in DOMAIN s : s[i].host = h})
    IN  /\ \A t \in Range(targets) : t.protocol \in r.enabled
        /\ \A h \in Hosts :
             times(targets, h) = r.testCount * times(IF r.cli = <<>> THEN r.domains ELSE r.cli, h)
        /\ r.explicit # NotGiven => \A t \in Range(targets) : t.protocol = r.explicit
        /\ (\E t \in Range(targets) : t.protocol # Key) <=>
             /\ r.cli = <<>> /\ r.explicit = NotGiven
             /\ \E d, e \in Range(r.domains) : OverHttp(d, r) /\ ~OverHttp(e, r)

BlobsOf(n) ==
  {a.fill[Blob] : a \in {b \in Range(n.args) : "fill" \in DOMAIN b /\ Blob \in DOMAIN b.fill}}

\* the blobs the candidate declares itself, for files of a fake_dir
BlobsOfItsOwn(n) == {a \in Range(n.args) : "file" \in DOMAIN a}

GivenInActions ==
  LET actions == UNION {Range(f.actions) : f \in Range(plan.catalog.families)}
      own(p) == IF p.name = Blob THEN Range(p.values) \cup Range(p.default) ELSE {}
  IN  UNION {UNION {own(p) : p \in Range(a.params)} : a \in actions}

GivenInGenerators ==
  LET generators == UNION {Range(plan.catalog.signal[k]) : k \in DOMAIN plan.catalog.signal}
      set(p) == IF p.name = Blob THEN Range(p.values) ELSE {}
  IN  UNION {UNION {set(p) : p \in Range(g.params)} : g \in generators}

GivenInSettings == IF Blob \in DOMAIN Settings.values THEN Range(Settings.values[Blob]) ELSE {}

\* the blobs that the catalog and [strategy_values] name themselves
BlobsGiven == GivenInActions \cup GivenInGenerators \cup GivenInSettings

\* What a candidate asks of nfqws2 is there: a blob that the catalog and
\* [strategy_values] do not name is declared by the candidate itself for a file that they
\* name or that a marker among them finds, or is a payload configured for the protocol of
\* the candidates, declared by --blob for its own file or builtin; and no two payloads
\* share a name.
BlobsDeclared ==
  phase = "done" /\ options.catalog =>
    /\ Registry!AliasesUnique
    /\ \A n \in nodes : \A b \in BlobsOf(n) \ BlobsGiven :
         IF BlobsOfItsOwn(n) # {}
         THEN \A own \in BlobsOfItsOwn(n) :
                /\ own.blob = b
                /\ \/ own.file \in BlobsGiven
                   \/ \E m \in BlobsGiven \cap DOMAIN Found : own.file \in Found[m]
         ELSE \E d \in registry :
                /\ d.alias = b /\ d.protocol = Registry!ProtocolOf(Key)
                /\ IF d \in Registry!BlobArgs THEN d.path \in Registry!Configured(d.protocol)
                   ELSE b \in Range(payloads.protocol[d.protocol].builtin)

\* n gives b to the function of a template.
Says(n, template, b) ==
  \E arg \in Range(n.args) : /\ "template" \in DOMAIN arg
                            /\ arg.template = template.text /\ arg.fill[Blob] = b

\* Every payload of the protocol is tried with every action that has a blob for a
\* parameter and a value for every other hole, in every search mode and with
\* [strategy_values] extending or replacing the values of the catalog: a candidate of the
\* list says it, unless a limit of the selection has been reached for the one that would.
PayloadsTried ==
  phase = "done" /\ options.catalog =>
    LET generators == Generators(plan.catalog, plan.mode, Key)
        all   == plan.mode # "signal"
        named == {d.alias : d \in {e \in registry : e.protocol = Registry!ProtocolOf(Key)}}
    IN  \A g \in DOMAIN generators : \A a \in Chosen(plan.catalog, generators[g], Key) :
          LET action   == FamilyOf(plan.catalog.families, generators[g].family).actions[a]
              template == action.template
              filled   == ParamNames(Merged(action, generators[g], all, Aliases, Settings))
              takes    == /\ action.id \notin Legacy /\ Blob \in template.holes
                          /\ Blob \in ParamNames(Params(action, generators[g], all))
                          /\ template.holes \ {Blob} \subseteq filled
          IN  takes => \A b \in named :
                         \/ \E n \in Range(selected) : Says(n, template, b)
                         \/ \E n \in nodes : Says(n, template, b) /\ LimitReached(n)

\* Validation and the registry agree about the payload files (PayloadRegistry).
PayloadsBuiltAsValidated == Registry!BuiltAsValidated
=============================================================================
