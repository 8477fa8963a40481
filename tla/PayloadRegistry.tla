-------------------------- MODULE PayloadRegistry ---------------------------
(***************************************************************************)
(* The payload files of the configuration: how they are validated when the *)
(* configuration is loaded (src/config.rs), and how the registry of aliases*)
(* is built from them before the strategies are rendered                   *)
(* (src/payload_registry.rs).  Both derive names from the files, each in   *)
(* its own way: validation takes the stem of a file as it is, the registry *)
(* cleans it.                                                              *)
(*                                                                         *)
(* Names are numbers in the order of the strings.                          *)
(***************************************************************************)
EXTENDS Naturals, Sequences, FiniteSets, Functions

CONSTANTS
  Names,     \* of aliases and of stems
  Valid,     \* the names of letters, digits and underscores, at least one
  Reserved,  \* the builtin payload aliases
  Cleaned,   \* a stem in lower case, with runs of other characters as one underscore inside
  Files,     \* paths of files
  Stem,      \* the stem of a path
  Present,   \* the paths at which there is a file when the registry is built
  NoFile     \* the path of a builtin payload

VARIABLES
  payloads,  \* [blobs] and [payloads] of the configuration
  status,    \* what has become of it
  pushed,    \* how many protocols the registry has
  registry   \* the payloads of these

registryVars == <<payloads, status, pushed, registry>>

Protocols == <<"http", "tls", "quic">>

\* for each protocol: builtin aliases, files, and explicit aliases of further files
PayloadConfigOK(c) ==
  /\ c.max \in Nat /\ c.autoLoad \in BOOLEAN /\ c.baseDir \in {"none", "missing", "there"}
  /\ \A p \in Range(Protocols) :
       /\ c.protocol[p].builtin \in Seq(Names) /\ c.protocol[p].files \in Seq(Files)
       /\ c.protocol[p].aliases \in [DOMAIN c.protocol[p].aliases -> Files]
       /\ DOMAIN c.protocol[p].aliases \subseteq Names /\ IsFiniteSet(DOMAIN c.protocol[p].aliases)

PayloadDef == [protocol : Range(Protocols), alias : Names, path : Files \cup {NoFile}]

RegistryTypeOK ==
  /\ PayloadConfigOK(payloads)
  /\ status \in {"loaded", "refused", "accepted", "failed", "built"}
  /\ pushed \in 0 .. Len(Protocols) /\ (status = "built" <=> pushed = Len(Protocols))
  /\ registry \subseteq PayloadDef

\* before validation; payloads is any configuration
RegistryInit == status = "loaded" /\ pushed = 0 /\ registry = {}

-----------------------------------------------------------------------------
(***************************************************************************)
(* AppConfig::validate_payloads.                                           *)
(***************************************************************************)
FileCount(c) == Len(c.files) + Cardinality(DOMAIN c.aliases)

\* the configured aliases, and the stems as they are
Keys(c) == DOMAIN c.aliases \cup {Stem[f] : f \in Range(c.files)}

\* mutant of Accepted: names may be used again by another protocol
AcceptedPerProtocol ==
  /\ payloads.max > 0
  /\ payloads.autoLoad => payloads.baseDir # "none"
  /\ \A p \in Range(Protocols) :
       LET c == payloads.protocol[p]
       IN  /\ Keys(c) \subseteq Valid \ Reserved
           /\ Cardinality(Keys(c)) = FileCount(c) /\ FileCount(c) <= payloads.max

\* every file has a name of its own among all protocols
Accepted ==
  /\ payloads.max > 0
  /\ payloads.autoLoad => payloads.baseDir # "none"
  /\ \A p \in Range(Protocols) :
       LET c == payloads.protocol[p]
       IN  /\ Keys(c) \subseteq Valid \ Reserved
           /\ Cardinality(Keys(c)) = FileCount(c) /\ FileCount(c) <= payloads.max
           /\ \A q \in Range(Protocols) \ {p} : Keys(c) \cap Keys(payloads.protocol[q]) = {}

Validate ==
  /\ status = "loaded"
  /\ status' = IF Accepted THEN "accepted" ELSE "refused"
  /\ UNCHANGED <<payloads, pushed, registry>>

-----------------------------------------------------------------------------
(***************************************************************************)
(* build_payload_registry, one protocol after the other.                   *)
(***************************************************************************)
\* the map file_payloads; without auto_load there are no files
Loaded(c) ==
  IF payloads.autoLoad THEN {Cleaned[Stem[f]] : f \in Range(c.files)} \cup DOMAIN c.aliases ELSE {}

\* what insert leaves under an alias: an explicit alias comes last, and a later
\* file after an earlier one
PathOf(c, alias) ==
  IF alias \in DOMAIN c.aliases THEN c.aliases[alias]
  ELSE LET named == {i \in DOMAIN c.files : Cleaned[Stem[c.files[i]]] = alias}
       IN  c.files[CHOOSE i \in named : \A j \in named : j <= i]

Taken == {d.alias : d \in registry}

\* push_protocol_payloads returns no error
Pushable(c) ==
  /\ payloads.autoLoad => payloads.baseDir = "there"
  /\ payloads.max > 0 /\ FileCount(c) <= payloads.max
  /\ Range(c.builtin) \subseteq Valid /\ IsInjective(c.builtin)
  /\ Loaded(c) \subseteq Valid \ Reserved
  /\ payloads.autoLoad => Range(c.files) \cup Range(c.aliases) \subseteq Present
  /\ Range(c.builtin) \cap Loaded(c) = {}
  /\ (Range(c.builtin) \cup Loaded(c)) \cap Taken = {}

Defs(p, c) ==
  {[protocol |-> p, alias |-> a, path |-> NoFile] : a \in Range(c.builtin)}
    \cup {[protocol |-> p, alias |-> a, path |-> PathOf(c, a)] : a \in Loaded(c)}

\* an error ends the command, and the registry with it
PushProtocol ==
  /\ status = "accepted"
  /\ LET p == Protocols[pushed + 1]
         c == payloads.protocol[p]
     IN  IF Pushable(c)
         THEN /\ registry' = registry \cup Defs(p, c)
              /\ pushed' = pushed + 1
              /\ status' = IF pushed' = Len(Protocols) THEN "built" ELSE "accepted"
         ELSE /\ registry' = {} /\ status' = "failed"
              /\ UNCHANGED pushed
  /\ UNCHANGED payloads

RegistrySpec ==
  PayloadConfigOK(payloads) /\ RegistryInit /\ [][Validate \/ PushProtocol]_registryVars

-----------------------------------------------------------------------------
\* render_blob_args: what nfqws2 is told to load
BlobArgs == {d \in registry : d.path # NoFile}

\* PayloadAliases::for_protocol_key
ProtocolOf(key) == IF key \in {"tls12", "tls13"} THEN "tls" ELSE key

\* mutant of Offers: the aliases of every protocol
OffersAll(key) == {d.alias : d \in registry}

\* aliases_from_payloads
Offers(key) == {d.alias : d \in {e \in registry : e.protocol = ProtocolOf(key)}}

-----------------------------------------------------------------------------
(***************************************************************************)
(* Properties.                                                             *)
(***************************************************************************)
Configured(p) == LET c == payloads.protocol[p] IN Range(c.files) \cup Range(c.aliases)

\* No two payloads share an alias: nfqws2 is never given two blobs of one name,
\* nor one of the name of a builtin.
AliasesUnique == \A d, e \in registry : d.alias = e.alias => d = e

\* What may spoil an accepted configuration after all: files that are not there,
\* builtin names that are no names or are given to something else too, and stems
\* that are not in their cleaned form, of which validation knows nothing.
Sound ==
  /\ payloads.autoLoad => /\ payloads.baseDir = "there"
                          /\ \A p \in Range(Protocols) : Configured(p) \subseteq Present
  /\ \A p \in Range(Protocols) :
       LET c == payloads.protocol[p]
       IN  /\ \A f \in Range(c.files) : Cleaned[Stem[f]] = Stem[f]
           /\ IsInjective(c.builtin) /\ Range(c.builtin) \subseteq Valid
           /\ \A q \in Range(Protocols) :
                /\ Range(c.builtin) \cap Keys(payloads.protocol[q]) = {}
                /\ p # q => Range(c.builtin) \cap Range(payloads.protocol[q].builtin) = {}

\* The two places that name payload files agree: a sound configuration that
\* validation accepts is built, and each of its files is in the registry under the
\* name it was validated with.
BuiltAsValidated ==
  Sound =>
    /\ status # "failed"
    /\ status = "built" /\ payloads.autoLoad =>
         \A p \in Range(Protocols) :
           LET c == payloads.protocol[p]
           IN  /\ \A f \in Range(c.files) :
                    [protocol |-> p, alias |-> Stem[f], path |-> f] \in registry
               /\ \A a \in DOMAIN c.aliases :
                    [protocol |-> p, alias |-> a, path |-> c.aliases[a]] \in registry
=============================================================================
