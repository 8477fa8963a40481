--------------------------- MODULE StrategyCatalog --------------------------
(***************************************************************************)
(* What the walk over the catalog meets (src/graph.rs): the families a     *)
(* search mode asks for, the actions that a protocol and a generator let   *)
(* through, and for each action every combination of the values of its     *)
(* parameters, filled into its template.  Names and values are numbers in  *)
(* the order of the strings.                                               *)
(***************************************************************************)
EXTENDS StrategySelection

CONSTANTS
  Values,    \* values of parameters, payload filters, files and blobs
  Templates, \* what the actions render
  Standard,  \* the payload filter of a protocol for the functions that use the usual one
  Shown,     \* the values of a suffix parameter that add something to the function
  Unset,     \* a suffix that adds nothing
  Found,     \* the fake_dir markers, each with what it finds in its directory
  BlobName   \* the name of the blob for each file found

Blob    == "blob"
Payload == "payload"

\* A template has holes, which must be filled, and suffixes, which need not, the payload
\* filter it names, if any and if not in a hole, and whether its function has a usual one.
CatalogTemplate == [text : STRING, holes : SUBSET STRING, suffixes : SUBSET STRING,
                    payload : Seq(Values), standard : BOOLEAN]

\* A parameter has values, listed in the action or by reference, a default or both; one
\* that is given as a bare list or value has that for its default. An override has values
\* only.
CatalogParam    == [name : STRING, values : Seq(Values), listed : BOOLEAN, default : Seq(Values)]
CatalogOverride == [name : STRING, values : Seq(Values)]
CatalogAction   == [id : Actions, template : Templates, params : Seq(CatalogParam),
                    protocols : SUBSET STRING, words : SUBSET STRING]
CatalogFamily   == [id : Families, enabled : BOOLEAN, protocols : SUBSET STRING,
                    actions : Seq(CatalogAction)]
Generator       == [family : Families, actions : SUBSET Actions, params : Seq(CatalogOverride)]

\* for each search mode what its protocols generate
CatalogOK(catalog) ==
  /\ catalog.families \in Seq(CatalogFamily) /\ catalog.strategies \in Seq(Variant)
  /\ catalog.expand \in [DOMAIN catalog.expand -> Seq(Families)]
  /\ catalog.signal \in [DOMAIN catalog.signal -> Seq(Generator)]

ASSUME CatalogAssumption ==
  /\ Values \subseteq Nat /\ Unset \in Values
  /\ Templates \subseteq CatalogTemplate /\ \A t \in Templates : Blob \notin t.suffixes
  /\ Standard \in [DOMAIN Standard -> Values]
  /\ BlobName \in [DOMAIN BlobName -> Values] /\ DOMAIN BlobName \subseteq Values
  /\ Found \in [DOMAIN Found -> SUBSET DOMAIN BlobName]
  /\ \A m \in DOMAIN Found : IsFiniteSet(Found[m])
  /\ [payload : Values] \cup [blob : Values, file : Values] \subseteq Leading
  /\ \A t \in Templates :
       [template : {t.text}, fill : [t.holes \cup t.suffixes -> Values]] \subseteq Luas

-----------------------------------------------------------------------------
\* protocol_matches; without a list the words of the template decide
Matches(protocols, key, words) == key \in (IF protocols = {} THEN words ELSE protocols)

Named(families, id) == {i \in DOMAIN families : families[i].id = id}

\* catalog_families: of two families of one name the later one
FamilyOf(families, id) ==
  families[CHOOSE i \in Named(families, id) : \A j \in Named(families, id) : j <= i]

\* a generator that wants all actions and sets no values
Whole(id) == [family |-> id, actions |-> Actions, params |-> <<>>]

\* signal and expand need an entry of the protocol
HasGenerator(catalog, mode, key) ==
  \/ mode = "force"
  \/ mode = "signal" /\ key \in DOMAIN catalog.signal
  \/ mode = "expand" /\ key \in DOMAIN catalog.expand

Generators(catalog, mode, key) ==
  CASE mode = "signal" -> catalog.signal[key]
    [] mode = "expand" -> [i \in DOMAIN catalog.expand[key] |-> Whole(catalog.expand[key][i])]
    [] mode = "force" -> [i \in DOMAIN catalog.families |-> Whole(catalog.families[i].id)]

\* append_family_actions: the actions of the family a generator lets through
Chosen(catalog, generator, key) ==
  IF Named(catalog.families, generator.family) = {} THEN {}
  ELSE LET family == FamilyOf(catalog.families, generator.family)
       IN  {a \in DOMAIN family.actions :
              /\ family.enabled /\ Matches(family.protocols, key, {})
              /\ family.actions[a].id \in generator.actions
              /\ Matches(family.actions[a].protocols, key, family.actions[a].words)}

-----------------------------------------------------------------------------
(***************************************************************************)
(* The values of the parameters.                                           *)
(***************************************************************************)
\* param_values_from_action: a list without values counts, a reference to none does not
BaseValues(param, all) ==
  IF all /\ (param.listed \/ param.values # <<>>) THEN param.values
  ELSE IF param.default # <<>> THEN param.default
  ELSE IF param.values # <<>> THEN <<Head(param.values)>> ELSE <<>>

\* S in order
InOrder(S) ==
  [i \in 1 .. Cardinality(S) |->
     CHOOSE p \in S : Cardinality({q \in S : Lexicographic(q, p)}) = i - 1]

Sorted(S) == LET order == InOrder({<<v>> : v \in S}) IN [i \in DOMAIN order |-> order[i][1]]

\* what s has at these places
Picked(s, places) == LET order == Sorted(places) IN [k \in DOMAIN order |-> s[order[k]]]

\* what is not yet among the values follows them, once
Extended(values, more) ==
  values \o Picked(more, {i \in DOMAIN more : /\ more[i] \notin Range(values)
                                             /\ \A j \in 1 .. i - 1 : more[j] # more[i]})

\* dedup_preserve_order
Distinct(values) == Extended(<<>>, values)

\* the files a marker finds; another value is taken as it is
Finds(v) == IF v \in DOMAIN Found THEN Found[v] ELSE {v}

\* expand_dynamic_param_values: for each value in turn what it finds, in order
Expanded(name, values) ==
  IF name # Blob THEN values
  ELSE LET found == InOrder(UNION {{<<i, v>> : v \in Finds(values[i])} : i \in DOMAIN values})
       IN  Distinct([k \in DOMAIN found |-> found[k][2]])

\* maybe_extend_payload_values: the aliases of the registry are values of every blob
WithPayloads(name, values, aliases) == IF name = Blob THEN Extended(values, aliases) ELSE values

\* mutant of Configured: override forgets the registry
ConfiguredBare(name, values, aliases, settings) ==
  IF name \notin DOMAIN settings.values THEN WithPayloads(name, values, aliases)
  ELSE IF settings.mode = "override" THEN Distinct(settings.values[name])
  ELSE Extended(WithPayloads(name, values, aliases), settings.values[name])

\* apply_strategy_values, on what maybe_extend_payload_values leaves
Configured(name, values, aliases, settings) ==
  IF name \notin DOMAIN settings.values THEN WithPayloads(name, values, aliases)
  ELSE IF settings.mode = "override" THEN Distinct(WithPayloads(name, settings.values[name], aliases))
  ELSE Extended(WithPayloads(name, values, aliases), settings.values[name])

ParamNames(params) == {params[i].name : i \in DOMAIN params}

\* the parameters of the action, with the generator's values for its own, then the
\* other parameters the generator sets
Params(action, generator, all) ==
  LET set(name) == {i \in DOMAIN generator.params : generator.params[i].name = name}
      own == [i \in DOMAIN action.params |->
                LET p == action.params[i]
                IN  [name |-> p.name,
                     values |-> IF set(p.name) # {}
                                THEN generator.params[CHOOSE j \in set(p.name) : TRUE].values
                                ELSE BaseValues(p, all)]]
  IN  own \o Picked(generator.params, {i \in DOMAIN generator.params :
                                         generator.params[i].name \notin ParamNames(own)})

\* merged_param_values: all of them configured; none without a value
Merged(action, generator, all, aliases, settings) ==
  LET params == Params(action, generator, all)
      full == [i \in DOMAIN params |->
                 [name |-> params[i].name,
                  values |-> Configured(params[i].name,
                                        Expanded(params[i].name, params[i].values),
                                        aliases, settings)]]
  IN  Picked(full, {i \in DOMAIN full : full[i].values # <<>>})

\* param_combinations: the place of a value for each parameter
Combinations(params) ==
  {c \in [DOMAIN params -> UNION {DOMAIN params[i].values : i \in DOMAIN params}] :
     \A i \in DOMAIN params : c[i] \in DOMAIN params[i].values}

-----------------------------------------------------------------------------
(***************************************************************************)
(* Rendering.                                                              *)
(***************************************************************************)
ValueOf(params, c, name) ==
  LET i == CHOOSE j \in DOMAIN params : params[j].name = name IN params[i].values[c[i]]

\* apply_suffixes: an unknown value is left out like none at all
Suffix(params, c, name) ==
  IF name \in ParamNames(params) /\ ValueOf(params, c, name) \in Shown[name]
  THEN ValueOf(params, c, name) ELSE Unset

\* replace_blob_file_sentinels: a file found has a blob of its own
Filled(name, value) == IF name = Blob /\ value \in DOMAIN BlobName THEN BlobName[value] ELSE value

Lua(template, params, c) ==
  [template |-> template.text,
   fill |-> [name \in template.holes \cup template.suffixes |->
               IF name \in template.holes THEN Filled(name, ValueOf(params, c, name))
               ELSE Suffix(params, c, name)]]

\* apply_blob_file_options
BlobOption(template, params, c) ==
  IF Blob \in template.holes /\ ValueOf(params, c, Blob) \in DOMAIN BlobName
  THEN LET file == ValueOf(params, c, Blob) IN <<[blob |-> BlobName[file], file |-> file]>>
  ELSE <<>>

\* a hole that nothing fills drops the action
Renderable(template, params) == template.holes \subseteq ParamNames(params)

\* ensure_payload_option: the payload the function names, or the usual one
PayloadOption(template, params, c, key) ==
  IF Payload \in template.holes THEN <<[payload |-> ValueOf(params, c, Payload)]>>
  ELSE IF template.payload # <<>> THEN <<[payload |-> Head(template.payload)]>>
  ELSE IF template.standard THEN <<[payload |-> Standard[key]]>> ELSE <<>>

\* parse_catalog_strategies: generators, their actions and the values, the last
\* parameter's first
Rendered(catalog, mode, key, aliases, settings) ==
  LET generators == Generators(catalog, mode, key)
      action(g, a) == FamilyOf(catalog.families, generators[g].family).actions[a]
      params(g, a) == Merged(action(g, a), generators[g], mode # "signal", aliases, settings)
      actions(g) == {a \in Chosen(catalog, generators[g], key) :
                       Renderable(action(g, a).template, params(g, a))}
      places(g, a) == {<<g, a>> \o c : c \in Combinations(params(g, a))}
      order == InOrder(UNION {UNION {places(g, a) : a \in actions(g)} : g \in DOMAIN generators})
      variant(g, a, c) ==
        [family |-> generators[g].family, action |-> action(g, a).id,
         before |-> BlobOption(action(g, a).template, params(g, a), c)
                      \o PayloadOption(action(g, a).template, params(g, a), c, key),
         lua |-> Lua(action(g, a).template, params(g, a), c)]
  IN  [i \in DOMAIN order |-> variant(order[i][1], order[i][2], SubSeq(order[i], 3, Len(order[i])))]
=============================================================================
