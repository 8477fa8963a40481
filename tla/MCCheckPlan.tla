----------------------------- MODULE MCCheckPlan ----------------------------
(***************************************************************************)
(* Small instances of CheckPlan. Four groups of plans, each varying one    *)
(* part: the catalog and the options of the selection, plain lists, the    *)
(* payload files, the targets.                                             *)
(***************************************************************************)
EXTENDS CheckPlan, TLC

\* the catalogs are those of the plans
NoInputs == {}

CONSTANT MaxFiles  \* bound: [payloads.tls].files

fake  == 1
split == 2
wsize == 3

SomeDiversity == (fake :> 1) @@ (split :> 0) @@ (wsize :> 3)
SomeOrder     == (fake :> 0) @@ (split :> 10) @@ (wsize :> 14)

\* 0, 1, 10, 11 .. 19, 2, 3 ..
DigitOrder == [n \in 0 .. 19 |-> IF n < 10 THEN 100 * n ELSE 91 + n]

-----------------------------------------------------------------------------
\* "", "Google", "_", "fake_default_http", "fake_default_tls", "google", "tls a", "tls_a", "vk"
SomeNames    == 0 .. 8
SomeValid    == SomeNames \ {0, 6}
SomeReserved == {3, 4}
SomeCleaned  == [n \in SomeNames |-> CASE n = 1 -> 5 [] n = 2 -> 0 [] n = 6 -> 7 [] OTHER -> n]

SomeStems == ("Google.bin" :> 1) @@ ("_.bin" :> 2) @@ ("google.bin" :> 5) @@ ("tls a.bin" :> 6)
             @@ ("tls_a.bin" :> 7) @@ ("vk.bin" :> 8) @@ ("old/vk.bin" :> 8)
SomeFiles   == DOMAIN SomeStems
SomePresent == SomeFiles \ {"tls_a.bin"}

None == <<>>
Protocol(builtin, files, aliases) == [builtin |-> builtin, files |-> files, aliases |-> aliases]
Usual == [max |-> 3, autoLoad |-> TRUE, baseDir |-> "there",
          protocol |-> [http |-> Protocol(<<3>>, <<>>, None), tls |-> Protocol(<<4>>, <<>>, None),
                        quic |-> Protocol(<<>>, <<>>, None)]]

TlsFiles == UNION {[1 .. n -> SomeFiles] : n \in 0 .. MaxFiles}
TlsAliases == {None, 5 :> "vk.bin", (7 :> "Google.bin") @@ (8 :> "vk.bin")}

SomePayloads ==
  {[Usual EXCEPT !.protocol.tls = Protocol(<<4>>, files, aliases), !.protocol.http = http] :
     files \in TlsFiles, aliases \in TlsAliases,
     http \in {Protocol(<<3>>, <<>>, None), Protocol(<<3, 8>>, <<>>, None),
               Protocol(<<3>>, <<"google.bin">>, 7 :> "vk.bin")}}
  \cup {[Usual EXCEPT !.max = max, !.autoLoad = auto, !.baseDir = dir,
                      !.protocol.tls = Protocol(builtin, <<"vk.bin">>, 7 :> "Google.bin")] :
          max \in {0, 1, 2}, auto \in BOOLEAN, dir \in {"none", "missing", "there"},
          builtin \in {<<4, 5>>, <<4, 4>>, <<6>>}}

-----------------------------------------------------------------------------
Standards == [k \in {"http", "tls12", "tls13", "quic"} |-> IF k = "http" THEN 1 ELSE 2]

\* "fake_dir_tls" finds two files, "fake_dir_quic" none
Marker   == 10
NoMarker == 11
SomeFound    == (Marker :> {12, 13}) @@ (NoMarker :> {})
SomeBlobName == (12 :> 14) @@ (13 :> 15)

SomeValues == 0 .. 15

Filters == [payload : SomeValues] \cup [blob : SomeValues, file : SomeValues]

Template(text, holes, suffixes, payload, standard) ==
  [text |-> text, holes |-> holes, suffixes |-> suffixes, payload |-> payload, standard |-> standard]
FakeT  == Template("fake", {Blob}, {"fooling"}, <<>>, TRUE)
PlainT == Template("plain", {}, {}, <<>>, FALSE)
SplitT == Template("split", {"pos"}, {}, <<2>>, TRUE)
SendT  == Template("send", {"pos"}, {}, <<3>>, TRUE)
WsizeT == Template("wsize", {}, {"fooling"}, <<>>, FALSE)
FragT  == Template("frag", {Blob, "pos"}, {}, <<>>, TRUE)
HelloT == Template("hello", {Blob, Payload}, {}, <<>>, TRUE)
SomeTemplates == {FakeT, PlainT, SplitT, SendT, WsizeT, FragT, HelloT}

SomeLuas ==
  UNION {[template : {t.text}, fill : [t.holes \cup t.suffixes -> SomeValues]] : t \in SomeTemplates}
SomeShown == [fooling |-> {1, 2}]

Param(name, values, default) ==
  [name |-> name, values |-> values, listed |-> FALSE, default |-> default]
Listed(name, values) == [Param(name, values, <<9>>) EXCEPT !.listed = TRUE]
Action(id, template, params, protocols) ==
  [id |-> id, template |-> template, params |-> params, protocols |-> protocols, words |-> {"tls12"}]

Fake    == Action(1, FakeT, <<Param(Blob, <<4, 8>>, <<4>>)>>, {})
Found2  == Action(1, FakeT, <<Param(Blob, <<Marker, 4, Marker>>, <<4>>), Param("fooling", <<1, 3>>, <<>>)>>, {})
Fooled  == Action(2, FakeT, <<Param(Blob, <<NoMarker>>, <<>>), Param("fooling", <<1, 3, 5>>, <<>>)>>, {"tls12"})
Frag    == Action(1, FragT, <<Listed("pos", <<1, 2>>), Param(Blob, <<4>>, <<>>)>>, {})
Hello   == Action(2, HelloT, <<Param(Blob, <<8>>, <<4>>), Param(Payload, <<2, 3>>, <<2>>)>>, {})
FragOff == Action(5, FragT, <<Param(Blob, <<4>>, <<>>), Listed("pos", <<>>)>>, {"tls12"})
FakeOld == Action(3, PlainT, <<>>, {"tls12"})
Split1  == Action(4, SplitT, <<Param("pos", <<1, 2>>, <<2>>)>>, {"http", "tls12"})
Split2  == Action(2, PlainT, <<>>, {})
Send    == Action(4, SendT, <<Param("pos", <<2>>, <<>>)>>, {})
Unfit   == Action(5, SendT, <<Param("count", <<2, 3>>, <<>>)>>, {})
Wsize   == Action(5, WsizeT, <<>>, {"tls12"})
WsizeOf == Action(2, PlainT, <<>>, {"http"})

Family(id, actions) ==
  [id |-> id, enabled |-> TRUE, protocols |-> {"http", "tls12", "tls13"}, actions |-> actions]

FakeFamilies  == {Family(fake, <<Fake>>), Family(fake, <<Fooled, FakeOld>>), Family(fake, <<Found2>>),
                  Family(fake, <<Frag, Hello, FragOff>>)}
SplitFamilies == {Family(split, <<Split1, Split2>>), Family(split, <<Unfit, Send>>)}
WsizeFamilies == {Family(wsize, <<Wsize>>), [Family(wsize, <<Wsize, WsizeOf>>) EXCEPT !.enabled = FALSE]}

Orders == {s \in UNION {[1 .. n -> {fake, split, wsize}] : n \in 1 .. 3} : IsInjective(s)}

Generates(family, actions, params) == [family |-> family, actions |-> actions, params |-> params]
Set(name, values) == [name |-> name, values |-> values]

\* the families in any order, with generators for tls12 and in part for http
Catalogs ==
  {[families |-> [i \in DOMAIN order |-> CASE order[i] = fake -> f [] order[i] = split -> s
                                           [] order[i] = wsize -> w],
    expand |-> [tls12 |-> <<split, wsize, fake>>, http |-> <<fake, fake>>],
    signal |-> [tls12 |-> <<Generates(fake, {1, 2}, <<Set(Blob, <<7, 8>>)>>),
                            Generates(split, {4}, <<Set("pos", <<1, 3>>), Set("count", <<1>>)>>)>>],
    strategies |-> <<>>] :
     order \in Orders, f \in FakeFamilies, s \in SplitFamilies, w \in WsizeFamilies}

V(f, a, p, l) == [family |-> f, action |-> a, before |-> p, lua |-> [template |-> l, fill |-> <<>>]]

\* a plain list; its functions are not rendered
SomeVariants == {V(fake, 1, <<[payload |-> 2]>>, "plain"), V(fake, 2, <<>>, "plain"),
                 V(split, 4, <<[payload |-> 1]>>, "plain"), V(wsize, 3, <<[payload |-> 3]>>, "plain")}
Lists ==
  {[families |-> <<>>, expand |-> <<>>, signal |-> <<>>, strategies |-> s] :
     s \in UNION {[1 .. n -> SomeVariants] : n \in 0 .. 3}}

-----------------------------------------------------------------------------
Base == [catalog |-> TRUE, roundRobin |-> TRUE, candidates |-> 99, perFamily |-> 99,
         perAction |-> 99, combine |-> TRUE, differentFamily |-> TRUE, sameAction |-> FALSE,
         force |-> FALSE, allowed |-> {{fake, split}, {wsize, split}}]
CatalogOptions ==
  {Base, [Base EXCEPT !.roundRobin = FALSE, !.force = TRUE, !.differentFamily = FALSE],
   [Base EXCEPT !.perFamily = 2, !.perAction = 1],
   [Base EXCEPT !.candidates = 4, !.sameAction = TRUE, !.force = TRUE]}
ListOptions ==
  {[Base EXCEPT !.catalog = FALSE, !.perFamily = 2, !.perAction = 1, !.force = TRUE],
   [Base EXCEPT !.catalog = FALSE, !.candidates = 2, !.combine = FALSE]}
SomeOptions == CatalogOptions \cup ListOptions

Nothing == [http |-> <<>>, tls |-> <<>>, quic |-> <<>>]
Extend   == [mode |-> "extend", values |-> Nothing]
Some(mode) == [mode |-> mode,
               values |-> [Nothing EXCEPT !.tls = (Blob :> <<7>>) @@ ("pos" :> <<5>>)]]

AHost == "a"
D(scheme, host) == [scheme |-> scheme, host |-> host]
ForTls == [explicit |-> NotGiven, preferred |-> "tls12", enabled |-> {"tls12"}, cli |-> <<>>,
           domains |-> <<D("none", AHost)>>, testCount |-> 1]

OneFile == [Usual EXCEPT !.protocol.tls = Protocol(<<4>>, <<"google.bin">>, None)]

SelectionPlans ==
  [request : {ForTls}, payloads : {OneFile}, catalog : Catalogs, options : CatalogOptions,
   mode : {"signal", "expand", "force"}, settings : {Extend, Some("override")}]

ListPlans ==
  [request : {ForTls}, payloads : {Usual}, catalog : Lists, options : ListOptions,
   mode : {"force"}, settings : {Extend}]

ACatalog == CHOOSE c \in Catalogs : Len(c.families) = 2 /\ c.families[1] = Family(fake, <<Fake>>)

PayloadPlans ==
  [request : {ForTls, [ForTls EXCEPT !.preferred = "http", !.enabled = {"http"}]},
   payloads : SomePayloads, catalog : {ACatalog}, options : {Base},
   mode : {"expand", "signal"}, settings : {Some("extend"), Some("override")}]

SomeDomains == {D("none", "a"), D("http", "a"), D("https", "b"), D("other", "b")}
SomeRequests ==
  [explicit : {NotGiven, "http", "tls13", "quic"}, preferred : {"http", "tls12", "quic"},
   enabled : {{"http", "tls12", "quic"}, {"http", "tls13"}, {"tls12", "tls13", "quic"}},
   cli : {<<>>} \cup {<<d>> : d \in SomeDomains},
   domains : UNION {[1 .. n -> SomeDomains] : n \in 0 .. 2}, testCount : {0, 2}]

TargetPlans ==
  [request : SomeRequests, payloads : {Usual}, catalog : {ACatalog}, options : {Base},
   mode : {"signal"}, settings : {Extend}]

SomePlans == <<SelectionPlans, ListPlans, PayloadPlans, TargetPlans>>
=============================================================================
