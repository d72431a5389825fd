------------------------------- MODULE MCInput -------------------------------
(***************************************************************************)
(* Small inputs for module Input: eleven topologies of up to six ASes, the *)
(* predicates of up to seven tokens, six changes of a route, files of two  *)
(* records and lists of three commands.                                    *)
(***************************************************************************)
EXTENDS Input

Line(tokens) == [comment |-> FALSE, tokens |-> tokens]

(* A line for each triple of numbers. *)
Lines(triples) ==
  [k \in DOMAIN triples |-> Line(<<{triples[k][1]}, {triples[k][2]}, {triples[k][3]}>>)]

(* Both directions of each link, for the formats that need them. *)
Both(triples, Reverse1(_)) ==
  Lines(triples) \o Lines([k \in DOMAIN triples |->
    <<triples[k][2], triples[k][1], Reverse1(triples[k][3])>>])

Topologies ==
  [good |-> Lines(<< <<1, 2, 0>>, <<1, 3, 1>>, <<2, 3, 1>>, <<2, 4, 1>>, <<3, 4, 0>>, <<4, 5, 1>> >>),
   chain |-> Lines(<< <<1, 2, 1>>, <<2, 3, 1>>, <<3, 4, 1>>, <<4, 5, 1>> >>),
   cycle |-> Lines(<< <<1, 2, 0>>, <<2, 3, 1>>, <<3, 4, 1>>, <<4, 5, 1>>, <<5, 3, 1>> >>),
   hidden |-> Lines(<< <<1, 2, 0>>, <<2, 3, 1>>, <<3, 4, 1>>, <<4, 2, 1>> >>),
   ring |-> Lines(<< <<1, 2, 1>>, <<2, 3, 1>>, <<3, 1, 1>> >>),
   apart |-> Lines(<< <<1, 2, 1>>, <<3, 4, 0>> >>),
   peers |-> Lines(<< <<5, 2, 1>>, <<5, 3, 1>>, <<2, 3, 0>>, <<1, 3, 0>> >>),
   loop |-> Lines(<< <<1, 2, 1>>, <<2, 2, 0>> >>),
   caida |-> Both(<< <<1, 2, 1>>, <<1, 3, 0>>, <<2, 4, 2>>, <<3, 4, 1>> >>,
                  LAMBDA r : IF r = 1 THEN -1 ELSE r),
   half |-> Lines(<< <<1, 2, 1>>, <<1, 3, 0>>, <<3, 1, 0>> >>),
   meulle |-> Both(<< <<1, 2, "P2C">>, <<2, 3, "P2C">>, <<1, 3, "PEER">> >>,
                   LAMBDA r : IF r = "P2C" THEN "C2P" ELSE r)]

Format(file) ==
  CASE file \in {"caida", "half"} -> "caida" [] file = "meulle" -> "meulle" [] OTHER -> "rexford"

(* The commands of a list. *)
ProgramCommands ==
  {<<"node", 1, TRUE>>, <<"define", "x", 1>>, <<"require", "param", "x">>,
   <<"set", "exit-on-error", "off">>, <<"quit">>, <<"include", "fails">>, <<"include", "none">>}

MCLists == UNION {[1 .. k -> ProgramCommands] : k \in 0 .. 3}

MCFiles ==
  [f \in DOMAIN Topologies |-> {Topologies[f]}]
    @@ [none |-> {},
        fails |-> {<<<<"define", "x", 2>>, <<"node", 1, TRUE>>, <<"define", "y", 3>>>>},
        twice |-> {<<<<"node", 1, TRUE>>, <<"node", 1, TRUE>>, <<"define", "x", 1>>>>}]

Topology(w) == <<"bgp", "topology">> \o w

MCTopoCommands ==
  {Topology(<<"load", f, "local", Format(f)>>) : f \in DOMAIN Topologies}
    \cup {Topology(<<"load", "none", "local", "rexford">>), Topology(<<"load", "good", "local", "x">>)}
    \cup {Topology(<<"filter", "asn", {a}>>) : a \in {2, 3, 4}}
    \cup {Topology(<<"filter", "group", g>>) :
            g \in {"stubs", "single-homed-stubs", "peer-to-peer", "keep-top"}}
    \cup {Topology(<<w>>) : w \in {"check", "install", "policies", "run", "info", "stat-degree"}}
    \cup {Topology(<<"dump", "graphviz", FALSE>>), Topology(<<"dump", "cli", TRUE>>),
          <<"bgp", "router", {14}, "show", "info">>, <<"bgp", "complete", [as |-> TRUE, digits |-> <<3>>]>>}

(* Two atoms, one that is not known to match and one that matches all. *)
c1 == <<1, 1>>

MCTokens ==
  {<<"!">>, <<"&">>, <<"|">>, <<"(">>, <<")">>, <<"EOF">>, <<"string">>}
    \cup {<<"atom", c>> : c \in {<<"prefix is", {<<4, 2>>}>>, <<"community is", {c1}>>, <<"any">>}}
    \cup {<<"atom", <<"community is", {}>>>>}

MCSamples ==
  {[route_create(x, NULL, 9, 0) EXCEPT !.attr.comms = c] :
     x \in {<<4, 2>>, <<8, 2>>}, c \in {NULL, {<<c1>>}}}

MCChanges ==
  {<<"prepend", 7, 1>>, <<"prepend", 65000, 2>>, <<"path", << <<1, 2>>, <<3>> >>>>,
   <<"path", << <<4>>, <<5, 65000>> >>>>, <<"remove-private">>, <<"comm add", c1>>,
   <<"comm remove", c1>>, <<"comm strip">>, <<"med", 5>>, <<"med clear">>}

Record(type, hop, path, comms) ==
  [fields |-> 12, proto |-> IF type = "B" THEN "TABLE_DUMP" ELSE "BGP4",
   type |-> type, peer_addr |-> {9}, peer_asn |-> {1}, prefix |-> {<<4, 2>>},
   path |-> path, origin |-> {0}, next_hop |-> {hop}, pref |-> <<>>, med |-> <<{0}>>, comms |-> comms]

Records ==
  {Record("B", 9, << <<1, 2>>, <<3>> >>, <<>>), Record("B", 9, << <<3>> >>, << <<"no-export">> >>),
   Record("B", 10, << <<3>> >>, <<>>), Record("B", 9, << <<3>>, <<70000>> >>, <<>>),
   Record("A", 9, << <<3>> >>, <<>>), [Record("B", 9, <<>>, <<>>) EXCEPT !.fields = 4]}

MCDumpInput == UNION {[1 .. k -> Records] : k \in 1 .. 2}

MCMaxInputs ==
  [topology |-> 5, predicate |-> 7, routes |-> 6, dump |-> 2, program |-> 1]

MCVersion == [parts |-> 2, subs |-> <<{2}, {3}, {2}>>]
=============================================================================
