-------------------------------- MODULE Filter --------------------------------
(***************************************************************************)
(* The filters of the BGP sessions (bgp/filter/filter.c, util/regex.c) and *)
(* the language of their predicates (bgp/filter/predicate_parser.c and the *)
(* predicate commands of bgp/filter/registry.c).                           *)
(*                                                                         *)
(* A filter is a sequence of rules, a rule a predicate and a list of       *)
(* actions; a predicate that is NULL ({}) matches every route.  A          *)
(* predicate or an action is a tuple: its code and its parameters.  "jump" *)
(* and "call" share the rules of a route-map with the map and are kept as  *)
(* its name.  The environment e of a filter is                             *)
(*   maps     the rules of the route-maps, by name                         *)
(*   regexes  the regular expressions, by position                         *)
(*   router   [asn, addresses, metric]: metric is the metric of its        *)
(*            routing table by masked prefix                               *)
(***************************************************************************)
EXTENDS AttrStore

CONSTANTS MaxMatcher,     \* BGP_FT_MATCHER_SIZE_MAX
          MatchSize,      \* the buffer of path_match
          MaxDepth,       \* jumps and calls the stack of the program takes
          MAX_DEPTH       \* the stack of the parser

-----------------------------------------------------------------------------
(* Regular expressions.  A pattern that pcre rejects is still accepted     *)
(* (the test reads another variable) and matches nothing.                  *)

regex_init(pattern) == {pattern}

(* pcre: a pattern is the set of the ASNs one of which must be in the      *)
(* text, or not a regular expression.                                      *)
pcre_exec(pattern, text) ==
  /\ pattern[1] = "asns"
  /\ \E i \in DOMAIN text : ToSet(text[i][2]) \cap pattern[2] # {}

regex_search(pattern, text) == IF pcre_exec(pattern, text) THEN 1 ELSE 0

(* {} is the abort of a path whose text does not fit.  Every search is the *)
(* first one: the expression is reinitialised after use.                   *)
path_match(path, pattern) ==
  {regex_search(pattern, text) > 0 : text \in path_to_string(path, MatchSize)}

-----------------------------------------------------------------------------
(* Predicates.  The size of the parameters of a predicate is kept in one   *)
(* byte; a compound predicate contains the whole of its operands.          *)

sizeof_matcher == 5

RECURSIVE MatcherSize(_)
MatcherSize(m) ==
  CASE m[1] \in {"and", "or"} ->
         MatcherSize(m[2]) + MatcherSize(m[3]) + 2 * sizeof_matcher
    [] m[1] = "not" -> MatcherSize(m[2]) + sizeof_matcher
    [] m[1] \in {"prefix ge", "prefix le"} -> 9
    [] m[1] \in {"next-hop in", "prefix is", "prefix in"} -> 8
    [] OTHER -> 4

(* A predicate, or what stops the program. *)
Matcher(m) == [crash |-> "", matcher |-> m]

_ft_match_compound(m) ==
  IF MatcherSize(m) > MaxMatcher
  THEN [crash |-> "filter.c:510", matcher |-> NULL] ELSE Matcher({m})

filter_match_and(m1, m2) ==
  IF m1 = NULL THEN Matcher(m2)
  ELSE IF m2 = NULL THEN Matcher(m1)
  ELSE _ft_match_compound(<<"and", The(m1), The(m2)>>)

filter_match_or(m1, m2) ==
  IF m1 = NULL \/ m2 = NULL THEN Matcher(NULL)
  ELSE _ft_match_compound(<<"or", The(m1), The(m2)>>)

(* The negation of NULL dereferences it. *)
filter_match_not(m) ==
  IF m = NULL THEN [crash |-> "filter.c:504", matcher |-> NULL]
  ELSE IF The(m)[1] = "not" THEN Matcher({The(m)[2]})
  ELSE _ft_match_compound(<<"not", The(m)>>)

filter_match_nexthop_equals(next_hop) == <<"next-hop is", next_hop>>

filter_match_nexthop_in(prefix) == <<"next-hop in", prefix>>

filter_match_prefix_equals(prefix) == <<"prefix is", prefix>>

filter_match_prefix_in(prefix) == <<"prefix in", prefix>>

filter_match_prefix_ge(prefix, len) == <<"prefix ge", prefix, len>>

filter_match_prefix_le(prefix, len) == <<"prefix le", prefix, len>>

filter_match_comm_contains(comm) == <<"community is", comm>>

filter_match_path(pos) == <<"path", pos>>

-----------------------------------------------------------------------------
(* Actions: amounts are numbers of 8 bits. *)

filter_action_accept == <<"accept">>

filter_action_deny == <<"deny">>

filter_action_jump(map) == <<"jump", map>>

filter_action_call(map) == <<"call", map>>

filter_action_pref_set(pref) == <<"local-pref", pref>>

filter_action_metric_set(metric) == <<"metric", metric>>

filter_action_metric_internal == <<"metric internal">>

filter_action_comm_append(comm) == <<"community add", comm>>

filter_action_comm_remove(comm) == <<"community remove", comm>>

filter_action_comm_strip == <<"community strip">>

filter_action_ecomm_append(ecomm) == <<"red-community add", ecomm>>

filter_action_path_prepend(amount) == <<"as-path prepend", amount % 256>>

filter_action_path_insert(asn, amount) ==
  <<"as-path insert", asn, amount % 256>>

filter_action_path_rem_private == <<"as-path remove-private">>

-----------------------------------------------------------------------------
(* Whether a predicate matches: {} when the program aborts. *)

RECURSIVE filter_matcher_apply(_, _, _)
filter_matcher_apply(e, matcher, route) ==
  IF matcher = NULL THEN {TRUE}
  ELSE LET m == The(matcher)
           Left == filter_matcher_apply(e, {m[2]}, route)
           Right == filter_matcher_apply(e, {m[3]}, route)
       IN CASE m[1] = "and" -> IF Left = {TRUE} THEN Right ELSE Left
            [] m[1] = "or" -> IF Left = {FALSE} THEN Right ELSE Left
            [] m[1] = "not" -> {~x : x \in Left}
            [] m[1] = "community is" -> {route_comm_contains(route, m[2])}
            [] m[1] = "next-hop is" -> {route.attr.next_hop = m[2]}
            [] m[1] = "next-hop in" ->
                 {ip_address_in_prefix(route.attr.next_hop, m[2])}
            [] m[1] = "prefix is" -> {ip_prefix_cmp(route.prefix, m[2]) = 0}
            [] m[1] = "prefix in" -> {ip_prefix_in_prefix(route.prefix, m[2])}
            [] m[1] = "prefix ge" ->
                 {ip_prefix_ge_prefix(route.prefix, m[2], m[3])}
            [] m[1] = "prefix le" ->
                 {ip_prefix_le_prefix(route.prefix, m[2], m[3])}
            [] m[1] = "path" ->
                 path_match(route.attr.path_ref, e.regexes[m[2]])

(* The MED of the IGP: the best route of the table must exist. *)
SetInternalMetric(e, s) ==
  LET nh == s.route.attr.next_hop
      best == trie_find_best(e.router.metric, nh) IN
     IF nh \in e.router.addresses
     THEN [s EXCEPT !.route = route_med_set(@, 0)]
     ELSE IF best = {} THEN [s EXCEPT !.m = Crash(@, "filter.c:424")]
     ELSE [s EXCEPT !.route = route_med_set(@, e.router.metric[The(best)])]

(* An action that changes the route.  s is the memory, the route and the   *)
(* verdict: 0 (deny), 1 (accept) or 2 (go on).                             *)
Changed(s, r) == [s EXCEPT !.m = r.m, !.route = r.route]

ApplyAction(e, a, s) ==
  CASE a[1] = "community add" -> Changed(s, route_comm_append(s.m, s.route, a[2]))
    [] a[1] = "community strip" -> Changed(s, route_comm_strip(s.m, s.route))
    [] a[1] = "community remove" ->
         Changed(s, route_comm_remove(s.m, s.route, a[2]))
    [] a[1] = "as-path prepend" ->
         Changed(s, route_path_prepend(s.m, s.route, e.router.asn, a[2]))
    [] a[1] = "as-path insert" ->
         Changed(s, route_path_prepend(s.m, s.route, a[2], a[3]))
    [] a[1] = "as-path remove-private" ->
         Changed(s, route_path_rem_private(s.m, s.route))
    [] a[1] = "local-pref" -> [s EXCEPT !.route = route_localpref_set(@, a[2])]
    [] a[1] = "metric" -> [s EXCEPT !.route = route_med_set(@, a[2])]
    [] a[1] = "metric internal" -> SetInternalMetric(e, s)
    [] a[1] = "red-community add" ->
         Changed(s, route_ecomm_append(s.m, s.route, a[2]))

(* A list of rules is left with the first verdict.  A jump or a call is    *)
(* the last action of its rule that is executed.                           *)
RECURSIVE filter_rules(_, _, _, _), filter_action_apply(_, _, _, _)
filter_action_apply(e, actions, s, depth) ==
  IF actions = <<>> \/ s.m.crash # "" THEN s
  ELSE LET a == Head(actions)
       IN CASE a[1] = "accept" -> [s EXCEPT !.verdict = 1]
            [] a[1] = "deny" -> [s EXCEPT !.verdict = 0]
            [] a[1] \in {"jump", "call"} ->
                 IF depth = MaxDepth THEN [s EXCEPT !.m = Crash(@, "STACK")]
                 ELSE LET r == filter_rules(e, e.maps[a[2]], s, depth + 1)
                      IN IF r.verdict = 2 /\ a[1] = "jump"
                         THEN [r EXCEPT !.verdict = 1] ELSE r
            [] OTHER -> filter_action_apply(e, Tail(actions),
                                            ApplyAction(e, a, s), depth)

filter_rule_apply(e, rule, s, depth) ==
  Let(filter_matcher_apply(e, rule.matcher, s.route), LAMBDA match :
     IF match = {} THEN [s EXCEPT !.m = Crash(@, "path.c:511")]
     ELSE IF match = {FALSE} THEN s
     ELSE filter_action_apply(e, rule.action, s, depth))

filter_rules(e, rules, s, depth) ==
  FoldLeft(LAMBDA r, rule : IF r.verdict # 2 \/ r.m.crash # "" THEN r
                            ELSE filter_rule_apply(e, rule, r, depth),
           s, rules)

filter_apply(e, filter, m, route) ==
  LET s == [m |-> m, route |-> route, verdict |-> 2] IN
  Let(IF filter = NULL THEN s ELSE filter_rules(e, List(filter), s, 0), LAMBDA r :
     IF r.verdict = 2 THEN [r EXCEPT !.verdict = 1] ELSE r)

-----------------------------------------------------------------------------
(* The rules of a filter.  Positions start at 0. *)

filter_create == <<>>

filter_rule_create(matcher, action) == [matcher |-> matcher, action |-> action]

filter_add_rule2(rules, rule) == Append(rules, rule)

(* {} when the position is past the end. *)
filter_insert_rule(rules, index, rule) ==
  IF index > Len(rules) THEN {} ELSE {InsertAt(rules, index + 1, rule)}

filter_remove_rule(rules, index) ==
  IF index >= Len(rules) THEN {} ELSE {RemoveAt(rules, index + 1)}

-----------------------------------------------------------------------------
(* What is shown of a predicate, as the tokens of the predicate parser;    *)
(* NOT is not one of them.  The names of route-maps are not shown.         *)

RECURSIVE filter_matcher_dump(_)
filter_matcher_dump(matcher) ==
  IF matcher = NULL THEN <<<<"atom", <<"any">>>>>>
  ELSE LET m == The(matcher)
           Sub(i) == <<<<"(">>>> \o filter_matcher_dump({m[i]}) \o <<<<")">>>>
       IN CASE m[1] = "and" -> Sub(2) \o <<<<"&">>>> \o Sub(3)
            [] m[1] = "or" -> Sub(2) \o <<<<"|">>>> \o Sub(3)
            [] m[1] = "not" -> <<<<"NOT">>>> \o Sub(2)
            [] OTHER -> <<<<"atom", m>>>>

filter_action_dump(a) == IF a[1] \in {"jump", "call"} THEN <<a[1], "---">> ELSE a

filter_rule_dump(rule) ==
  [predicate |-> filter_matcher_dump(rule.matcher),
   actions |-> [i \in DOMAIN rule.action |-> filter_action_dump(rule.action[i])]]

filter_dump(filter) ==
  [i \in DOMAIN List(filter) |-> filter_rule_dump(List(filter)[i])]

-----------------------------------------------------------------------------
(* The predicates: atoms combined by !, &, | and parentheses, read from    *)
(* left to right without precedence.                                       *)
(*                                                                         *)
(* A token is <<"!">>, <<"&">>, <<"|">>, <<"(">>, <<")">>, <<"EOF">>, the  *)
(* unterminated string <<"string">> or <<"atom", command>>; a command is a *)
(* name and arguments that were parsed: a set, empty if that failed.       *)

(* The result of a command: the new predicate and the regular expressions; *)
(* no predicate when it fails.  "any" leaves the predicate as it was.      *)
Made(m, regexes) == [ok |-> TRUE, matcher |-> m, regexes |-> regexes]

Rejected(m, regexes) == [ok |-> FALSE, matcher |-> m, regexes |-> regexes]

MadeFrom(arg, Make(_), m, regexes) ==
  IF arg = {} THEN Rejected(m, regexes) ELSE Made({Make(The(arg))}, regexes)

ft_cli_predicate_any(m, regexes) == Made(m, regexes)

ft_cli_predicate_comm_is(arg, m, regexes) ==
  MadeFrom(arg, filter_match_comm_contains, m, regexes)

ft_cli_predicate_nexthop_in(arg, m, regexes) ==
  MadeFrom(arg, filter_match_nexthop_in, m, regexes)

ft_cli_predicate_nexthop_is(arg, m, regexes) ==
  MadeFrom(arg, filter_match_nexthop_equals, m, regexes)

ft_cli_predicate_prefix_is(arg, m, regexes) ==
  MadeFrom(arg, filter_match_prefix_equals, m, regexes)

ft_cli_predicate_prefix_in(arg, m, regexes) ==
  MadeFrom(arg, filter_match_prefix_in, m, regexes)

ft_cli_predicate_prefix_ge(arg, len, m, regexes) ==
  IF arg = {} \/ len = {} \/ The(len) > W THEN Rejected(m, regexes)
  ELSE Made({filter_match_prefix_ge(The(arg), The(len))}, regexes)

ft_cli_predicate_prefix_le(arg, len, m, regexes) ==
  IF arg = {} \/ len = {} \/ The(len) > W THEN Rejected(m, regexes)
  ELSE Made({filter_match_prefix_le(The(arg), The(len))}, regexes)

(* An expression is compiled once: the same pattern has the same position. *)
ft_cli_predicate_path(pattern, m, regexes) ==
  LET known == {i \in DOMAIN regexes : regexes[i] = pattern}
  IN IF known # {} THEN Made({filter_match_path(The(known))}, regexes)
     ELSE IF regex_init(pattern) = {} THEN Rejected(m, regexes)
     ELSE Made({filter_match_path(Len(regexes) + 1)}, Append(regexes, pattern))

(* The commands that are registered. *)
ft_cli_register_predicate_any == {"any"}

ft_cli_register_predicate_comm == {"community is"}

ft_cli_register_predicate_nexthop == {"next-hop in", "next-hop is"}

ft_cli_register_predicate_prefix ==
  {"prefix is", "prefix in", "prefix ge", "prefix le"}

ft_cli_register_predicate_path == {"path"}

_cli_predicates ==
  ft_cli_register_predicate_any \cup ft_cli_register_predicate_comm
    \cup ft_cli_register_predicate_nexthop
    \cup ft_cli_register_predicate_prefix \cup ft_cli_register_predicate_path

ft_registry_predicate_parser(c, m, regexes) ==
  CASE c[1] \notin _cli_predicates -> Rejected(m, regexes)
    [] c[1] = "any" -> ft_cli_predicate_any(m, regexes)
    [] c[1] = "community is" -> ft_cli_predicate_comm_is(c[2], m, regexes)
    [] c[1] = "next-hop in" -> ft_cli_predicate_nexthop_in(c[2], m, regexes)
    [] c[1] = "next-hop is" -> ft_cli_predicate_nexthop_is(c[2], m, regexes)
    [] c[1] = "prefix is" -> ft_cli_predicate_prefix_is(c[2], m, regexes)
    [] c[1] = "prefix in" -> ft_cli_predicate_prefix_in(c[2], m, regexes)
    [] c[1] = "prefix ge" -> ft_cli_predicate_prefix_ge(c[2], c[3], m, regexes)
    [] c[1] = "prefix le" -> ft_cli_predicate_prefix_le(c[2], c[3], m, regexes)
    [] c[1] = "path" -> ft_cli_predicate_path(c[2], m, regexes)

-----------------------------------------------------------------------------
(* The state of the parser.  error is "" while it reads, "END" after the   *)
(* end of the expression, an error, or "crash".                            *)

_predicate_parser_init(regexes) ==
  [state |-> "WAIT_UNARY_OP", stack |-> <<>>, cmd |-> "NONE", left |-> NULL,
   right |-> NULL, regexes |-> regexes, error |-> ""]

Error(p, error) == [p EXCEPT !.error = error]

(* The token, read into the left predicate if it is an atom. *)
_predicate_parser_get(p, token) ==
  CASE token[1] = "string" -> Error(p, "UNFINISHED_STRING")
    [] token[1] = "atom" ->
         Let(ft_registry_predicate_parser(token[2], p.left, p.regexes), LAMBDA r :
         Let([p EXCEPT !.left = r.matcher, !.regexes = r.regexes], LAMBDA q :
            IF r.ok THEN q ELSE Error(q, "ATOM")))
    [] OTHER -> p

(* The error of a push is the business of the caller. *)
_predicate_parser_push_state(p, cmd, state, error) ==
  IF Len(p.stack) >= MAX_DEPTH THEN Error(p, error)
  ELSE [p EXCEPT !.stack = Append(@, [left |-> p.left, cmd |-> cmd]),
                 !.left = NULL, !.right = NULL, !.cmd = "NONE",
                 !.state = state]

_predicate_parser_pop_state(p) ==
  [p EXCEPT !.stack = Front(@), !.right = p.left, !.left = Last(p.stack).left,
            !.cmd = Last(p.stack).cmd, !.state = "WAIT_BINARY_OP"]

SetLeft(p, r) ==
  IF r.crash # "" THEN Error(p, "crash") ELSE [p EXCEPT !.left = r.matcher]

(* The operation at hand. *)
ApplyOp(p) ==
  CASE p.cmd = "NONE" -> p
    [] p.cmd = "&" -> SetLeft(p, filter_match_and(p.left, p.right))
    [] p.cmd = "|" -> SetLeft(p, filter_match_or(p.left, p.right))
    [] p.cmd = "!" -> SetLeft(p, filter_match_not(p.right))
    [] p.cmd = ")" ->
         IF p.stack = <<>> THEN Error(p, "PAR_MISMATCH")
         ELSE Let(_predicate_parser_pop_state(p), LAMBDA q :
                 IF q.cmd # "(" THEN Error(q, "PAR_MISMATCH")
                 ELSE [q EXCEPT !.left = q.right])
    [] OTHER -> Error(p, "crash")

(* The operations stacked since the last open parenthesis. *)
RECURSIVE _predicate_parser_apply_block_ops(_)
_predicate_parser_apply_block_ops(p) ==
  Let([ApplyOp(p) EXCEPT !.cmd = "NONE", !.right = NULL], LAMBDA q :
     IF q.error # "" \/ q.stack = <<>> \/ Last(q.stack).cmd = "(" THEN q
     ELSE _predicate_parser_apply_block_ops(_predicate_parser_pop_state(q)))

(* An atom where an operand is expected completes it. *)
Operand(p) ==
  [_predicate_parser_apply_block_ops([p EXCEPT !.cmd = "NONE"])
     EXCEPT !.state = "WAIT_BINARY_OP"]

_predicate_parser_wait_unary_op(p, t) ==
  CASE t = "atom" -> Operand(p)
    [] t = "EOF" -> Error(p, "UNEXPECTED_EOF")
    [] t = "!" -> _predicate_parser_push_state(p, t, "WAIT_ARG", "TOO_LARGE")
    [] t = ")" -> Error(p, "UNEXPECTED")
    [] t = "(" ->
         _predicate_parser_push_state(p, t, "WAIT_UNARY_OP", "TOO_LARGE")
    [] t \in {"&", "|"} -> Error(p, "LEFT_EXPR")

_predicate_parser_wait_binary_op(p, t) ==
  CASE t \in {"&", "|"} ->
         _predicate_parser_push_state(p, t, "WAIT_UNARY_OP", "UNEXPECTED")
    [] t \in {"atom", "("} -> Error(p, "UNEXPECTED")
    [] t = "EOF" -> Error(p, "END")
    [] t = "!" -> Error(p, "UNARY_OP")
    [] t = ")" -> _predicate_parser_apply_block_ops([p EXCEPT !.cmd = ")"])

_predicate_parser_wait_arg(p, t) ==
  CASE t = "atom" -> Operand(p)
    [] t \in {"&", "|"} -> Error(p, "UNEXPECTED")
    [] t = "!" -> Error(p, "UNARY_OP")
    [] t = "EOF" -> Error(p, "UNEXPECTED_EOF")
    [] t = "(" ->
         _predicate_parser_push_state(p, t, "WAIT_UNARY_OP", "TOO_LARGE")
    [] OTHER -> Error(p, "crash")

(* Mutant: a parenthesis that is not closed goes unnoticed. *)
OpenAtEnd(p, token) ==
  Let(_predicate_parser_get(p, token), LAMBDA q :
     CASE q.error # "" -> q
       [] q.state = "WAIT_UNARY_OP" -> _predicate_parser_wait_unary_op(q, token[1])
       [] q.state = "WAIT_BINARY_OP" -> _predicate_parser_wait_binary_op(q, token[1])
       [] q.state = "WAIT_ARG" -> _predicate_parser_wait_arg(q, token[1]))

(* One turn of the loop of predicate_parser, and what follows the loop.  A *)
(* state left on the stack at the end is an error.                         *)
predicate_parser_step(p, token) ==
  Let(_predicate_parser_get(p, token), LAMBDA q :
  Let(CASE q.error # "" -> q
        [] q.state = "WAIT_UNARY_OP" ->
             _predicate_parser_wait_unary_op(q, token[1])
        [] q.state = "WAIT_BINARY_OP" ->
             _predicate_parser_wait_binary_op(q, token[1])
        [] q.state = "WAIT_ARG" -> _predicate_parser_wait_arg(q, token[1]), LAMBDA r :
     IF r.error = "END" /\ r.stack # <<>> THEN Error(r, "PAR_MISMATCH") ELSE r))

predicate_parser(tokens, regexes) ==
  FoldLeft(LAMBDA p, t : IF p.error # "" THEN p ELSE predicate_parser_step(p, t),
           _predicate_parser_init(regexes), tokens \o <<<<"EOF">>>>)
=============================================================================
