-------------------------------- MODULE Policy --------------------------------
(***************************************************************************)
(* How the user writes filters: the language of the actions (the action    *)
(* commands of bgp/filter/registry.c, bgp/filter/parser.c), the route-maps *)
(* (bgp/route_map.c) and the commands on the rules of a filter             *)
(* (cli/bgp_filter.c).                                                     *)
(*                                                                         *)
(* An action is typed as a tuple: a name and arguments that were parsed,   *)
(* each a set that is empty if that failed.  The route-maps are a function *)
(* from their names to their rules.                                        *)
(***************************************************************************)
EXTENDS Filter

-----------------------------------------------------------------------------
(* The commands of the actions: the action as a set, empty on failure. *)

ft_cli_action_accept == {filter_action_accept}

ft_cli_action_deny == {filter_action_deny}

route_map_get(maps, name) == {n \in DOMAIN maps : n = name}

ft_cli_action_jump(maps, name) ==
  {filter_action_jump(n) : n \in route_map_get(maps, name)}

ft_cli_action_call(maps, name) ==
  {filter_action_call(n) : n \in route_map_get(maps, name)}

ft_cli_action_local_pref(pref) == {filter_action_pref_set(p) : p \in pref}

(* kind is "internal" or "number". *)
ft_cli_action_metric(kind, metric) ==
  IF kind = "internal" THEN {filter_action_metric_internal}
  ELSE {filter_action_metric_set(x) : x \in metric}

ft_cli_action_path_prepend(amount) ==
  {filter_action_path_prepend(x) : x \in amount}

ft_cli_action_path_insert(asn, amount) ==
  {filter_action_path_insert(n, x) : n \in asn, x \in amount}

ft_cli_action_path_rem_private == {filter_action_path_rem_private}

ft_cli_action_comm_add(comm) == {filter_action_comm_append(c) : c \in comm}

ft_cli_action_comm_remove(comm) == {filter_action_comm_remove(c) : c \in comm}

ft_cli_action_comm_strip == {filter_action_comm_strip}

ft_cli_action_red_comm_ignore(target) ==
  {filter_action_ecomm_append(ecomm_red_create_as("IGNORE", 0, t)) :
     t \in target}

ft_cli_action_red_comm_prepend(amount, target) ==
  {filter_action_ecomm_append(ecomm_red_create_as("PREPEND", x, t)) :
     x \in amount, t \in target}

(* The commands that are registered. *)
ft_cli_register_action_accept_deny == {"accept", "deny"}

ft_cli_register_action_local_pref == {"local-pref"}

ft_cli_register_action_metric == {"metric"}

ft_cli_register_action_path ==
  {"as-path prepend", "as-path insert", "as-path remove-private"}

ft_cli_register_action_comm ==
  {"community strip", "community add", "community remove"}

ft_cli_register_action_red_comm ==
  {"red-community add ignore", "red-community add prepend"}

ft_cli_register_action_call == {"call"}

ft_cli_register_action_jump == {"jump"}

_cli_actions ==
  ft_cli_register_action_accept_deny \cup ft_cli_register_action_local_pref
    \cup ft_cli_register_action_metric \cup ft_cli_register_action_path
    \cup ft_cli_register_action_comm \cup ft_cli_register_action_red_comm
    \cup ft_cli_register_action_call \cup ft_cli_register_action_jump

ft_registry_action_parser(a, maps) ==
  CASE a[1] \notin _cli_actions -> {}
    [] a[1] = "accept" -> ft_cli_action_accept
    [] a[1] = "deny" -> ft_cli_action_deny
    [] a[1] = "jump" -> ft_cli_action_jump(maps, a[2])
    [] a[1] = "call" -> ft_cli_action_call(maps, a[2])
    [] a[1] = "local-pref" -> ft_cli_action_local_pref(a[2])
    [] a[1] = "metric" -> ft_cli_action_metric(a[2], a[3])
    [] a[1] = "as-path prepend" -> ft_cli_action_path_prepend(a[2])
    [] a[1] = "as-path insert" -> ft_cli_action_path_insert(a[2], a[3])
    [] a[1] = "as-path remove-private" -> ft_cli_action_path_rem_private
    [] a[1] = "community add" -> ft_cli_action_comm_add(a[2])
    [] a[1] = "community remove" -> ft_cli_action_comm_remove(a[2])
    [] a[1] = "community strip" -> ft_cli_action_comm_strip
    [] a[1] = "red-community add ignore" -> ft_cli_action_red_comm_ignore(a[2])
    [] a[1] = "red-community add prepend" ->
         ft_cli_action_red_comm_prepend(a[2], a[3])

-----------------------------------------------------------------------------
(* A list of actions, as a set: {} if one of them fails. *)
filter_parser_action(actions, maps) ==
  LET parsed(k) == ft_registry_action_parser(actions[k], maps)
  IN IF \E k \in DOMAIN actions : parsed(k) = {} THEN {}
     ELSE {[k \in DOMAIN actions |-> The(parsed(k))]}

(* The empty list is not a rule. *)
filter_parser_rule(actions, maps) ==
  {filter_rule_create(NULL, a) : a \in filter_parser_action(actions, maps) \ {<<>>}}

(* {} when there is a route-map of that name. *)
route_map_add(maps, name, rules) ==
  IF name \in DOMAIN maps THEN {} ELSE {maps @@ (name :> rules)}

cli_ctx_create_bgp_route_map(maps, name) ==
  route_map_add(maps, name, filter_create)

(* The map is created when there is none. *)
cli_bgp_route_map_filter_add(maps, name, actions) ==
  LET known == IF name \in DOMAIN maps THEN maps
               ELSE The(route_map_add(maps, name, filter_create))
  IN {[known EXCEPT ![name] = filter_add_rule2(@, rule)] :
        rule \in filter_parser_rule(actions, maps)}

cli_bgp_show_route_maps(maps) == [n \in DOMAIN maps |-> filter_dump({maps[n]})]

-----------------------------------------------------------------------------
(* The commands on a filter.  The result is [ok, filter, rule]: rule is    *)
(* the position of the rule whose context is entered, 0 if the rule is in  *)
(* no filter.                                                              *)

Rule(filter, rule) == [ok |-> TRUE, filter |-> filter, rule |-> rule]

Refused(filter) == [ok |-> FALSE, filter |-> filter, rule |-> 0]

cli_ctx_create_bgp_filter_add_rule(filter) ==
  LET rules == filter_add_rule2(List(filter), filter_rule_create(NULL, <<>>)) IN
     Rule({rules}, Len(rules))

(* That the rule could not be inserted is not noticed. *)
cli_ctx_create_bgp_filter_insert_rule(filter, index) ==
  LET rule == filter_rule_create(NULL, <<>>)
      r == filter_insert_rule(List(filter), The(index), rule) IN
     IF index = {} THEN Refused(filter)
     ELSE IF r = {} THEN Rule({List(filter)}, 0)
     ELSE Rule(r, The(index) + 1)

cli_bgp_filter_remove_rule(filter, index) ==
  LET r == filter_remove_rule(List(filter), The(index)) IN
     IF filter = NULL \/ index = {} \/ r = {} THEN Refused(filter)
     ELSE Rule(r, 0)

cli_ctx_create_bgp_filter_rule(filter) == Refused(filter)

cli_bgp_filter_show(filter) == filter_dump(filter)

(* The predicate of a rule is replaced; the parser may stop the program.   *)
(* What it compiled remains when it fails.                                 *)
cli_bgp_filter_rule_match(rules, k, tokens, regexes) ==
  Let(predicate_parser(tokens, regexes), LAMBDA p :
     [ok |-> p.error = "END", crash |-> p.error = "crash",
      regexes |-> p.regexes,
      rules |-> IF p.error = "END" THEN [rules EXCEPT ![k].matcher = p.left]
                ELSE rules])

(* The actions are appended to the ones of the rule. *)
cli_bgp_filter_rule_action(rules, k, actions, maps) ==
  {[rules EXCEPT ![k].action = @ \o a] : a \in filter_parser_action(actions, maps)}

(* The commands of a rule, of the filters of a peer and of a route-map.    *)
(* The context of a rule that was inserted has none.                       *)
cli_register_bgp_filter_rule == {"match", "action"}

_register_peer_filter ==
  [c \in {"add-rule", "insert-rule", "remove-rule", "show"} |->
     IF c = "add-rule" THEN cli_register_bgp_filter_rule ELSE {}]

_register_bgp_route_map ==
  [c \in {"add-rule"} |-> cli_register_bgp_filter_rule]
=============================================================================
