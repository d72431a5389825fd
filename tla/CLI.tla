--------------------------------- MODULE CLI ---------------------------------
(***************************************************************************)
(* The root of the command-line interface (cli/common.c): its general      *)
(* commands, the scripts it includes, and the three ways in which the      *)
(* program is given its commands (api.c, main.c).                          *)
(*                                                                         *)
(* The state has more fields here:                                         *)
(*   params   the parameters that are defined, by their names              *)
(*   time     {} or the time that was saved                                *)
(*   limit    the soft limit on the memory                                 *)
(*   opts     also exit_on_error, autoflush and debug                      *)
(*                                                                         *)
(* The result of a command is in err: "CLI_SUCCESS_TERMINATE" ends the     *)
(* session without being an error.                                         *)
(***************************************************************************)
EXTENDS BGPCommands

CONSTANTS HashSize,          \* the buckets of the two repositories
          HardLimit,         \* what getrlimit gives for the memory
          PACKAGE_VERSION    \* as [parts, subs]

Unlimited == -1

(* The program at its start. *)
Blank ==
  [net |-> network_create, queue |-> <<>>, rcvd |-> {}, fifo |-> <<>>, result |-> {},
   inbox |-> <<>>, lost |-> <<>>, err |-> "ESUCCESS",
   mem |-> [paths |-> EmptyHash(HashSize), comms |-> EmptyHash(HashSize), crash |-> ""],
   maps |-> <<>>, regexes |-> <<>>, bgp |-> <<>>, domains |-> <<>>,
   opts |-> [med |-> "deterministic", local_pref |-> 0, mode |-> <<"cisco">>,
             flags |-> {}, exit_on_error |-> TRUE, autoflush |-> FALSE, debug |-> FALSE],
   params |-> <<>>, time |-> {}, limit |-> HardLimit,
   leak |-> [paths |-> <<>>, comms |-> <<>>], monitor |-> {}, strays |-> <<>>,
   load |-> NoLoad, out |-> {}, ctx |-> {}, topo |-> {},
   enum |-> [router |-> {}, as |-> {}]]

-----------------------------------------------------------------------------
(* A boolean of the command line, as a set. *)
str2boolean(str) == {b \in BOOLEAN : str = IF b THEN "on" ELSE "off"}

(* A version is [parts, subs]: the number of parts between hyphens and the *)
(* numbers between the dots of the first, {} for one that is not a number. *)
parse_version(v) ==
  IF \/ v.parts \notin 1 .. 2 \/ Len(v.subs) # 3
     \/ \E k \in DOMAIN v.subs : v.subs[k] = {} \/ \E x \in v.subs[k] : x >= 100
    THEN {}
  ELSE {1000000 * The(v.subs[1]) + 10000 * The(v.subs[2]) + 100 * The(v.subs[3])}

libcbgp_set_param(S, name, value) == [S EXCEPT !.params = (name :> value) @@ @]

libcbgp_has_param(S, name) == name \in DOMAIN S.params

-----------------------------------------------------------------------------
(* require, set and show *)

cli_require_param(S, name) == IF libcbgp_has_param(S, name) THEN Success(S) ELSE Failed(S)

cli_require_version(S, version) ==
  LET required == parse_version(version)
      version0 == parse_version(PACKAGE_VERSION)
  IN IF required = {} \/ version0 = {} THEN Failed(S)
     ELSE IF The(required) > The(version0) THEN Failed(S)
     ELSE Success(S)

cli_set_autoflush(S, str) ==
  IF str2boolean(str) = {} THEN Failed(S)
  ELSE Success([S EXCEPT !.opts.autoflush = The(str2boolean(str))])

cli_set_exitonerror(S, str) ==
  IF str2boolean(str) = {} THEN Failed(S)
  ELSE Success([S EXCEPT !.opts.exit_on_error = The(str2boolean(str))])

cli_set_debug(S, str) ==
  IF str2boolean(str) = {} THEN Failed(S)
  ELSE Success([S EXCEPT !.opts.debug = The(str2boolean(str))])

(* The size of a repository that is in use cannot be changed. *)
cli_set_comm_hash_size(S, size) ==
  IF size = {} \/ S.mem.comms.made THEN Failed(S)
  ELSE Success([S EXCEPT !.mem = comm_hash_set_size(@, The(size))])

cli_set_path_hash_size(S, size) ==
  IF size = {} \/ S.mem.paths.made THEN Failed(S)
  ELSE Success([S EXCEPT !.mem = path_hash_set_size(@, The(size))])

setrlimit(S, limit) ==
  IF HardLimit # Unlimited /\ (limit = Unlimited \/ limit > HardLimit) THEN Failed(S)
  ELSE Success([S EXCEPT !.limit = limit])

cli_set_mem_limit(S, limit) ==
  IF limit = {} THEN Failed(S) ELSE setrlimit(S, The(limit))

cli_show_mem_limit(S) == Say(S, <<"mem-limit", S.limit, HardLimit>>)

(* The repository is made when it is first shown. *)
cli_show_comm_hash_content(S) ==
  LET T == [S EXCEPT !.mem = _comm_hash_init(@)] IN Say(T, <<"hash", comm_hash_content(T.mem)>>)

cli_show_path_hash_content(S) ==
  LET T == [S EXCEPT !.mem = _path_hash_init(@)] IN Say(T, <<"hash", path_hash_content(T.mem)>>)

cli_show_comm_hash_size(S) == Say(S, <<"size", comm_hash_get_size(S.mem)>>)

cli_show_path_hash_size(S) == Say(S, <<"size", path_hash_get_size(S.mem)>>)

cli_show_comm_hash_stat(S) ==
  LET T == [S EXCEPT !.mem = _comm_hash_init(@)] IN Say(T, <<"stat", comm_hash_statistics(T.mem)>>)

cli_show_path_hash_stat(S) ==
  LET T == [S EXCEPT !.mem = _path_hash_init(@)] IN Say(T, <<"stat", path_hash_statistics(T.mem)>>)

cli_show_mrt(S) == Failed(S)

cli_show_version(S) == Say(S, <<"version", PACKAGE_VERSION>>)

-----------------------------------------------------------------------------
(* The other commands. *)

cli_define(S, name, value) == Success(libcbgp_set_param(S, name, value))

cli_quit(S) == Return(S, "CLI_SUCCESS_TERMINATE")

cli_time_save(S, now) == Success([S EXCEPT !.time = {now}])

(* The time 0 stands for none. *)
cli_time_diff(S, now) ==
  IF S.time \in {{}, {0}} THEN Failed(S) ELSE Say(S, <<"time", now - The(S.time)>>)

cli_print(S, message) == Say(S, <<"print", message>>)

cli_pause(S) == Success(S)

(* Is there such a directory? *)
cli_chdir(S, exists) == IF exists THEN Success(S) ELSE Failed(S)

_register_require(S, w) ==
  CASE w[1] = "param" -> cli_require_param(S, w[2])
    [] w[1] = "version" -> cli_require_version(S, w[2])
    [] OTHER -> NoCommand(S)

_register_set(S, w) ==
  CASE w[1] = "autoflush" -> cli_set_autoflush(S, w[2])
    [] w[1] = "comm-hash-size" -> cli_set_comm_hash_size(S, w[2])
    [] w[1] = "debug" -> cli_set_debug(S, w[2])
    [] w[1] = "exit-on-error" -> cli_set_exitonerror(S, w[2])
    [] w[1] = "mem-limit" -> cli_set_mem_limit(S, w[2])
    [] w[1] = "path-hash-size" -> cli_set_path_hash_size(S, w[2])
    [] OTHER -> NoCommand(S)

_register_show(S, w) ==
  CASE w[1] = "comm-hash-content" -> cli_show_comm_hash_content(S)
    [] w[1] = "comm-hash-size" -> cli_show_comm_hash_size(S)
    [] w[1] = "comm-hash-stat" -> cli_show_comm_hash_stat(S)
    [] w[1] = "mrt" -> cli_show_mrt(S)
    [] w[1] = "mem-limit" -> cli_show_mem_limit(S)
    [] w[1] = "path-hash-content" -> cli_show_path_hash_content(S)
    [] w[1] = "path-hash-size" -> cli_show_path_hash_size(S)
    [] w[1] = "path-hash-stat" -> cli_show_path_hash_stat(S)
    [] w[1] = "version" -> cli_show_version(S)
    [] OTHER -> NoCommand(S)

_register_time(S, w) ==
  CASE w[1] = "diff" -> cli_time_diff(S, w[2])
    [] w[1] = "save" -> cli_time_save(S, w[2])
    [] OTHER -> NoCommand(S)

-----------------------------------------------------------------------------
(* The functions of the routers that are called from many places, or that  *)
(* call each other, by name: Call of module BGPDecision.  The program, a   *)
(* command and an event are performed like them.                           *)

RECURSIVE Perform(_, _)

(* The simulator: an event is a message that arrives at an interface, and  *)
(* is forwarded, answered, dropped or handed to a router.                  *)

Event(S) ==
  Let(_network_send_callback(Success(S)), LAMBDA r :
  LET here == Head(r.inbox) IN
     Collect(IF r.inbox = <<>> \/ Crashed(r) THEN r
             ELSE bgp_router_handle_message([r EXCEPT !.inbox = <<>>], here.node, here.msg)))

RECURSIVE _run(_)
_run(S) ==
  IF S.err # "ESUCCESS" \/ Crashed(S) \/ S.queue = <<>> THEN S
  ELSE _run(Perform(S, <<"event">>))

cli_sim_run(S) == Result(_run(Success(S)))

-----------------------------------------------------------------------------
(* A command of the user, by its first word, in a file that includes       *)
(* others.  What the previous command showed is gone; the context of a     *)
(* rule is left by any command that is not one of its own.                 *)

RuleWords == {"add-rule", "match", "action"}

(* Mutant: the option is not looked at. *)
GoesOn(S) == IF Crashed(S) THEN S ELSE Success(S)

(* What a script does after a command that has failed. *)
_cli_on_error(S) == IF Crashed(S) \/ S.opts.exit_on_error THEN S ELSE Success(S)

RECURSIVE cli_execute_stream(_, _)

cli_include(S, file) ==
  IF Files[file] = {} THEN Failed(S) ELSE cli_execute_stream(Success(S), The(Files[file]))

cli_get(S, c) ==
  LET T == [S EXCEPT !.out = {}, !.ctx = IF c[1] \in RuleWords THEN @ ELSE {}]
      w == Tail(c) IN
  Let(Execute(T.net, c, TRUE), LAMBDA r :
     CASE c[1] = "bgp" -> Collect(cli_register_bgp(T, w))
       [] c[1] = "sim run" -> cli_sim_run(T)
       [] c[1] = "add-rule" -> MapRule(T)
       [] c[1] \in {"match", "action"} -> RuleCommand(T, c[1], w[1])
       [] c[1] = "define" -> cli_define(T, w[1], w[2])
       [] c[1] = "include" -> cli_include(T, w[1])
       [] c[1] = "pause" -> cli_pause(T)
       [] c[1] = "print" -> cli_print(T, w[1])
       [] c[1] = "require" -> _register_require(T, w)
       [] c[1] = "set" -> _register_set(T, w)
       [] c[1] = "show" -> _register_show(T, w)
       [] c[1] = "time" -> _register_time(T, w)
       [] c[1] = "chdir" -> cli_chdir(T, w[1])
       [] c[1] = "quit" -> cli_quit(T)
       [] OTHER -> Return([T EXCEPT !.net = r.net], r.err))

(* A script, line by line, up to the first that does not succeed. *)
cli_execute_stream(S, script) ==
  IF script = <<>> \/ S.err # "ESUCCESS" \/ Crashed(S) THEN S
  ELSE LET r == Perform(S, <<"command", Head(script)>>) IN
          cli_execute_stream(
            IF r.err \in {"ESUCCESS", "CLI_SUCCESS_TERMINATE"} THEN r ELSE _cli_on_error(r),
            Tail(script))

-----------------------------------------------------------------------------
(* The program: what its three modes return. *)

libcbgp_exec_cmd(S, c) == Perform(S, <<"command", c>>)

libcbgp_exec_stream(S, script) == cli_execute_stream(Success(S), script)

libcbgp_exec_file(S, file) ==
  IF Files[file] = {} THEN Return(S, "EUNEXPECTED")
  ELSE Let(libcbgp_exec_stream(S, The(Files[file])), LAMBDA r :
          IF r.err # "ESUCCESS" /\ ~Crashed(r) THEN Return(r, "EUNEXPECTED") ELSE r)

(* The user goes on after an error; the result of the last line is the one *)
(* that is returned, be it the end that was asked for.                     *)
RECURSIVE libcbgp_interactive(_, _)
libcbgp_interactive(S, lines) ==
  IF lines = <<>> \/ S.err = "CLI_SUCCESS_TERMINATE" \/ Crashed(S) THEN S
  ELSE libcbgp_interactive(libcbgp_exec_cmd(S, Head(lines)), Tail(lines))

(* The modes of main. *)
Program(mode, S, arg) ==
  CASE mode = "default" -> libcbgp_exec_stream(S, arg)
    [] mode = "interactive" -> libcbgp_interactive(Success(S), arg)
    [] mode = "script" -> libcbgp_exec_file(S, arg)
    [] mode = "execute" -> libcbgp_exec_cmd(S, arg)

Perform(S, c) ==
  LET name == c[1] IN
  CASE name = "tell" ->
         bgp_router_decision_process_disseminate_to_peer(S, c[2], c[3], c[4], c[5])
    [] name = "decide" -> bgp_router_decision_process(S, c[2], c[3])
    [] name = "open" -> bgp_peer_open_session(S, c[2], c[3])
    [] name = "close" -> bgp_peer_close_session(S, c[2], c[3])
    [] name = "message" -> bgp_peer_handle_message(S, c[2], c[3], c[4])
    [] name = "event" -> Event(S)
    [] name = "command" -> cli_get(S, c[2])
    [] name = "program" -> Program(c[2], S, c[3])

(* The exit code. *)
main(mode, S, arg) ==
  Let(Perform(S, <<"program", mode, arg>>), LAMBDA r :
     [S |-> r, code |-> IF r.err = "ESUCCESS" THEN "EXIT_SUCCESS" ELSE "EXIT_FAILURE"])
=============================================================================
