------------------------------ MODULE CommandLine ------------------------------
(***************************************************************************)
(* The command line of the worker, cli/cli.cpp and cli/main.cpp: which     *)
(* arguments are accepted, what is written and the code of the exit.       *)
(*                                                                         *)
(* An argument is [text, value]: "--driver=x" has the value "x", and an    *)
(* argument without "=" has NoValue.  A value is "good" or something else, *)
(* for every option that checks its value.  A line on stdout is the type   *)
(* of its JSON object, or "text".                                          *)
(***************************************************************************)
EXTENDS Integers, Sequences

NoValue == "no value"
Empty == ""

\* the options with a value, by their long names, and those that check it
ValueOptions ==
  {"--driver", "--play-channel", "--record-channel", "--input", "--output",
   "--bit-depth", "--output-trim", "--input-trim", "--sample-rate"}

CheckedOptions == ValueOptions \ {"--driver", "--input", "--output"}

Flags == {"--verbose", "--json", "--inputs", "--outputs"}

StartsWith(text, prefix) ==
  Len(text) >= Len(prefix) /\ SubSeq(text, 1, Len(prefix)) = prefix

\* An argument as one word; with a "=" it is none of those the program knows.
Word(argument) == IF argument.value = NoValue THEN argument.text ELSE "other"

\* Mutant: an unknown option may be the value of the one before it.
LooksLikeKnownOption(argument) ==
  argument.text \in ValueOptions \cup Flags \cup {"--help", "-h", "-v", "-i", "-o"}

\* A leading double dash always denotes an option.
LooksLikeOption(argument) ==
  StartsWith(argument.text, "--") \/ Word(argument) \in {"-h", "-v", "-i", "-o"}

\* The driver of channels may stand alone.
IsDriverId(argument) == Word(argument) # Empty /\ ~StartsWith(argument.text, "-")

Commands == {"devices", "channels", "test", "run"}

CommandName(text) ==
  CASE text \in Commands -> text
    [] text \in {"help", "--help", "-h"} -> "help"
    [] text \in {"version", "--version"} -> "version"
    [] text \in {"license", "--license"} -> "license"
    [] OTHER -> "unknown"

\* The option an argument stands for: -i and -o mean something else for
\* devices, and flags are compared with the whole argument.
OptionOf(argument, command) ==
  IF argument.text \in ValueOptions THEN argument.text
  ELSE IF argument.value # NoValue THEN "unknown"
  ELSE CASE argument.text \in Flags -> argument.text
         [] argument.text = "-v" -> "--verbose"
         [] argument.text = "-i" -> IF command = "devices" THEN "--inputs" ELSE "--input"
         [] argument.text = "-o" -> IF command = "devices" THEN "--outputs" ELSE "--output"
         [] argument.text \in {"--help", "-h"} -> "--help"
         [] OTHER -> "unknown"

----------------------------------------------------------------------------
(* parse_arguments.                                                        *)

Rejected == [command |-> "rejected", given |-> {}, topic |-> Empty]

OptionsOfRun == {"--input", "--output", "--bit-depth"}

\* The checks after the last argument.
IsConsistent(command, given) ==
  /\ ~({"--inputs", "--outputs"} \subseteq given)
  /\ command # "devices" => given \cap {"--inputs", "--outputs"} = {}
  /\ command = "devices" => given \cap (ValueOptions \cup {"--verbose"}) = {}
  /\ command = "channels" =>
       /\ "--driver" \in given
       /\ given \cap ({"--play-channel", "--record-channel", "--output-trim",
                       "--verbose"} \cup OptionsOfRun) = {}
  /\ command \in {"test", "run"} =>
       {"--driver", "--play-channel", "--record-channel"} \subseteq given
  /\ command = "run" => {"--input", "--output"} \subseteq given
  /\ command # "run" => given \cap OptionsOfRun = {}
  /\ "--input-trim" \in given => command \in {"test", "run"}
  /\ "--sample-rate" \in given => command = "test"

\* option_value: after "=", or the next argument unless it is an option.
HasValue(args, i) ==
  IF args[i].value # NoValue THEN args[i].value # Empty
  ELSE i < Len(args) /\ ~LooksLikeOption(args[i + 1])

Value(args, i) ==
  IF args[i].value # NoValue THEN args[i].value ELSE Word(args[i + 1])

Accepts(args, i, option) ==
  HasValue(args, i) /\ (option \in CheckedOptions => Value(args, i) = "good")

\* One turn of the loop; an empty argument leaves what it is the value of empty.
AfterArgument(state, args, i, command) ==
  LET option == OptionOf(args[i], command)
      Give(name) == [state EXCEPT !.given = @ \cup {name}]
      Take(name) == [state EXCEPT !.given = @ \ {name}]
  IN IF state.rejected \/ state.topic # Empty \/ i = state.skip THEN state
     ELSE CASE option = "--help" ->
                 [state EXCEPT !.topic = command, !.rejected = i # Len(args)]
            [] option \in Flags -> Give(option)
            [] option \in ValueOptions /\ Accepts(args, i, option) ->
                 [(IF Value(args, i) = Empty THEN Take(option) ELSE Give(option))
                    EXCEPT !.skip = IF args[i].value = NoValue THEN i + 1 ELSE 0]
            [] /\ option = "unknown" /\ command = "channels"
               /\ IsDriverId(args[i]) /\ "--driver" \notin state.given ->
                 Give("--driver")
            [] OTHER -> [state EXCEPT !.rejected = TRUE]

BeforeArguments == [given |-> {}, topic |-> Empty, skip |-> 0, rejected |-> FALSE]

ParseOptions(command, args) ==
  LET state[i \in 1..Len(args)] ==
        IF i = 1 THEN BeforeArguments   \* the name of the command
        ELSE AfterArgument(state[i - 1], args, i, command)
      last == state[Len(args)]
  IN IF last.rejected THEN Rejected
     ELSE IF last.topic # Empty
       THEN [command |-> "help", given |-> last.given, topic |-> last.topic]
     ELSE IF ~IsConsistent(command, last.given) THEN Rejected
     ELSE [command |-> command, given |-> last.given, topic |-> Empty]

ParseArguments(args) ==
  LET command == CommandName(args[1].text)
  IN IF args = <<>> THEN [command |-> "devices", given |-> {}, topic |-> Empty]
     ELSE IF args[1].value # NoValue \/ command = "unknown" THEN Rejected
     ELSE CASE command = "help" ->
                 IF Len(args) > 2 THEN Rejected
                 ELSE [command |-> "help", given |-> {},
                       topic |-> IF Len(args) = 2 THEN Word(args[2]) ELSE Empty]
            [] command \in {"version", "license"} ->
                 IF Len(args) > 1 THEN Rejected
                 ELSE [command |-> command, given |-> {}, topic |-> Empty]
            [] OTHER -> ParseOptions(command, args)

----------------------------------------------------------------------------
(* run_cli.  The service emits some events and then returns or throws; its *)
(* outcome is "passed", "failed", "capture_error" or "runtime_error".      *)

HelpTopics == {Empty, "help", "version", "license"} \cup Commands

Exit(out, err, code) == [out |-> out, err |-> err, code |-> code]

Fail(json, lines, code) ==
  IF json THEN Exit(Append(lines, "error"), FALSE, code)
  ELSE Exit(lines, TRUE, code)

Text(lines) == [i \in DOMAIN lines |-> "text"]

Execute(parsed, json, service) ==
  LET events == [i \in 1..service.events |-> "event"]
      Reported(lines) == IF json THEN lines ELSE Text(lines)
      result == CASE parsed.command = "test" -> "test_result"
                  [] parsed.command = "run" -> "capture_result"
                  [] OTHER -> parsed.command
      \* text goes out line by line, what is found in JSON mode at the end
      before == CASE parsed.command = "run" -> Reported(events)
                  [] parsed.command = "test" ->
                       IF json THEN events ELSE <<"text">> \o Text(events)
                  [] parsed.command = "channels" /\ ~json -> <<"text">>
                  [] OTHER -> <<>>
  IN IF service.outcome \in {"capture_error", "runtime_error"}
       THEN Fail(json, before, 1)
       ELSE Exit(before \o Reported(<<result>>), FALSE,
                 IF parsed.command = "test" /\ service.outcome = "failed"
                   THEN 1 ELSE 0)

\* Mutant: --json counts only where it was parsed.
RunCliParsedJson(args, service) ==
  LET parsed == ParseArguments(args)
      json == "--json" \in parsed.given
  IN IF parsed.command = "rejected" THEN Fail(json, <<>>, 2)
     ELSE IF parsed.command = "help"
       THEN IF json \/ parsed.topic \notin HelpTopics THEN Fail(json, <<>>, 2)
            ELSE Exit(<<"text">>, FALSE, 0)
     ELSE IF parsed.command \in {"version", "license"}
       THEN Exit(<<"text">>, FALSE, 0)
     ELSE Execute(parsed, json, service)

RunCli(args, service) ==
  LET json == \E i \in DOMAIN args :
                args[i].text = "--json" /\ args[i].value = NoValue
      parsed == ParseArguments(args)
  IN IF parsed.command = "rejected" THEN Fail(json, <<>>, 2)
     ELSE IF parsed.command = "help"
       THEN IF json \/ parsed.topic \notin HelpTopics THEN Fail(json, <<>>, 2)
            ELSE Exit(<<"text">>, FALSE, 0)
     ELSE IF parsed.command \in {"version", "license"}
       THEN Exit(<<"text">>, FALSE, 0)
     ELSE Execute(parsed, json, service)
=============================================================================
