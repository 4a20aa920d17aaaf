------------------------------ MODULE Controller ------------------------------
(***************************************************************************)
(* The controller (src/runners/controller/controller.cc): it reads command *)
(* lines, from a file and then from the terminal, and turns each into      *)
(* requests to the processes it names.  It never receives anything.        *)
(*                                                                         *)
(* A line is [name, rank, arg]: the command, the rank it names (Nil for    *)
(* none, and any value that is no rank for what String::to_int or the      *)
(* range checks refuse) and the rest (Nil for none).  The two numbers at   *)
(* the head of a file are not lines.                                       *)
(***************************************************************************)
EXTENDS Links

CONSTANT Scripts    \* the sequences of lines the operator may type

(* A command is what the operator types behind ENTRY. *)
ASSUME ScriptsAssumption ==
  \A script \in Scripts :
    /\ Len(script) \in Nat
    /\ script = [i \in 1 .. Len(script) |-> script[i]]
    /\ \A i \in 1 .. Len(script) :
         script[i].name = "ENTRY" => script[i].arg \in Cmd \cup {Nil}

VARIABLE lines      \* those not read yet

Speeds == {"low", "medium", "high"}

ControllerInit == lines \in Scripts

(* Slip: the rank of a PRINT_LOG is checked like that of a STATUS. *)
PrintsAnyone(line) ==
  CASE line.name \in {"STATUS", "PRINT_LOG"} ->
         IF line.rank = Nil THEN Node \cup Client
                            ELSE {line.rank} \cap (Node \cup Client)
    [] line.name \in {"CRASH", "RECOVERY"} -> {line.rank} \cap (Node \cup Client)
    [] line.name = "START" -> IF line.rank = Nil THEN Client
                                                 ELSE {line.rank} \cap Client
    [] line.name = "ENTRY" /\ line.arg # Nil -> {line.rank} \cap Client
    [] OTHER -> {}

(* The processes a line is sent to, none when an argument is missing or    *)
(* out of range.  HELP, SLEEP and an unknown command send nothing.         *)
Addressees(line) ==
  CASE line.name \in {"CRASH", "RECOVERY"} -> {line.rank} \cap (Node \cup Client)
    [] line.name = "SPEED" /\ line.arg \in Speeds -> {line.rank} \cap (Node \cup Client)
    [] line.name = "STATUS" -> IF line.rank = Nil
                               THEN Node \cup Client
                               ELSE {line.rank} \cap (Node \cup Client)
    [] line.name = "START" -> IF line.rank = Nil THEN Client
                                                 ELSE {line.rank} \cap Client
    [] line.name = "PRINT_LOG" -> IF line.rank = Nil THEN Node
                                                     ELSE {line.rank} \cap Node
    [] line.name = "ENTRY" /\ line.arg # Nil -> {line.rank} \cap Client
    [] OTHER -> {}

(* parse_input_command of the next line. *)
ReadLine ==
  /\ lines # <<>>
  /\ LET line == Head(lines)
     IN  link' = [link EXCEPT ![Root] = [d \in Process |->
                    IF d \in Addressees(line)
                    THEN Append(@[d], ControllerRequest(line.name, line.arg))
                    ELSE @[d]]]
  /\ lines' = Tail(lines)
==============================================================================
