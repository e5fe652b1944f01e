------------------------------- MODULE Shell -------------------------------
(***************************************************************************)
(* The shell userland/zsh.c on top of the package manager (Pkg) and its    *)
(* environment (Environ), with the kill command of kernel/kill.c.          *)
(*                                                                         *)
(* A character is a symbol; a word that needs no taking apart is one       *)
(* symbol.  A user types a list of arguments, quoting those that need it.  *)
(* read returns at most MAX_INPUT - 1 characters, and the rest of a longer *)
(* line at the next call.  exec, kill and the terminal are external: the   *)
(* shell only notes what it asked for in `did'.                            *)
(***************************************************************************)
EXTENDS Pkg, Environ
LOCAL INSTANCE SequencesExt

CONSTANTS
    Typed,      \* the argument lists a user may type
    Sources,    \* path of a package -> its program
    Digits,     \* "0" .. "9" in order
    MAX_INPUT,
    MAX_ARGS

VARIABLES
    sh,  \* [up, rest, meant, whole, args]: the shell runs; what is typed and not
         \* read yet; the arguments of the last line typed; it was read whole;
         \* what parse_args made of the last line read
    did  \* [what, with, ret]: what dispatch did with it

shell_vars == <<vars, env_vars, sh, did>>

Blank == {" ", "\n"}
QUOTE == "\""

-----------------------------------------------------------------------------
(* parse_args.                                                             *)

\* The index of the first character from i on that is in stops, or the end.
RECURSIVE UpTo(_, _, _)
UpTo(line, i, stops) == IF i > Len(line) \/ line[i] \in stops THEN i ELSE UpTo(line, i + 1, stops)

\* The index of the first character from i on that is not blank, or the end.
RECURSIVE SkipBlanks(_, _)
SkipBlanks(line, i) == IF i <= Len(line) /\ line[i] \in Blank THEN SkipBlanks(line, i + 1) ELSE i

\* Mutant: a quoted argument ends at a blank, too.
QuotedStops_Blank == {QUOTE} \cup Blank

\* What ends a quoted argument.
QuotedStops == {QUOTE}

RECURSIVE ParseFrom(_, _, _)
ParseFrom(line, i, args) ==
    LET p == SkipBlanks(line, i)
    IN  IF p > Len(line) \/ Len(args) >= MAX_ARGS - 1 THEN args
        ELSE LET from == IF line[p] = QUOTE THEN p + 1 ELSE p
                 to   == UpTo(line, from, IF line[p] = QUOTE THEN QuotedStops ELSE Blank)
             IN  ParseFrom(line, to + 1, Append(args, SubSeq(line, from, to - 1)))

ParseArgs(line) == ParseFrom(line, 1, <<>>)

-----------------------------------------------------------------------------
(* dispatch.                                                               *)

\* An argument that is a single word.
Word(arg) == IF Len(arg) = 1 THEN arg[1] ELSE ""

Builtins == {"clear", "echo", "export", "env", "elf", "pkg", "kill"}

\* kill_atol: a sign, then the digits up to the first other character.
KillAtol(arg) ==
    LET neg == arg # <<>> /\ arg[1] = "-"
        s   == IF neg THEN Tail(arg) ELSE arg
        n   == CHOOSE k \in 0 .. Len(s) : (\A j \in 1 .. k : s[j] \in ToSet(Digits))
                                           /\ (k = Len(s) \/ s[k + 1] \notin ToSet(Digits))
        Value[k \in 0 .. n] ==
            IF k = 0 THEN 0 ELSE Value[k - 1] * 10 + (CHOOSE d \in 0 .. 9 : Digits[d + 1] = s[k])
    IN  IF neg THEN -Value[n] ELSE Value[n]

Did(what, with, ret) == [what |-> what, with |-> with, ret |-> ret]

\* Where dispatch finds a command: the static table comes first.
Found(word) == IF word \in Builtins THEN "builtin" ELSE IF word \in dyn THEN "dyn" ELSE "path"

NoPkg == UNCHANGED <<db, bin, dyn, last>>
NoEnv == UNCHANGED env_vars

CmdExport(args) ==
    /\ IF Len(args) >= 2 /\ "=" \in ToSet(args[2]) THEN EnvSet(args[2]) ELSE NoEnv
    /\ did' = Did("export", IF Len(args) >= 2 THEN args[2] ELSE <<>>, Len(exported') - Len(exported) - 1)
    /\ NoPkg

\* cmd_kill; the system call's answer is not modelled.
CmdKill(args) ==
    LET id == IF Len(args) < 2 THEN 0 ELSE KillAtol(args[2])
    IN  did' = (IF id <= 0 THEN Did("usage", <<"kill">>, 1) ELSE Did("kill", <<id>>, 0)) /\ NoPkg /\ NoEnv

\* cmd_pkg: there is no subcommand for pkg_update.
CmdPkg(args) ==
    LET sub == IF Len(args) < 2 THEN "" ELSE Word(args[2])
        install == sub = "install" /\ Len(args) >= 4
        remove == sub = "remove" /\ Len(args) >= 3
    IN  /\ \/ /\ install
              /\ IF args[3] \in DOMAIN Sources THEN PkgInstall(Word(args[4]), Sources[args[3]])
                 ELSE NoSource("install", Word(args[4]))
           \/ remove /\ PkgRemove(Word(args[3]))
           \/ ~install /\ ~remove /\ NoPkg
        /\ did' = Did("pkg", args, IF install \/ remove THEN last'.ret ELSE IF sub = "list" THEN 0 ELSE -1)
        /\ NoEnv

Dispatch(args) ==
    LET word == Word(args[1])
        where == Found(word)
    IN  \/ where = "builtin" /\ word = "export" /\ CmdExport(args)
        \/ where = "builtin" /\ word = "kill" /\ CmdKill(args)
        \/ where = "builtin" /\ word = "pkg" /\ CmdPkg(args)
        \/ /\ where = "builtin" /\ word \in {"clear", "echo", "env"}
           /\ did' = Did(word, Tail(args), 0) /\ NoPkg /\ NoEnv
        \/ /\ where = "builtin" /\ word = "elf"
           /\ did' = (IF Len(args) < 2 THEN Did("usage", <<"elf">>, -1) ELSE Did("exec", args[2], 0))
           /\ NoPkg /\ NoEnv
        \/ where = "dyn" /\ did' = Did("exec", <<"/bin/", word>>, 0) /\ NoPkg /\ NoEnv
        \/ /\ where = "path"
           /\ did' = (IF args[1] # <<>> /\ args[1][1] \in {"./", "/"} THEN Did("exec", args[1], 0)
                         ELSE Did("not found", args[1], 0))
           /\ NoPkg /\ NoEnv

-----------------------------------------------------------------------------
(* main.                                                                   *)

\* What a user types for a list of arguments.
Quoted(arg) == IF arg = <<>> \/ " " \in ToSet(arg) THEN <<QUOTE>> \o arg \o <<QUOTE>> ELSE arg
Line(args) == FlattenSeq([i \in 1 .. 2 * Len(args) |->
                            IF i % 2 = 1 THEN Quoted(args[(i + 1) \div 2])
                            ELSE IF i = 2 * Len(args) THEN <<"\n">> ELSE <<" ">>])

\* One turn of the loop, on what read returned of a line.
Turn(line, meant, fresh) ==
    LET n    == Min2(Len(line), MAX_INPUT - 1)
        args == ParseArgs(SubSeq(line, 1, n))
        quit == args # <<>> /\ Word(args[1]) = "exit"
    IN  /\ sh' = [up |-> ~quit, rest |-> SubSeq(line, n + 1, Len(line)), meant |-> meant,
                  whole |-> fresh /\ n = Len(line), args |-> args]
        /\ IF args = <<>> \/ quit THEN did' = Did("none", <<>>, 0) /\ NoPkg /\ NoEnv ELSE Dispatch(args)

\* A line is typed and the first part of it read.
ReadLine(args) == sh.up /\ sh.rest = <<>> /\ Turn(Line(args), args, TRUE) /\ UNCHANGED faults

\* The rest of a line that was too long is read as a line.
ReadRest == sh.up /\ sh.rest # <<>> /\ Turn(sh.rest, sh.meant, FALSE) /\ UNCHANGED faults

\* read fails or finds the end of the input.
EndOfInput ==
    /\ sh.up
    /\ sh' = [sh EXCEPT !.up = FALSE]
    /\ UNCHANGED <<vars, env_vars, did>>

NewShell == [up |-> TRUE, rest |-> <<>>, meant |-> <<>>, whole |-> TRUE, args |-> <<>>]

\* The machine restarts: only the files are left.
ShellRestart ==
    /\ Restart
    /\ sh' = NewShell /\ did' = Did("none", <<>>, 0)
    /\ pool' = [i \in 1 .. ENV_POOL_SZ |-> NUL] /\ pool_used' = 0 /\ slots' = <<>> /\ exported' = <<>>
    /\ UNCHANGED faults

ShellInit == Init /\ EnvInit /\ sh = NewShell /\ did = Did("none", <<>>, 0)

ShellNext ==
    \/ \E args \in Typed : ReadLine(args)
    \/ ReadRest
    \/ EndOfInput
    \/ ShellRestart

-----------------------------------------------------------------------------
(* Properties.                                                             *)

\* The digits of a number, as a user writes it.
Numeral(n) == IF n < 10 THEN <<Digits[n + 1]>> ELSE <<Digits[(n \div 10) + 1], Digits[(n % 10) + 1]>>

\* zsh.c:74: parse_args finds the arguments that were typed, also empty ones and
\* ones with blanks, up to the size of args[]; the number given to kill is the
\* one that was meant, and no other than a positive one is passed on.
DidWhatWasMeant ==
    sh.whole =>
        /\ sh.args = SubSeq(sh.meant, 1, Min2(Len(sh.meant), MAX_ARGS - 1))
        /\ did.what = "kill" => did.with[1] > 0 /\ \A n \in 0 .. 99 : sh.args[2] = Numeral(n) => did.with[1] = n

\* No package, whatever it is called, comes between a name of the shell's own and
\* its command, and a name that is not one of those is never run from the package
\* directory unless the database, if it can be read, has a record of it.
NamesMeanOneThing ==
    /\ sh.args # <<>> /\ Word(sh.args[1]) \in Builtins \ {"elf"} => did.what # "exec"
    /\ did.what = "exec" /\ did.with[1] = "/bin/" => did.with[2] = Word(sh.args[1]) /\ ("load" \notin faults => did.with[2] \in Recorded)

\* The shell does what the line says: its arguments, its number, its command.
ShellObeys == DidWhatWasMeant /\ NamesMeanOneThing

\* pkg.h:19: a package that was installed can be run.
InstalledIsRunnable == last.op = "install" /\ last.ret = 0 => last.name \in dyn
=============================================================================
