----------------------------- MODULE MCUserland -----------------------------
(* The package manager, the shell with it on disks that do not fail, the   *)
(* file layer, or a FAT32 volume; one of the four in a behaviour.          *)
EXTENDS Shell, Vfs, Fat32, TLC

VARIABLE part
uvars == <<shell_vars, vfs_vars, fat, part>>

\* A package of the shell's own name, one without a file in /bin; a short and a
\* long program.
MCPrograms == {<<"a1">>, <<"b1", "b2">>}
MCSources == <<"a.pkg">> :> <<"a1">>
MCDigits == <<"0", "1", "2", "3", "4", "5", "6", "7", "8", "9">>
MCChars == {"pkg", "install", "remove", "list", "a.pkg", "no.pkg", "x", "w", "echo", "export", "env",
            "clear", "kill", "elf", "exit", "./", "/bin/", "a", "b", "c", "d", "e", "A", "=", " ", "-", "1", "2"}

W(words) == [i \in DOMAIN words |-> <<words[i]>>]
MCTyped ==
    {W(<<"pkg", "install", p, "x">>) : p \in {"a.pkg", "no.pkg"}}
    \cup {W(<<"pkg", "remove", n>>) : n \in {"x", "echo", "w"}}
    \cup {W(<<"pkg", "install", "a.pkg", "echo">>), W(<<"pkg", "install", "a.pkg", "w">>), W(<<"pkg", "list">>)}
    \cup {W(<<c>>) : c \in {"pkg", "x", "export", "env", "kill", "elf", "exit"}}
    \cup {W(<<"elf", "x">>), <<<<"./", "x">>>>, <<<<>>>>, <<>>}
    \cup {<<<<"kill">>, n>> : n \in {<<"1", "2">>, <<"-", "1">>, <<"2", "a">>}}
    \cup {<<<<"export">>, e>> : e \in {<<"A", "=", "1">>, <<"A", "=", "a", " ", "b">>, <<"A">>}}
    \cup {<<<<"echo">>, <<"a", " ", "b">>, <<>>, <<"c">>>>}
    \* Too many arguments; too long a line, whose end is a command.
    \cup {W(<<"echo", "a", "b", "c", "d">>), W(<<"echo", "a", "b", "c", "d", "e", "x">>)}

\* /f/long is longer than the name field, which holds only /f of it.
MCTrunc == [p \in {"/f", "/g", "/f/long"} |-> IF p = "/f/long" THEN "/f" ELSE p]
MCContents == {<<1>>, <<2, 3, 2>>}
MCWrites == {<<1>>}

MCBootSectors ==
    {[bps |-> 512, spc |-> 1, reserved |-> 32, fats |-> 2, spf |-> 3, root |-> 2],
     [bps |-> 512, spc |-> 8, reserved |-> 1, fats |-> 1, spf |-> 9, root |-> 5],
     [bps |-> 4096, spc |-> 1, reserved |-> 32, fats |-> 2, spf |-> 7, root |-> 2]}

\* The state a part that is not used would start in makes no difference.
MCInit ==
    /\ ShellInit /\ VfsInit /\ Fat32Init
    /\ part \in {"pkg", "shell", "vfs", "fat32"}
    /\ part # "pkg" => faults = {}
    /\ part # "fat32" => \A d \in Devices : fat.sector[d].bps # 512

PkgPart == part = "pkg" /\ Next /\ UNCHANGED <<env_vars, sh, did, vfs_vars, fat, part>>
ShellPart == part = "shell" /\ ShellNext /\ UNCHANGED <<vfs_vars, fat, part>>
VfsPart(A) == part = "vfs" /\ A /\ UNCHANGED <<shell_vars, fat, part>>
Fat32Part == part = "fat32" /\ Fat32Next /\ UNCHANGED <<shell_vars, vfs_vars, part>>

MCNext == PkgPart \/ ShellPart \/ VfsPart(VfsNext) \/ Fat32Part

\* A copy_file that was called keeps executing.
MCSpec == MCInit /\ [][MCNext]_uvars /\ WF_uvars(VfsPart(CopyFileStep))
=============================================================================
