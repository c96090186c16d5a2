----------------------------- MODULE DaemonConfig -----------------------------
(***************************************************************************)
(* The entry point of serviced, main.go: main copies the build variables  *)
(* into servicedversion, then getConfigs picks the configuration file from *)
(* os.Args before the CLI runs.                                            *)
(*                                                                         *)
(* Strings are sequences of characters from a small alphabet: "q" is a     *)
(* double quote, "s" white space, "=" and "-" themselves, "a" any other    *)
(* character, and the one symbol "CF" stands for the text "--config-file"  *)
(* at the start of an argument (no argument spells it out otherwise).      *)
(***************************************************************************)
EXTENDS Integers, Sequences, SequencesExt

CONSTANTS
    ArgLists,       \* the os.Args the daemon may be started with
    BuildVersion    \* the Version, Date, ... variables set by the linker

Unset    == "unset"                      \* servicedversion before main
ConfFile == <<"/etc/default/serviced">>  \* const conffile

VARIABLES
    args,       \* os.Args
    version,    \* servicedversion.Version, Date, Gitcommit, ...
    config      \* the file NewEnvironConfigReader is given

-----------------------------------------------------------------------------
(* strings.HasPrefix, strings.IndexByte, strings.Trim, strings.TrimSpace   *)

HasPrefix(s, p) == Len(s) >= Len(p) /\ SubSeq(s, 1, Len(p)) = p

\* strings.IndexByte(s, c) + 1: the 1-based index of the first c, 0 if none
IndexByte(s, c) == SelectInSeq(s, LAMBDA x : x = c)

\* strings.Trim(s, cut) for a one-character cutset: drop every leading and
\* every trailing c
RECURSIVE TrimChar(_, _)
TrimChar(s, c) ==
    IF s = <<>> THEN s
    ELSE IF Head(s) = c THEN TrimChar(Tail(s), c)
    ELSE IF s[Len(s)] = c THEN TrimChar(SubSeq(s, 1, Len(s) - 1), c)
    ELSE s

TrimSpace(s) == TrimChar(s, "s")

-----------------------------------------------------------------------------

\* getConfigs(args): the first argument with prefix --config-file gives the
\* file, after its "=" or, without one, the next argument unless that starts
\* with "-" (the text "--config-file" does); surrounding quotes are trimmed,
\* then white space; an empty name means conffile
GetConfigs(as) ==
    LET RECURSIVE Scan(_)
        Value(i) ==
            LET idx == IndexByte(as[i], "=") IN
            IF idx > 0 THEN SubSeq(as[i], idx + 1, Len(as[i]))
            ELSE IF i + 1 <= Len(as) /\ ~HasPrefix(as[i + 1], <<"-">>)
                                     /\ ~HasPrefix(as[i + 1], <<"CF">>)
                 THEN as[i + 1]
                 ELSE <<>>
        Scan(i) ==
            IF i > Len(as) THEN <<>>
            ELSE IF HasPrefix(as[i], <<"CF">>) THEN TrimChar(Value(i), "q")
            ELSE Scan(i + 1)
        filename == TrimSpace(Scan(1))
    IN IF filename = <<>> THEN ConfFile ELSE filename

\* main: copy the build variables into servicedversion; read the configs
\* (an error is only a warning); then cmd.New(...).Run(os.Args)
Main ==
    /\ version = Unset
    /\ version' = BuildVersion
    /\ config' = GetConfigs(args)
    /\ UNCHANGED args

=============================================================================
