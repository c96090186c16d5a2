------------------------------- MODULE KeyReset -------------------------------
(***************************************************************************)
(* The `serviced key` commands of cli/cmd/key.go run by concurrent CLI     *)
(* processes.  `key reset HostID` fetches the host, has the master         *)
(* generate a new delegate key for it (ResetHostKey; the old key stops     *)
(* working), then outputDelegateKey registers the key on the host over ssh *)
(* (--register) and writes it to a key file when it was not registered or *)
(* --key-file was given.  `key list HostID` prints the master's current    *)
(* public key.  Every driver call may fail.  Keys are numbered: the n-th   *)
(* reset of a host generates key n; key 0 is the one it starts with.       *)
(***************************************************************************)
EXTENDS Integers

CONSTANTS
    Clis,        \* concurrent CLI processes
    Hosts,
    HostIP,      \* HostIP[h]: host.IPAddr
    Cmds,        \* Cmds[a]: the commands CLI process a may run
    Faults       \* may a driver call, filepath.Abs or the write fail?

AllCmds == UNION {Cmds[a] : a \in Clis}

None  == "none"   \* no HostID argument
NoKey == -1       \* no key

\* fmt.Sprintf("IP-%s.delegate.key", strings.Replace(host.IPAddr, ".", "-", -1)):
\* a name built from the IP alone; the replacement of dots is one-to-one on
\* addresses, so the name stands for the IP
DefaultKeyFile(h) == <<"IP-", HostIP[h], ".delegate.key">>

Files == {DefaultKeyFile(h) : h \in Hosts} \cup
         {cm.keyfile : cm \in {cm \in AllCmds : cm.keyfile # ""}}

VARIABLES
    mkey,    \* mkey[h]: the delegate key the master holds for host h
    hkey,    \* hkey[h]: the key registered on host h
    file,    \* file[f]: the key the key file f holds, or NoKey
    pc,      \* control point of each CLI process
    cmd,     \* the command it runs
    key,     \* the key its ResetHostKey returned
    fname,   \* the key file name it writes
    out      \* what it printed

vars == <<mkey, hkey, file, pc, cmd, key, fname, out>>

Emit(a, msgs) == out' = [out EXCEPT ![a] = @ \cup msgs]

Done(a) == pc' = [pc EXCEPT ![a] = "done"]

-----------------------------------------------------------------------------

\* cmdHostKey / cmdKeyReset: `if len(args) < 1` print the usage and return
Args(a) ==
    /\ pc[a] = "args"
    /\ \/ cmd[a].host = None /\ Emit(a, {"usage"}) /\ Done(a)
       \/ /\ cmd[a].host # None
          /\ pc' = [pc EXCEPT ![a] = IF cmd[a].op = "list" THEN "pubkey" ELSE "gethost"]
          /\ UNCHANGED out
    /\ UNCHANGED <<mkey, hkey, file, cmd, key, fname>>

\* cmdHostKey: key, err := GetHostPublicKey(args[0]); print it
GetHostPublicKey(a) ==
    /\ pc[a] = "pubkey"
    /\ \/ Faults /\ Emit(a, {"errPublicKey"})
       \/ Emit(a, {"publicKey"})
    /\ Done(a)
    /\ UNCHANGED <<mkey, hkey, file, cmd, key, fname>>

\* cmdKeyReset: host, err := c.driver.GetHost(hostID)
GetHost(a) ==
    /\ pc[a] = "gethost"
    /\ \/ Faults /\ Emit(a, {"errGetHost"}) /\ Done(a)
       \/ pc' = [pc EXCEPT ![a] = "reset"] /\ UNCHANGED out
    /\ UNCHANGED <<mkey, hkey, file, cmd, key, fname>>

\* key, err := c.driver.ResetHostKey(hostID): the master replaces the key
ResetHostKey(a) ==
    LET h == cmd[a].host IN
    /\ pc[a] = "reset"
    /\ \/ Faults /\ Emit(a, {"errReset"}) /\ Done(a) /\ UNCHANGED <<mkey, key>>
       \/ /\ mkey' = [mkey EXCEPT ![h] = @ + 1]
          /\ key' = [key EXCEPT ![a] = mkey[h] + 1]
          /\ pc' = [pc EXCEPT ![a] = "register"]
          /\ UNCHANGED out
    /\ UNCHANGED <<hkey, file, cmd, fname>>

\* the rest of outputDelegateKey: writeKeyFile is set, and the default name
\* chosen, from the outcome of the registration and the --key-file flag
Decide(a, writeKeyFile) ==
    LET h == cmd[a].host IN
    /\ pc' = [pc EXCEPT ![a] = IF writeKeyFile \/ cmd[a].keyfile # ""
                                THEN "abs" ELSE "id"]
    /\ fname' = [fname EXCEPT ![a] = IF cmd[a].keyfile = "" THEN DefaultKeyFile(h)
                                     ELSE cmd[a].keyfile]

\* mutant: a failed registration does not fall back to the key file
RegisterNoFallback(a) ==
    LET h == cmd[a].host IN
    /\ pc[a] = "register"
    /\ \/ /\ cmd[a].register
          /\ \/ Faults /\ Emit(a, {"errRegister"}) /\ Decide(a, FALSE)
                /\ UNCHANGED hkey
             \/ hkey' = [hkey EXCEPT ![h] = key[a]] /\ Emit(a, {"registered"})
                /\ Decide(a, FALSE)
       \/ ~cmd[a].register /\ Decide(a, TRUE) /\ UNCHANGED <<hkey, out>>
    /\ UNCHANGED <<mkey, file, cmd, key>>

\* outputDelegateKey: with --register, RegisterRemoteHost(host, key, prompt)
\* installs the key on the host over ssh; on error writeKeyFile = true;
\* without --register writeKeyFile = true
Register(a) ==
    LET h == cmd[a].host IN
    /\ pc[a] = "register"
    /\ \/ /\ cmd[a].register
          /\ \/ Faults /\ Emit(a, {"errRegister"}) /\ Decide(a, TRUE)
                /\ UNCHANGED hkey
             \/ hkey' = [hkey EXCEPT ![h] = key[a]] /\ Emit(a, {"registered"})
                /\ Decide(a, FALSE)
       \/ ~cmd[a].register /\ Decide(a, TRUE) /\ UNCHANGED <<hkey, out>>
    /\ UNCHANGED <<mkey, file, cmd, key>>

\* `if keyfileName, err := filepath.Abs(keyfileName); err != nil` return;
\* the absolute name is scoped to the if and never used
Abs(a) ==
    /\ pc[a] = "abs"
    /\ \/ Faults /\ Emit(a, {"errAbs"}) /\ Done(a)
       \/ pc' = [pc EXCEPT ![a] = "write"] /\ UNCHANGED out
    /\ UNCHANGED <<mkey, hkey, file, cmd, key, fname>>

\* WriteDelegateKey(keyfileName, keyData); on error print it; then print
\* "Wrote delegate key file to" in either case
WriteDelegateKey(a) ==
    /\ pc[a] = "write"
    /\ \/ Faults /\ Emit(a, {"errWrite", "wrote"}) /\ UNCHANGED file
       \/ file' = [file EXCEPT ![fname[a]] = key[a]] /\ Emit(a, {"wrote"})
    /\ pc' = [pc EXCEPT ![a] = "id"]
    /\ UNCHANGED <<mkey, hkey, cmd, key, fname>>

\* fmt.Println(host.ID)
WriteHostID(a) ==
    /\ pc[a] = "id"
    /\ Emit(a, {"hostID"})
    /\ Done(a)
    /\ UNCHANGED <<mkey, hkey, file, cmd, key, fname>>

-----------------------------------------------------------------------------

Init ==
    /\ mkey = [h \in Hosts |-> 0]
    /\ hkey \in [Hosts -> {0, NoKey}]
    /\ file \in [Files -> {0, NoKey}]
    /\ pc = [a \in Clis |-> "args"]
    /\ cmd \in {c \in [Clis -> AllCmds] : \A a \in Clis : c[a] \in Cmds[a]}
    /\ key = [a \in Clis |-> NoKey]
    /\ fname = [a \in Clis |-> <<>>]
    /\ out = [a \in Clis |-> {}]

Step(a) ==
    \/ Args(a) \/ GetHostPublicKey(a) \/ GetHost(a) \/ ResetHostKey(a)
    \/ Register(a) \/ Abs(a) \/ WriteDelegateKey(a) \/ WriteHostID(a)

Next == \E a \in Clis : Step(a)

Spec == Init /\ [][Next]_vars /\ \A a \in Clis : WF_vars(Step(a))

-----------------------------------------------------------------------------
(* Properties                                                              *)

\* Once the master has replaced a host's key, the old one no longer works,
\* so `key reset` must hand the new key over: when it finishes, the new key
\* is registered on the host or is in the key file, unless it printed that
\* writing the file failed.  A failed --register falls back to the file.
KeyDelivered ==
    \A a \in Clis :
        (pc[a] = "done" /\ key[a] # NoKey) =>
            \/ hkey[cmd[a].host] = key[a]
            \/ file[fname[a]] = key[a]
            \/ {"errAbs", "errWrite"} \cap out[a] # {}

=============================================================================
