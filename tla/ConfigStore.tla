----------------------------- MODULE ConfigStore -----------------------------
(***************************************************************************)
(* ~/.config/ebl (config_store.cpp) as the commands of one user read and   *)
(* write it: config.json, its sibling config.json.tmp, and machine.key,    *)
(* which seals the secrets inside config.json.  Every command runs once;   *)
(* several may run at the same time, and each may be killed anywhere.      *)
(*                                                                         *)
(* The names config.json and config.json.tmp denote inodes.  A command     *)
(* that opens config.json.tmp while another one writes it gets the same    *)
(* inode, and still writes to it when the other has renamed it.            *)
(*                                                                         *)
(* No command catches what loadConfig throws, and neither does main.       *)
(***************************************************************************)
EXTENDS Naturals, FiniteSets

CONSTANTS Commands,   \* processes
          Casts,      \* which commands may be run together
          None,
          Earlier,    \* the inode of the config.json of earlier commands
          DiskFills   \* whether a write may fail

ASSUME StoreAssumption ==
    /\ Casts \subseteq [Commands -> {"config", "setup", "start", "stop", "update"}]
    /\ {None, Earlier} \cap Commands = {} /\ None # Earlier
    /\ DiskFills \in BOOLEAN

VARIABLES
    kind,         \* of each command
    at,           \* where it is
    made,         \* how many random keys have been generated
    machineKey,   \* what machine.key decodes to; 0: not 32 bytes
    content,      \* of each inode
    configFile, tmpFile,  \* the inodes of config.json and config.json.tmp
    key, text, fd,        \* of each command: AesKey, config, open inode
    overlapped,   \* history: two commands that save have run at the same time
    crossed,      \* history: two commands have had config.json.tmp open at the same time
    outdated,     \* history: commands that had loaded before an ebl config saved
    damaged,      \* history: a write of machine.key has failed
    entered       \* history: the token most recently saved by ebl config

storeVars == <<kind, at, made, machineKey, content, configFile, tmpFile, key, text, fd,
               overlapped, crossed, outdated, damaged, entered>>

\* A master key and an Expo token, sealed with `key`.
Texts == [form : {"empty", "partial", "whole"}, key : Nat, master : Nat,
          token : Commands \cup {None}, root : BOOLEAN]

Text(form) == [form |-> form, key |-> 0, master |-> 0, token |-> None, root |-> FALSE]

Ended == {"exit0", "exit1", "aborted", "locked", "killed"}

StoreTypeOK ==
    /\ kind \in Casts
    /\ made \in Nat /\ machineKey \in 0..made
    /\ content \in [Commands \cup {Earlier} -> Texts]
    /\ {configFile, tmpFile} \subseteq Commands \cup {Earlier, None}
    /\ configFile = tmpFile => configFile = None
    /\ key \in [Commands -> 0..made] /\ text \in [Commands -> Texts]
    /\ fd \in [Commands -> Commands \cup {Earlier, None}]
    /\ outdated \subseteq Commands

\* Nothing yet, or what an earlier ebl config has left.
StoreInit ==
    /\ kind \in Casts
    /\ at = [p \in Commands |-> "idle"]
    /\ made = 2
    /\ \/ machineKey = 0 /\ configFile = None
       \/ machineKey = 1 /\ configFile = Earlier
    /\ content = [i \in Commands \cup {Earlier} |->
                    IF i = Earlier THEN [Text("whole") EXCEPT !.key = 1, !.master = 2, !.root = TRUE]
                                   ELSE Text("empty")]
    /\ tmpFile = None
    /\ key = [p \in Commands |-> 0]
    /\ text = [p \in Commands |-> Text("empty")]
    /\ fd = [p \in Commands |-> None]
    /\ overlapped = FALSE
    /\ crossed = FALSE
    /\ outdated = {}
    /\ damaged = FALSE
    /\ entered = None

Goes(p, from, to) == at[p] = from /\ at' = [at EXCEPT ![p] = to]

Active(p) == at[p] \notin {"idle"} \cup Ended
Saves(p)  == kind[p] \in {"config", "setup"}
Writes(p) == at[p] \in {"write", "rename"}

-----------------------------------------------------------------------------
(* loadConfig.                                                             *)

\* ebl start wants a config; the others make do with the defaults.
ReadConfig(p) ==
    LET found == IF configFile = None THEN Text("empty") ELSE content[configFile] IN
    /\ kind[p] # "stop"
    /\ Goes(p, "idle", CASE found.form = "whole"   -> "loadKey"
                         [] found.form = "partial" -> "aborted"
                         [] found.form = "empty"   ->
                              IF kind[p] = "start" THEN "exit1" ELSE "working")
    /\ text' = [text EXCEPT ![p] = found]
    /\ overlapped' = (overlapped \/ (Saves(p) /\ \E q \in Commands : Saves(q) /\ Active(q)))
    /\ UNCHANGED <<kind, made, machineKey, content, configFile, tmpFile, key, fd,
                   crossed, outdated, damaged, entered>>

\* Mutant: the key that is there is not looked at.
NewKeyEachTime(p, from, cut, to) ==
    /\ Goes(p, from, cut)
    /\ made' = made + 1
    /\ key' = [key EXCEPT ![p] = made + 1]
    /\ machineKey' = 0
    /\ UNCHANGED <<kind, content, configFile, tmpFile, text, fd,
                   overlapped, crossed, outdated, damaged, entered>>

\* loadOrCreateMachineKey: a key that is not 32 bytes is replaced, in place.
TakeKey(p, from, cut, to) ==
    /\ IF machineKey # 0
         THEN /\ Goes(p, from, to)
              /\ key' = [key EXCEPT ![p] = machineKey]
              /\ UNCHANGED <<made, machineKey>>
         ELSE /\ Goes(p, from, cut)
              /\ made' = made + 1
              /\ key' = [key EXCEPT ![p] = made + 1]
              /\ machineKey' = 0
    /\ UNCHANGED <<kind, content, configFile, tmpFile, text, fd,
                   overlapped, crossed, outdated, damaged, entered>>

\* Nobody looks whether the write succeeded.
WriteKey(p, cut, to) ==
    /\ Goes(p, cut, to)
    /\ \/ machineKey' = key[p] /\ UNCHANGED damaged
       \/ DiskFills /\ machineKey' = 0 /\ damaged' = TRUE
    /\ UNCHANGED <<kind, made, content, configFile, tmpFile, key, text, fd,
                   overlapped, crossed, outdated, entered>>

\* aesDecrypt authenticates: what another key has sealed throws.
Opens(sealed, k) == sealed.key = k

Decrypt(p) ==
    /\ Goes(p, "decrypt", IF Opens(text[p], key[p]) THEN "working" ELSE "locked")
    /\ UNCHANGED <<kind, made, machineKey, content, configFile, tmpFile, key, text, fd,
                   overlapped, crossed, outdated, damaged, entered>>

-----------------------------------------------------------------------------
(* saveConfig, and ebl config.                                             *)

\* Mutant: a master key is generated by every save.
BeginSaveAfresh(p, from, edited) ==
    /\ Goes(p, from, "saveKey")
    /\ made' = made + 1
    /\ text' = [text EXCEPT ![p] = [edited EXCEPT !.master = made + 1]]
    /\ UNCHANGED <<kind, machineKey, content, configFile, tmpFile, key, fd,
                   overlapped, crossed, outdated, damaged, entered>>

\* A master key is generated only if there is none.
BeginSave(p, from, edited) ==
    /\ Goes(p, from, "saveKey")
    /\ IF edited.master = 0
         THEN made' = made + 1 /\ text' = [text EXCEPT ![p] = [edited EXCEPT !.master = made + 1]]
         ELSE UNCHANGED made   /\ text' = [text EXCEPT ![p] = edited]
    /\ UNCHANGED <<kind, machineKey, content, configFile, tmpFile, key, fd,
                   overlapped, crossed, outdated, damaged, entered>>

\* The wizard: a projects folder, and the token kept, entered or cleared.
Configure(p) ==
    /\ kind[p] = "config"
    /\ \E token \in {text[p].token, p, None} :
           BeginSave(p, "working", [text[p] EXCEPT !.root = TRUE, !.token = token])

\* Mutant: config.json is truncated and written in place.
OpenInPlace(p) ==
    LET inode == IF configFile = None THEN p ELSE configFile IN
    /\ Goes(p, "seal", "write")
    /\ content' = [content EXCEPT ![inode] = Text("empty")]
    /\ configFile' = inode
    /\ fd' = [fd EXCEPT ![p] = inode]
    /\ UNCHANGED <<kind, made, machineKey, tmpFile, key, text,
                   overlapped, crossed, outdated, damaged, entered>>

\* ofstream, trunc: config.json.tmp is created, or the one that is there emptied.
OpenTmp(p) ==
    LET inode == IF tmpFile = None THEN p ELSE tmpFile IN
    /\ Goes(p, "seal", "write")
    /\ content' = [content EXCEPT ![inode] = Text("empty")]
    /\ tmpFile' = inode
    /\ fd' = [fd EXCEPT ![p] = inode]
    /\ crossed' = (crossed \/ \E q \in Commands \ {p} : Writes(q))
    /\ UNCHANGED <<kind, made, machineKey, configFile, key, text,
                   overlapped, outdated, damaged, entered>>

\* Mutant: the Expo token is left out.
SealsNoToken(p) == [text[p] EXCEPT !.form = "whole", !.key = key[p], !.token = None]

\* aesEncrypt, written from the start of the file: over what somebody else has
\* written there in the meantime, of which the end may stay.
Sealed(p) == [text[p] EXCEPT !.form = "whole", !.key = key[p]]

WriteTmp(p) ==
    /\ \/ /\ Goes(p, "write", "rename")
          /\ \/ content' = [content EXCEPT ![fd[p]] = Sealed(p)]
             \/ /\ content[fd[p]].form # "empty"
                /\ content' = [content EXCEPT ![fd[p]] = Text("partial")]
       \/ /\ DiskFills
          /\ Goes(p, "write", "aborted")
          /\ \E form \in {"empty", "partial"} : content' = [content EXCEPT ![fd[p]] = Text(form)]
    /\ UNCHANGED <<kind, made, machineKey, configFile, tmpFile, key, text, fd,
                   overlapped, crossed, outdated, damaged, entered>>

\* atomicReplace.  The command ends here; ebl setup with 1 if a pull failed.
Rename(p) ==
    /\ IF tmpFile = None
         THEN Goes(p, "rename", "aborted") /\ UNCHANGED <<configFile, tmpFile, outdated, entered>>
         ELSE /\ \/ Goes(p, "rename", "exit0")
                 \/ kind[p] = "setup" /\ Goes(p, "rename", "exit1")
              /\ configFile' = tmpFile
              /\ tmpFile' = None
              /\ IF kind[p] = "config"
                   THEN /\ entered' = text[p].token
                        /\ outdated' = outdated \cup {q \in Commands \ {p} : Saves(q) /\ Active(q)}
                   ELSE UNCHANGED <<outdated, entered>>
    /\ UNCHANGED <<kind, made, machineKey, content, key, text, fd, overlapped, crossed, damaged>>

Killed(p) ==
    /\ Active(p)
    /\ at' = [at EXCEPT ![p] = "killed"]
    /\ UNCHANGED <<kind, made, machineKey, content, configFile, tmpFile, key, text, fd,
                   overlapped, crossed, outdated, damaged, entered>>

StoreStep(p) ==
    \/ ReadConfig(p)
    \/ TakeKey(p, "loadKey", "loadCut", "decrypt") \/ WriteKey(p, "loadCut", "decrypt")
    \/ Decrypt(p)
    \/ Configure(p)
    \/ TakeKey(p, "saveKey", "saveCut", "seal") \/ WriteKey(p, "saveCut", "seal")
    \/ OpenTmp(p) \/ WriteTmp(p) \/ Rename(p)
    \/ Killed(p)

-----------------------------------------------------------------------------
(* Safety.                                                                 *)

\* config_store.cpp:185-186 "a rename can only ever land the old file or the
\* fully-written new one, never a partial": true of kills at any point and of a
\* full disk, and of commands that run at the same time, unless two of them have
\* the one config.json.tmp open.
ConfigIsWhole ==
    ~crossed /\ configFile # None => content[configFile].form = "whole"

\* Kills alone never part the key from what it sealed: without a failed write of
\* machine.key and without two savers, every command can open config.json.
NobodyLockedOut ==
    ~overlapped /\ ~damaged => \A p \in Commands : at[p] # "locked"

\* A command that had loaded the configuration before an ebl config saved has
\* saved what it had loaded.
StaleSave == \E p \in outdated : at[p] \in {"exit0", "exit1"}

\* Nothing but such a stale save, or two writers of the one config.json.tmp,
\* undoes an edit: otherwise the file holds the token that the last ebl config
\* saved, whatever ran at the same time, was killed or met a full disk.  That ebl
\* setup does save stale, see EditsSurvive.
NoLostEdit ==
    ~crossed /\ ~StaleSave /\ configFile # None => content[configFile].token = entered

\* config_store.cpp:51-52 (regenerate a bad key) "better than hard-failing every
\* command forever because of one bad write": one command after the other, a
\* failed write at most costs the secrets, and commands go on.  (Violated.)
OneBadWriteIsSurvived ==
    ~overlapped => \A p \in Commands : at[p] # "locked"

\* config_store.hpp:2-3 "the result of `ebl config`", consulted by ebl setup: what
\* the last ebl config saved stays, as long as no two commands write at a time.
\* (TLC refutes it: ebl setup loads before its pulls and saves after them.)
EditsSurvive ==
    ~crossed /\ configFile # None => content[configFile].token = entered

=============================================================================
