------------------------------ MODULE Services ------------------------------
(***************************************************************************)
(* ebl setup, start, stop and update (commands/*.cpp) on the files of      *)
(* ConfigStore and on Docker: the images, the network, and the containers  *)
(* that serve the orchestrator and the web interface, known by their names *)
(* to every command.  A container is identified by the command that        *)
(* created it.  The data volume of the orchestrator holds keystores sealed *)
(* with the MASTER_KEY it was first started with.                          *)
(***************************************************************************)
EXTENDS ConfigStore

VARIABLES
    images,     \* present
    network,    \* whether ebl's network exists
    service,    \* the container of each name
    volumeKey,  \* the master key that the data volume is sealed with
    turn,       \* of each command: the service it deals with
    found,      \* of each command: the container findContainerIdByName gave
    contended,  \* history: two commands that start or stop have run at a time
    faulty      \* history: commands one of whose requests failed

dockerVars == <<images, network, service, volumeKey, turn, found, contended, faulty>>
vars == <<storeVars, dockerVars>>

Names == {"orchestrator", "web"}
NoContainer == [by |-> None, up |-> FALSE, master |-> 0]
Containers == [by : Commands \cup {None}, up : BOOLEAN, master : Nat]

TypeOK ==
    /\ StoreTypeOK
    /\ images \subseteq Names \cup {"runner"}
    /\ service \in [Names -> Containers]
    /\ turn \in [Commands -> Names]
    /\ found \in [Commands -> Commands \cup {None}]
    /\ at \in [Commands -> Ended \cup
            {"idle", "loadKey", "loadCut", "decrypt", "working", "saveKey", "saveCut", "seal",
             "write", "rename", "images", "find", "remove", "network", "newNetwork", "create",
             "start", "health"}]

Init ==
    /\ StoreInit
    /\ images \in {{}, Names}
    /\ network = FALSE
    /\ service = [n \in Names |-> NoContainer]
    /\ volumeKey = 0
    /\ turn = [p \in Commands |-> IF kind[p] = "stop" THEN "web" ELSE "orchestrator"]
    /\ found = [p \in Commands |-> None]
    /\ contended = FALSE
    /\ faulty = {}

Moves(p, from, to) ==
    /\ Goes(p, from, to)
    /\ UNCHANGED <<kind, made, machineKey, content, configFile, tmpFile, key, text, fd,
                   overlapped, crossed, outdated, damaged, entered>>

\* Which images a command that pulls `wanted` has afterwards.
Pulls(p, wanted) ==
    \E pulled \in SUBSET wanted :
        /\ images' = images \cup pulled
        /\ faulty' = IF pulled = wanted THEN faulty ELSE faulty \cup {p}

\* The three pulls take minutes; the config loaded before them is saved.
SetupPulls(p) ==
    /\ kind[p] = "setup"
    /\ Pulls(p, Names \cup {"runner"})
    /\ BeginSave(p, "working", text[p])
    /\ UNCHANGED <<network, service, volumeKey, turn, found, contended>>

\* The runner image is rebuilt when it cannot be pulled, the others are not.
Update(p) ==
    /\ kind[p] = "update"
    /\ Pulls(p, Names \cup {"runner"})
    /\ Moves(p, "working", IF p \in faulty' THEN "exit1" ELSE "exit0")
    /\ UNCHANGED <<network, service, volumeKey, turn, found, contended>>

Contends(p) ==
    \E q \in Commands \ {p} : kind[q] \in {"start", "stop"} /\ Active(q)

StopBegins(p) ==
    /\ kind[p] = "stop"
    /\ Moves(p, "idle", "find")
    /\ contended' = (contended \/ Contends(p))
    /\ UNCHANGED <<images, network, service, volumeKey, turn, found, faulty>>

StartBegins(p) ==
    /\ kind[p] = "start"
    /\ Moves(p, "working", IF text[p].root THEN "images" ELSE "exit1")
    /\ contended' = (contended \/ Contends(p))
    /\ UNCHANGED <<images, network, service, volumeKey, turn, found, faulty>>

\* ensureServiceImage: what is cached may be left as it is, and serves if the
\* pull fails.
EnsureServiceImages(p) ==
    /\ \/ UNCHANGED <<images, faulty>>
       \/ Pulls(p, Names)
    /\ Names \subseteq images \/ images' # images \/ p \in faulty'
    /\ Moves(p, "images", IF Names \subseteq images' THEN "find" ELSE "exit1")
    /\ UNCHANGED <<network, service, volumeKey, turn, found, contended>>

\* Mutant: a container of that name is not looked for.
FindNothing(p) ==
    /\ Moves(p, "find", "network")
    /\ UNCHANGED dockerVars

AfterRemoval(p) == IF kind[p] = "start" THEN "network" ELSE IF turn[p] = "web" THEN "find" ELSE "exit0"

\* Mutant: a container that runs is left alone.
FindStopped(p) ==
    LET by == service[turn[p]].by IN
    /\ found' = [found EXCEPT ![p] = by]
    /\ Moves(p, "find", CASE by = None -> AfterRemoval(p)
                          [] service[turn[p]].up -> "health"
                          [] OTHER -> "remove")
    /\ turn' = IF at'[p] = "find" THEN [turn EXCEPT ![p] = "orchestrator"] ELSE turn
    /\ UNCHANGED <<images, network, service, volumeKey, contended, faulty>>

\* findContainerIdByName
Find(p) ==
    /\ found' = [found EXCEPT ![p] = service[turn[p]].by]
    /\ Moves(p, "find", IF service[turn[p]].by = None THEN AfterRemoval(p) ELSE "remove")
    /\ turn' = IF at'[p] = "find" THEN [turn EXCEPT ![p] = "orchestrator"] ELSE turn
    /\ UNCHANGED <<images, network, service, volumeKey, contended, faulty>>

\* removeContainer, by id: one that is gone is fine.
Remove(p) ==
    /\ Moves(p, "remove", AfterRemoval(p))
    /\ service' = IF service[turn[p]].by = found[p]
                    THEN [service EXCEPT ![turn[p]] = NoContainer] ELSE service
    /\ turn' = IF at'[p] = "find" THEN [turn EXCEPT ![p] = "orchestrator"] ELSE turn
    /\ UNCHANGED <<images, network, volumeKey, found, contended, faulty>>

\* ensureNetwork looks, then creates: a name that is taken by then is an error.
CheckNetwork(p) ==
    /\ Moves(p, "network", IF network THEN "create" ELSE "newNetwork")
    /\ UNCHANGED dockerVars

CreateNetwork(p) ==
    /\ Moves(p, "newNetwork", IF network THEN "exit1" ELSE "create")
    /\ network' = TRUE
    /\ UNCHANGED <<images, service, volumeKey, turn, found, contended, faulty>>

\* createServiceContainer: 409 if the name is taken.
CreateService(p) ==
    LET mine == [by |-> p, up |-> FALSE, master |-> text[p].master] IN
    /\ Moves(p, "create", IF service[turn[p]].by = None THEN "start" ELSE "exit1")
    /\ service' = IF service[turn[p]].by = None THEN [service EXCEPT ![turn[p]] = mine] ELSE service
    /\ UNCHANGED <<images, network, volumeKey, turn, found, contended, faulty>>

\* The orchestrator seals what the volume holds with the first key it is given.
StartService(p) ==
    /\ service[turn[p]].by = p
    /\ Moves(p, "start", IF turn[p] = "web" THEN "health" ELSE "find")
    /\ service' = [service EXCEPT ![turn[p]].up = TRUE]
    /\ volumeKey' = IF turn[p] = "orchestrator" /\ volumeKey = 0 THEN text[p].master ELSE volumeKey
    /\ turn' = [turn EXCEPT ![p] = IF turn[p] = "web" THEN "orchestrator" ELSE "web"]
    /\ UNCHANGED <<images, network, found, contended, faulty>>

\* Somebody has removed it: 404.
StartFindsNothing(p) ==
    /\ service[turn[p]].by # p
    /\ Moves(p, "start", "exit1")
    /\ UNCHANGED dockerVars

\* Any request may be refused: a port in use, a daemon that does not answer.
RequestFails(p) ==
    /\ \E step \in {"find", "remove", "network", "newNetwork", "create", "start"} : Moves(p, step, "exit1")
    /\ faulty' = faulty \cup {p}
    /\ UNCHANGED <<images, network, service, volumeKey, turn, found, contended>>

\* waitForHealth of the orchestrator, then of the web interface: 30 attempts.
Health(p) ==
    /\ \/ /\ service[turn[p]].up
          /\ Moves(p, "health", IF turn[p] = "web" THEN "exit0" ELSE "health")
          /\ turn' = [turn EXCEPT ![p] = "web"]
          /\ UNCHANGED faulty
       \/ /\ Moves(p, "health", "exit1")
          /\ faulty' = IF service[turn[p]].up THEN faulty \cup {p} ELSE faulty
          /\ UNCHANGED turn
    /\ UNCHANGED <<images, network, service, volumeKey, found, contended>>

Done == (\A p \in Commands : at[p] \in Ended) /\ UNCHANGED vars

CommandStep(p) ==
    \/ StoreStep(p) /\ UNCHANGED dockerVars
    \/ SetupPulls(p) \/ Update(p) \/ StopBegins(p) \/ StartBegins(p)
    \/ EnsureServiceImages(p) \/ Find(p) \/ Remove(p) \/ CheckNetwork(p) \/ CreateNetwork(p)
    \/ CreateService(p) \/ StartService(p) \/ StartFindsNothing(p) \/ RequestFails(p) \/ Health(p)

Next == (\E p \in Commands : CommandStep(p)) \/ Done

Spec == Init /\ [][Next]_vars

-----------------------------------------------------------------------------
(* Safety.                                                                 *)

\* start.cpp "Build history and keystores are preserved": as long as no two
\* commands save at a time, an orchestrator that runs has the key of its data
\* volume, however often it was replaced, and whatever a full disk did.
KeystoresReadable ==
    ~overlapped /\ service["orchestrator"].up =>
        service["orchestrator"].master = volumeKey

\* A start that had ebl's containers to itself, and whose requests were answered,
\* fails only for want of a configuration, whatever earlier commands that were
\* killed half-way have left behind.
LoneStartSucceeds ==
    ~contended => \A p \in Commands \ faulty :
        kind[p] = "start" /\ at[p] = "exit1" => ~text[p].root

\* "Everything's up." of such a start means the two containers it has created.
OnlineIsItsOwn ==
    [][\A p \in Commands : kind[p] = "start" /\ at[p] # "exit0" /\ at'[p] = "exit0" /\ ~contended' =>
          \A n \in Names : service'[n].by = p /\ service'[n].up]_vars

=============================================================================
