--------------------------- MODULE ServicesProofs ---------------------------
(***************************************************************************)
(* What Services promises, for any commands run together: the inductive    *)
(* invariant is the conjunction of the parts below, and each lemma shows   *)
(* that every step preserves one of them.                                  *)
(***************************************************************************)
EXTENDS Services, TLAPS

LoadSteps   == {"loadKey", "loadCut", "decrypt", "working"}
SaveSteps   == {"saveKey", "saveCut", "seal", "write", "rename"}
StartSteps  == {"images", "network", "newNetwork", "create", "start", "health"}
DockerSteps == StartSteps \cup {"find", "remove"}

\* What loadConfig finds.
Current == IF configFile = None THEN Text("empty") ELSE content[configFile]

\* Who can be where.
StepOfKind(p) ==
    /\ at[p] \in LoadSteps => kind[p] # "stop"
    /\ at[p] \in SaveSteps => Saves(p)
    /\ at[p] \in StartSteps => kind[p] = "start"
    /\ at[p] \in {"find", "remove"} => kind[p] \in {"start", "stop"}
StepsOfKind == \A p \in Commands : StepOfKind(p)

\* A command that has not yet opened config.json.tmp has created no file.
FreshInodes ==
    \A p \in Commands :
        at[p] \in {"idle", "saveKey", "saveCut", "seal"} \cup LoadSteps => p # configFile /\ p # tmpFile

\* What is empty names no projects folder.
EmptyIsBlank == \A i \in Commands \cup {Earlier} : content[i].form = "empty" => ~content[i].root

OneSaver ==
    ~overlapped => \A p, q \in Commands :
        Saves(p) /\ Active(p) /\ Saves(q) /\ Active(q) => p = q

\* Until two commands have it open, one at most has config.json.tmp open ...
OneWriter == ~crossed => \A p, q \in Commands : Writes(p) /\ Writes(q) => p = q

\* ... and two have only if they save at the same time.
CrossedIsOverlapped == crossed => overlapped

\* The command that writes has config.json.tmp to itself, and renames what it wrote.
TmpOf(p) ==
    /\ at[p] \in {"write", "rename"} => tmpFile # None /\ fd[p] = tmpFile
    /\ at[p] = "write" => content[tmpFile].form = "empty"
    /\ at[p] = "rename" =>
          /\ content[tmpFile].form = "whole" /\ content[tmpFile].key = key[p]
          /\ content[tmpFile].token = text[p].token /\ content[tmpFile].master = text[p].master
TmpIsItsOwn == ~crossed => \A p \in Commands : TmpOf(p)

\* A setup that is not outdated saves the token that is in the file.
TokenOf(p) ==
    kind[p] = "setup" /\ at[p] \in LoadSteps \cup SaveSteps => text[p].token = entered
TokensAgree ==
    ~crossed /\ ~StaleSave =>
        /\ Current.token = entered
        /\ \A p \in Commands \ outdated : TokenOf(p)

\* One key opens everything, and machine.key holds it.
KeyOf(p) ==
    /\ at[p] # "loadCut"
    /\ at[p] \in {"loadKey", "decrypt"} => configFile # None /\ text[p].key = machineKey
    /\ at[p] = "decrypt" => key[p] = machineKey
    /\ at[p] = "saveCut" => configFile = None /\ key[p] # 0
    /\ at[p] \in {"seal", "write", "rename"} => machineKey # 0 /\ key[p] = machineKey
KeysAgree ==
    ~overlapped /\ ~damaged =>
        /\ configFile # None => machineKey # 0 /\ machineKey = Current.key
        /\ \A p \in Commands : KeyOf(p)

\* One master key in the file and in what was loaded from it ...
MasterOf(p) ==
    /\ at[p] \in SaveSteps => text[p].master # 0
    /\ Saves(p) /\ Active(p) /\ at[p] # "idle" /\ configFile # None => text[p].master = Current.master
    /\ kind[p] = "start" /\ Active(p) => configFile # None /\ text[p].master = Current.master
MastersAgree ==
    ~overlapped =>
        /\ configFile # None => Current.master # 0
        /\ \A p \in Commands : MasterOf(p)

\* ... and in the containers and the data volume.
ServicesAgree ==
    ~overlapped =>
        /\ \A n \in Names : service[n].by # None => configFile # None /\ service[n].master = Current.master
        /\ volumeKey # 0 => configFile # None /\ volumeKey = Current.master
        /\ service["orchestrator"].up => volumeKey # 0

\* A container that runs has been created.
RunningIsThere == \A n \in Names : service[n].up => service[n].by # None

OneUser ==
    ~contended => \A p, q \in Commands : at[p] \in DockerSteps /\ at[q] \in DockerSteps => p = q

\* What a command alone with ebl's containers knows of them at each step.
PlaceOf(p) ==
    /\ kind[p] = "start" /\ at[p] \in {"idle", "images"} \cup LoadSteps => turn[p] = "orchestrator"
    /\ at[p] = "remove" => found[p] = service[turn[p]].by
    /\ at[p] \in {"network", "newNetwork", "create"} => service[turn[p]].by = None
    /\ at[p] = "newNetwork" => ~network
    /\ at[p] = "start" => service[turn[p]].by = p
    /\ kind[p] = "start" /\ at[p] \in DockerSteps /\ turn[p] = "web" =>
          service["orchestrator"].by = p /\ service["orchestrator"].up
    /\ at[p] = "health" => \A n \in Names : service[n].by = p /\ service[n].up
PlacesHold == ~contended => \A p \in Commands : PlaceOf(p)

IInv ==
    /\ TypeOK /\ StepsOfKind /\ FreshInodes /\ EmptyIsBlank
    /\ OneSaver /\ OneWriter /\ CrossedIsOverlapped /\ TmpIsItsOwn
    /\ ConfigIsWhole /\ TokensAgree
    /\ KeysAgree /\ NobodyLockedOut /\ MastersAgree /\ ServicesAgree
    /\ RunningIsThere /\ OneUser /\ PlacesHold /\ LoneStartSucceeds

-----------------------------------------------------------------------------
(* The steps, by what they change.                                         *)

\* ReadConfig, by what it finds.
Reads(p) ==
    /\ at[p] = "idle" /\ kind[p] # "stop"
    /\ text' = [text EXCEPT ![p] = Current]
    /\ \/ at' = [at EXCEPT ![p] = "loadKey"] /\ Current.form = "whole"
       \/ at' = [at EXCEPT ![p] = "working"] /\ Current.form = "empty" /\ kind[p] # "start"
       \/ at' = [at EXCEPT ![p] = "exit1"] /\ Current.form = "empty"
       \/ at' = [at EXCEPT ![p] = "aborted"]
    /\ overlapped' = (overlapped \/ (Saves(p) /\ \E q \in Commands : Saves(q) /\ Active(q)))
    /\ UNCHANGED <<kind, made, machineKey, content, configFile, tmpFile, key, fd,
                   crossed, outdated, damaged, entered>>

\* ebl config and ebl setup begin to save.
Begins(p) ==
    /\ kind[p] \in {"config", "setup"}
    /\ Goes(p, "working", "saveKey")
    /\ made' \in Nat /\ made <= made'
    /\ \E t \in Texts :
          /\ text' = [text EXCEPT ![p] = t]
          /\ t.master # 0
          /\ text[p].master # 0 => t.master = text[p].master
          /\ kind[p] = "setup" => t.token = text[p].token
    /\ UNCHANGED <<kind, machineKey, content, configFile, tmpFile, key, fd,
                   overlapped, crossed, outdated, damaged, entered>>

\* The steps on Docker.
Elsewhere(p) ==
    /\ \/ at[p] \in DockerSteps
       \/ kind[p] = "stop" /\ at[p] = "idle"
       \/ kind[p] \in {"start", "update"} /\ at[p] = "working"
    /\ \E to \in DockerSteps \cup {"exit0", "exit1"} :
          /\ at' = [at EXCEPT ![p] = to]
          /\ to \in StartSteps => kind[p] = "start"
          /\ to \in {"find", "remove"} => kind[p] \in {"start", "stop"}
    /\ UNCHANGED <<kind, made, machineKey, content, configFile, tmpFile, key, text, fd,
                   overlapped, crossed, outdated, damaged, entered>>

StoreForm(p) ==
    \/ Reads(p)
    \/ TakeKey(p, "loadKey", "loadCut", "decrypt") \/ WriteKey(p, "loadCut", "decrypt")
    \/ Decrypt(p) \/ Begins(p)
    \/ TakeKey(p, "saveKey", "saveCut", "seal") \/ WriteKey(p, "saveCut", "seal")
    \/ OpenTmp(p) \/ WriteTmp(p) \/ Rename(p) \/ Killed(p)
    \/ Elsewhere(p)

\* The steps that leave ebl's containers alone.
Aside(p) ==
    /\ \E to \in (LoadSteps \cup SaveSteps \cup Ended) :
          /\ at' = [at EXCEPT ![p] = to]
          /\ to \in LoadSteps => at[p] \in {"idle"} \cup LoadSteps
          /\ kind[p] = "start" => to # "exit0" /\ (to = "exit1" => ~text'[p].root)
    /\ at[p] \notin Ended
    /\ \A q \in Commands \ {p} : text'[q] = text[q]
    /\ faulty \subseteq faulty'
    /\ UNCHANGED <<kind, network, service, volumeKey, turn, found, contended>>

DockerForm(p) ==
    \/ Aside(p) \/ StopBegins(p) \/ StartBegins(p)
    \/ EnsureServiceImages(p) \/ Find(p) \/ Remove(p) \/ CheckNetwork(p) \/ CreateNetwork(p)
    \/ CreateService(p) \/ StartService(p) \/ StartFindsNothing(p) \/ RequestFails(p) \/ Health(p)

\* What the operators on texts make.
LEMMA TextTypes ==
    /\ \A form \in {"empty", "partial", "whole"} :
          /\ Text(form) \in Texts /\ Text(form).form = form /\ ~Text(form).root
          /\ Text(form).token = None /\ Text(form).master = 0
    /\ \A t \in Texts : \A k \in Nat :
          /\ [t EXCEPT !.form = "whole", !.key = k] \in Texts
          /\ [t EXCEPT !.form = "whole", !.key = k].form = "whole"
          /\ [t EXCEPT !.form = "whole", !.key = k].key = k
          /\ [t EXCEPT !.form = "whole", !.key = k].token = t.token
          /\ [t EXCEPT !.form = "whole", !.key = k].master = t.master
    /\ \A t \in Texts : \A m \in Nat :
          /\ [t EXCEPT !.master = m] \in Texts
          /\ [t EXCEPT !.master = m].master = m
          /\ [t EXCEPT !.master = m].token = t.token
    /\ \A t \in Texts : \A n \in Commands \cup {None} :
          /\ [t EXCEPT !.root = TRUE, !.token = n] \in Texts
          /\ [t EXCEPT !.root = TRUE, !.token = n].master = t.master
    /\ \A t \in Texts : t.form \in {"empty", "partial", "whole"} /\ t.key \in Nat /\ t.master \in Nat
          /\ t.token \in Commands \cup {None}
<1>1. \A form \in {"empty", "partial", "whole"} :
          /\ Text(form) \in Texts /\ Text(form).form = form /\ ~Text(form).root
          /\ Text(form).token = None /\ Text(form).master = 0
  BY DEF Text, Texts
<1>2. ASSUME NEW t \in Texts, NEW k \in Nat
      PROVE  /\ [t EXCEPT !.form = "whole", !.key = k] \in Texts
             /\ [t EXCEPT !.form = "whole", !.key = k].form = "whole"
             /\ [t EXCEPT !.form = "whole", !.key = k].key = k
             /\ [t EXCEPT !.form = "whole", !.key = k].token = t.token
             /\ [t EXCEPT !.form = "whole", !.key = k].master = t.master
  BY DEF Texts
<1>3. ASSUME NEW t \in Texts, NEW m \in Nat
      PROVE  /\ [t EXCEPT !.master = m] \in Texts
             /\ [t EXCEPT !.master = m].master = m
             /\ [t EXCEPT !.master = m].token = t.token
  BY DEF Texts
<1>4. ASSUME NEW t \in Texts, NEW n \in Commands \cup {None}
      PROVE  /\ [t EXCEPT !.root = TRUE, !.token = n] \in Texts
             /\ [t EXCEPT !.root = TRUE, !.token = n].master = t.master
  BY DEF Texts
<1>5. ASSUME NEW t \in Texts
      PROVE  t.form \in {"empty", "partial", "whole"} /\ t.key \in Nat /\ t.master \in Nat
                /\ t.token \in Commands \cup {None}
  BY DEF Texts
<1>6. QED
  BY <1>1, <1>2, <1>3, <1>4, <1>5

\* What a command that saves has written.
LEMMA SealedType ==
    ASSUME TypeOK, NEW p \in Commands
    PROVE  /\ Sealed(p) \in Texts /\ Sealed(p).form = "whole" /\ Sealed(p).key = key[p]
           /\ Sealed(p).token = text[p].token /\ Sealed(p).master = text[p].master
<1>1. text[p] \in Texts /\ key[p] \in Nat
  BY DEF TypeOK, StoreTypeOK
<1>2. QED
  BY <1>1 DEF Sealed, Texts

\* Whatever WriteTmp leaves in the file is a text.
LEMMA WrittenForm ==
    ASSUME TypeOK, NEW p \in Commands, WriteTmp(p)
    PROVE  \E t \in Texts : (t.form = "empty" => ~t.root) /\ content' = [content EXCEPT ![fd[p]] = t]
<1>1. \E t \in {Sealed(p), Text("partial"), Text("empty")} : content' = [content EXCEPT ![fd[p]] = t]
  <2>1. CASE content' = [content EXCEPT ![fd[p]] = Sealed(p)]
    BY <2>1
  <2>2. ASSUME NEW form \in {"empty", "partial"}, content' = [content EXCEPT ![fd[p]] = Text(form)]
        PROVE  \E t \in {Sealed(p), Text("partial"), Text("empty")} : content' = [content EXCEPT ![fd[p]] = t]
    BY <2>2
  <2>3. QED
    BY <2>1, <2>2 DEF WriteTmp
<1>2. \A t \in {Sealed(p), Text("partial"), Text("empty")} : t \in Texts /\ (t.form = "empty" => ~t.root)
  <2>1. \A form \in {"empty", "partial"} : Text(form) \in Texts /\ ~Text(form).root
    BY TextTypes
  <2>2. Sealed(p) \in Texts /\ Sealed(p).form # "empty"
    BY SealedType
  <2>3. QED
    BY <2>1, <2>2
<1>3. QED
  BY <1>1, <1>2

\* What loadConfig finds.
LEMMA CurrentType == TypeOK => Current \in Texts
<1>1. Text("empty") \in Texts
  BY TextTypes
<1>2. QED
  BY <1>1 DEF TypeOK, StoreTypeOK, Current

\* Every step is one of the forms, as far as it touches the files ...
LEMMA ReadForm ==
    ASSUME TypeOK, NEW p \in Commands, ReadConfig(p) PROVE Reads(p)
<1>1. Current.form \in {"empty", "partial", "whole"}
  BY CurrentType, TextTypes
<1>2. CASE Current.form = "empty"
  BY <1>2 DEF ReadConfig, Reads, Goes, Current
<1>3. CASE Current.form = "partial"
  BY <1>3 DEF ReadConfig, Reads, Goes, Current
<1>4. CASE Current.form = "whole"
  BY <1>4 DEF ReadConfig, Reads, Goes, Current
<1>5. QED
  BY <1>1, <1>2, <1>3, <1>4

\* BeginSave changes the master key only if there is none.
LEMMA BeginForm ==
    ASSUME TypeOK, NEW p \in Commands, NEW edited \in Texts,
           kind[p] \in {"config", "setup"}, BeginSave(p, "working", edited),
           edited.master = text[p].master, kind[p] = "setup" => edited.token = text[p].token
    PROVE  Begins(p)
<1> DEFINE t == IF edited.master = 0 THEN [edited EXCEPT !.master = made + 1] ELSE edited
<1>1. made \in Nat /\ edited.master \in Nat
  BY TextTypes DEF TypeOK, StoreTypeOK
<1>2. t \in Texts /\ t.master # 0 /\ t.token = edited.token
        /\ (edited.master # 0 => t.master = edited.master)
  <2>1. CASE edited.master = 0
    BY <1>1, <2>1 DEF Texts
  <2>2. CASE edited.master # 0
    BY <2>2
  <2>3. QED
    BY <2>1, <2>2
<1>3. made' \in Nat /\ made <= made' /\ text' = [text EXCEPT ![p] = t]
  BY <1>1 DEF BeginSave
<1> HIDE DEF t
<1>4. QED
  BY <1>2, <1>3 DEF Begins, BeginSave

\* All of StoreStep, SetupPulls, and the steps on Docker.
LEMMA StoreForms ==
    IInv /\ [Next]_vars => (\E p \in Commands : StoreForm(p)) \/ UNCHANGED storeVars
<1> SUFFICES ASSUME IInv, [Next]_vars PROVE (\E p \in Commands : StoreForm(p)) \/ UNCHANGED storeVars
  OBVIOUS
<1>1. ASSUME NEW p \in Commands, StoreStep(p) PROVE StoreForm(p)
  <2>1. CASE Configure(p)
    <3>1. PICK token \in {text[p].token, p, None} :
             BeginSave(p, "working", [text[p] EXCEPT !.root = TRUE, !.token = token])
      BY <2>1 DEF Configure
    <3>2. text[p] \in Texts /\ token \in Commands \cup {None}
      BY DEF IInv, TypeOK, StoreTypeOK, Texts
    <3>3. kind[p] = "config"
      BY <2>1 DEF Configure
    <3>4. /\ [text[p] EXCEPT !.root = TRUE, !.token = token] \in Texts
          /\ [text[p] EXCEPT !.root = TRUE, !.token = token].master = text[p].master
      BY <3>2, TextTypes
    <3>5. Begins(p)
      BY <3>1, <3>3, <3>4, BeginForm DEF IInv
    <3>6. QED
      BY <3>5 DEF StoreForm
  <2>2. CASE ReadConfig(p)
    BY <2>2, ReadForm DEF StoreForm, IInv
  <2>3. QED
    BY <1>1, <2>1, <2>2 DEF StoreStep, StoreForm
<1>2. ASSUME NEW p \in Commands, SetupPulls(p) PROVE StoreForm(p)
  <2>1. text[p] \in Texts
    BY DEF IInv, TypeOK, StoreTypeOK
  <2>2. Begins(p)
    BY <1>2, <2>1, BeginForm DEF SetupPulls, IInv
  <2>3. QED
    BY <2>2 DEF StoreForm
<1> USE DEF StoreForm, Elsewhere, Moves, Goes, DockerSteps, StartSteps, IInv, StepsOfKind, StepOfKind
<1>3. ASSUME NEW p \in Commands, Update(p) \/ StopBegins(p) \/ StartBegins(p) PROVE StoreForm(p)
  BY <1>3 DEF Update, StopBegins, StartBegins
<1>4. ASSUME NEW p \in Commands, EnsureServiceImages(p) PROVE StoreForm(p)
  BY <1>4 DEF EnsureServiceImages
<1>5. ASSUME NEW p \in Commands, Find(p) PROVE StoreForm(p)
  BY <1>5 DEF Find, AfterRemoval
<1>6. ASSUME NEW p \in Commands, Remove(p) PROVE StoreForm(p)
  BY <1>6 DEF Remove, AfterRemoval
<1>7. ASSUME NEW p \in Commands, CheckNetwork(p) \/ CreateNetwork(p) PROVE StoreForm(p)
  BY <1>7 DEF CheckNetwork, CreateNetwork
<1>8. ASSUME NEW p \in Commands, CreateService(p) PROVE StoreForm(p)
  BY <1>8 DEF CreateService
<1>9. ASSUME NEW p \in Commands, StartService(p) PROVE StoreForm(p)
  BY <1>9 DEF StartService
<1>10. ASSUME NEW p \in Commands, StartFindsNothing(p) \/ RequestFails(p) PROVE StoreForm(p)
  BY <1>10 DEF StartFindsNothing, RequestFails
<1>11. ASSUME NEW p \in Commands, Health(p) PROVE StoreForm(p)
  BY <1>11 DEF Health
<1>12. QED
  BY <1>1, <1>2, <1>3, <1>4, <1>5, <1>6, <1>7, <1>8, <1>9, <1>10, <1>11 DEF
     Next, CommandStep, Done, vars

\* ... and as far as it touches Docker.
LEMMA DockerForms ==
    IInv /\ [Next]_vars => (\E p \in Commands : DockerForm(p)) \/ UNCHANGED vars
<1> SUFFICES ASSUME IInv, [Next]_vars PROVE (\E p \in Commands : DockerForm(p)) \/ UNCHANGED vars
  OBVIOUS
<1>1. ASSUME NEW p \in Commands, ReadConfig(p), UNCHANGED dockerVars PROVE Aside(p)
  <2>1. Reads(p)
    BY <1>1, ReadForm DEF IInv
  <2>2. Current.form = "empty" => ~Current.root
    BY TextTypes DEF IInv, EmptyIsBlank, Current, TypeOK, StoreTypeOK
  <2>3. text'[p] = Current /\ \A q \in Commands \ {p} : text'[q] = text[q]
    BY <2>1 DEF Reads, IInv, TypeOK, StoreTypeOK
  <2>4. QED
    BY <1>1, <2>1, <2>2, <2>3 DEF Reads, Aside, LoadSteps, Ended, dockerVars
<1>2. ASSUME NEW p \in Commands, StoreStep(p), ~ReadConfig(p), UNCHANGED dockerVars PROVE Aside(p)
  <2>1. CASE TakeKey(p, "loadKey", "loadCut", "decrypt")
    BY <1>2, <2>1 DEF TakeKey, Aside, Goes, Active, LoadSteps, SaveSteps, Ended, dockerVars,
       IInv, TypeOK, StoreTypeOK, StepsOfKind, StepOfKind, Saves
  <2>2. CASE WriteKey(p, "loadCut", "decrypt")
    BY <1>2, <2>2 DEF WriteKey, Aside, Goes, Active, LoadSteps, SaveSteps, Ended, dockerVars,
       IInv, TypeOK, StoreTypeOK, StepsOfKind, StepOfKind, Saves
  <2>3. CASE Decrypt(p)
    <3>1. PICK to \in {"working", "locked"} : at' = [at EXCEPT ![p] = to]
      BY <2>3 DEF Decrypt, Goes
    <3>2. at[p] = "decrypt"
      BY <2>3 DEF Decrypt, Goes
    <3>3. QED
      BY <1>2, <2>3, <3>1, <3>2 DEF Decrypt, Aside, LoadSteps, Ended, dockerVars
  <2>4. CASE TakeKey(p, "saveKey", "saveCut", "seal")
    BY <1>2, <2>4 DEF TakeKey, Aside, Goes, Active, LoadSteps, SaveSteps, Ended, dockerVars,
       IInv, TypeOK, StoreTypeOK, StepsOfKind, StepOfKind, Saves
  <2>5. CASE WriteKey(p, "saveCut", "seal")
    BY <1>2, <2>5 DEF WriteKey, Aside, Goes, Active, LoadSteps, SaveSteps, Ended, dockerVars,
       IInv, TypeOK, StoreTypeOK, StepsOfKind, StepOfKind, Saves
  <2>6. CASE OpenTmp(p)
    BY <1>2, <2>6 DEF OpenTmp, Aside, Goes, Active, LoadSteps, SaveSteps, Ended, dockerVars,
       IInv, TypeOK, StoreTypeOK, StepsOfKind, StepOfKind, Saves
  <2>7. CASE WriteTmp(p)
    BY <1>2, <2>7 DEF WriteTmp, Aside, Goes, Active, LoadSteps, SaveSteps, Ended, dockerVars,
       IInv, TypeOK, StoreTypeOK, StepsOfKind, StepOfKind, Saves
  <2>8. CASE Rename(p)
    BY <1>2, <2>8 DEF Rename, Aside, Goes, Active, LoadSteps, SaveSteps, Ended, dockerVars,
       IInv, TypeOK, StoreTypeOK, StepsOfKind, StepOfKind, Saves
  <2>9. CASE Killed(p)
    BY <1>2, <2>9 DEF Killed, Aside, Goes, Active, LoadSteps, SaveSteps, Ended, dockerVars,
       IInv, TypeOK, StoreTypeOK, StepsOfKind, StepOfKind, Saves
  <2>10. CASE Configure(p)
    BY <1>2, <2>10 DEF Configure, BeginSave, Aside, Goes, Active, LoadSteps, SaveSteps, Ended, dockerVars,
       IInv, TypeOK, StoreTypeOK, StepsOfKind, StepOfKind, Saves
  <2>11. QED
    BY <1>2, <2>1, <2>2, <2>3, <2>4, <2>5, <2>6, <2>7, <2>8, <2>9, <2>10 DEF StoreStep
<1>3. ASSUME NEW p \in Commands, SetupPulls(p) PROVE Aside(p)
  <2>1. at[p] = "working" /\ at' = [at EXCEPT ![p] = "saveKey"] /\ kind[p] = "setup" /\ kind' = kind
    BY <1>3 DEF SetupPulls, BeginSave, Goes
  <2>2. \A q \in Commands \ {p} : text'[q] = text[q]
    BY <1>3 DEF SetupPulls, BeginSave, IInv, TypeOK, StoreTypeOK
  <2>3. faulty \subseteq faulty' /\ UNCHANGED <<network, service, volumeKey, turn, found, contended>>
    BY <1>3 DEF SetupPulls, Pulls
  <2>4. QED
    BY <2>1, <2>2, <2>3 DEF Aside, LoadSteps, SaveSteps, Ended
<1>4. ASSUME NEW p \in Commands, Update(p) PROVE Aside(p)
  <2>1. PICK to \in {"exit0", "exit1"} : at' = [at EXCEPT ![p] = to]
    BY <1>4 DEF Update, Moves, Goes
  <2>2. at[p] = "working" /\ kind[p] = "update" /\ kind' = kind /\ text' = text
    BY <1>4 DEF Update, Moves, Goes
  <2>3. faulty \subseteq faulty' /\ UNCHANGED <<network, service, volumeKey, turn, found, contended>>
    BY <1>4 DEF Update, Pulls
  <2>4. QED
    BY <2>1, <2>2, <2>3 DEF Aside, LoadSteps, Ended
<1>5. QED
  BY <1>1, <1>2, <1>3, <1>4 DEF Next, CommandStep, Done, DockerForm

\* The history variables only ever become true, or grow.
LEMMA HistoryStep ==
    IInv /\ [Next]_vars =>
        /\ overlapped => overlapped'
        /\ crossed => crossed'
        /\ damaged => damaged'
        /\ contended => contended'
        /\ outdated \subseteq outdated'
<1> SUFFICES ASSUME IInv, [Next]_vars
             PROVE  /\ overlapped => overlapped'
                    /\ crossed => crossed'
                    /\ damaged => damaged'
                    /\ contended => contended'
                    /\ outdated \subseteq outdated'
  OBVIOUS
<1> DEFINE Grows == /\ overlapped => overlapped'
                    /\ crossed => crossed'
                    /\ damaged => damaged'
                    /\ outdated \subseteq outdated'
<1>1. Grows
  <2>1. ASSUME NEW p \in Commands, TakeKey(p, "loadKey", "loadCut", "decrypt") \/ WriteKey(p, "loadCut", "decrypt") PROVE Grows
    BY <2>1 DEF TakeKey, WriteKey
  <2>2. ASSUME NEW p \in Commands, TakeKey(p, "saveKey", "saveCut", "seal") \/ WriteKey(p, "saveCut", "seal") PROVE Grows
    BY <2>2 DEF TakeKey, WriteKey
  <2>3. ASSUME NEW p \in Commands, Decrypt(p) \/ Begins(p) \/ Elsewhere(p) PROVE Grows
    BY <2>3 DEF Decrypt, Begins, Elsewhere
  <2>4. ASSUME NEW p \in Commands, WriteTmp(p) \/ Rename(p) \/ Killed(p) PROVE Grows
    BY <2>4 DEF WriteTmp, Rename, Killed
  <2>5. ASSUME NEW p \in Commands, Reads(p) PROVE Grows
    <3>1. overlapped' = (overlapped \/ (Saves(p) /\ \E q \in Commands : Saves(q) /\ Active(q)))
      BY <2>5 DEF Reads
    <3>2. overlapped => overlapped'
      BY <3>1, Zenon
    <3>3. QED
      BY <2>5, <3>2 DEF Reads
  <2>6. ASSUME NEW p \in Commands, OpenTmp(p) PROVE Grows
    <3>1. crossed' = (crossed \/ \E q \in Commands \ {p} : Writes(q))
      BY <2>6 DEF OpenTmp
    <3>2. crossed => crossed'
      BY <3>1, Zenon
    <3>3. QED
      BY <2>6, <3>2 DEF OpenTmp
  <2>7. QED
    BY <2>1, <2>2, <2>3, <2>4, <2>5, <2>6, StoreForms DEF StoreForm, storeVars
<1>2. contended => contended'
  BY DockerForms DEF DockerForm, vars, Aside, StopBegins, StartBegins, EnsureServiceImages, Find, Remove,
     CheckNetwork, dockerVars, CreateNetwork, CreateService, StartService,
     StartFindsNothing, dockerVars, RequestFails, Health, dockerVars
<1>3. QED
  BY <1>1, <1>2

\* A command that has ended stays so.
LEMMA EndedStays ==
    IInv /\ [Next]_vars => \A q \in Commands : at[q] \in {"exit0", "exit1"} => at'[q] = at[q]
<1> SUFFICES ASSUME IInv, [Next]_vars, NEW q \in Commands, at[q] \in {"exit0", "exit1"}
             PROVE  at'[q] = at[q]
  OBVIOUS
<1> USE DEF IInv, TypeOK
<1>1. ASSUME NEW p \in Commands, Reads(p) PROVE at'[q] = at[q]
  BY <1>1 DEF Reads, Goes, Active, Ended, DockerSteps, StartSteps
<1>2. ASSUME NEW p \in Commands, TakeKey(p, "loadKey", "loadCut", "decrypt") PROVE at'[q] = at[q]
  BY <1>2 DEF TakeKey, Goes, Active, Ended, DockerSteps, StartSteps
<1>3. ASSUME NEW p \in Commands, WriteKey(p, "loadCut", "decrypt") PROVE at'[q] = at[q]
  BY <1>3 DEF WriteKey, Goes, Active, Ended, DockerSteps, StartSteps
<1>4. ASSUME NEW p \in Commands, Decrypt(p) PROVE at'[q] = at[q]
  BY <1>4 DEF Decrypt, Goes, Active, Ended, DockerSteps, StartSteps
<1>5. ASSUME NEW p \in Commands, Begins(p) PROVE at'[q] = at[q]
  BY <1>5 DEF Begins, Goes, Active, Ended, DockerSteps, StartSteps
<1>6. ASSUME NEW p \in Commands, TakeKey(p, "saveKey", "saveCut", "seal") PROVE at'[q] = at[q]
  BY <1>6 DEF TakeKey, Goes, Active, Ended, DockerSteps, StartSteps
<1>7. ASSUME NEW p \in Commands, WriteKey(p, "saveCut", "seal") PROVE at'[q] = at[q]
  BY <1>7 DEF WriteKey, Goes, Active, Ended, DockerSteps, StartSteps
<1>8. ASSUME NEW p \in Commands, OpenTmp(p) PROVE at'[q] = at[q]
  BY <1>8 DEF OpenTmp, Goes, Active, Ended, DockerSteps, StartSteps
<1>9. ASSUME NEW p \in Commands, WriteTmp(p) PROVE at'[q] = at[q]
  BY <1>9 DEF WriteTmp, Goes, Active, Ended, DockerSteps, StartSteps
<1>10. ASSUME NEW p \in Commands, Rename(p) PROVE at'[q] = at[q]
  BY <1>10 DEF Rename, Goes, Active, Ended, DockerSteps, StartSteps
<1>11. ASSUME NEW p \in Commands, Killed(p) PROVE at'[q] = at[q]
  BY <1>11 DEF Killed, Goes, Active, Ended, DockerSteps, StartSteps
<1>12. ASSUME NEW p \in Commands, Elsewhere(p) PROVE at'[q] = at[q]
  BY <1>12 DEF Elsewhere, Goes, Active, Ended, DockerSteps, StartSteps
<1>13. CASE UNCHANGED storeVars
  BY <1>13 DEF storeVars
<1>14. QED
  BY <1>1, <1>2, <1>3, <1>4, <1>5, <1>6, <1>7, <1>8, <1>9, <1>10, <1>11,
     <1>12, <1>13, StoreForms DEF StoreForm

-----------------------------------------------------------------------------
(* Preservation, part by part.                                             *)

\* Types.
LEMMA TypeNext == IInv /\ [Next]_vars => TypeOK'
<1> SUFFICES ASSUME IInv, [Next]_vars PROVE TypeOK'
  OBVIOUS
<1>1. StoreTypeOK'
  <2>1. (kind \in Casts /\ made \in Nat /\ machineKey \in 0..made /\ key \in [Commands -> 0..made])'
    <3> USE StoreAssumption DEF IInv, TypeOK, StoreTypeOK, Goes
    <3>1. ASSUME NEW p \in Commands, Reads(p)
          PROVE  (kind \in Casts /\ made \in Nat /\ machineKey \in 0..made /\ key \in [Commands -> 0..made])'
      BY <3>1 DEF Reads
    <3>2. ASSUME NEW p \in Commands, TakeKey(p, "loadKey", "loadCut", "decrypt")
          PROVE  (kind \in Casts /\ made \in Nat /\ machineKey \in 0..made /\ key \in [Commands -> 0..made])'
      BY <3>2 DEF TakeKey
    <3>3. ASSUME NEW p \in Commands, WriteKey(p, "loadCut", "decrypt")
          PROVE  (kind \in Casts /\ made \in Nat /\ machineKey \in 0..made /\ key \in [Commands -> 0..made])'
      BY <3>3 DEF WriteKey
    <3>4. ASSUME NEW p \in Commands, Decrypt(p)
          PROVE  (kind \in Casts /\ made \in Nat /\ machineKey \in 0..made /\ key \in [Commands -> 0..made])'
      BY <3>4 DEF Decrypt, Opens
    <3>5. ASSUME NEW p \in Commands, Begins(p)
          PROVE  (kind \in Casts /\ made \in Nat /\ machineKey \in 0..made /\ key \in [Commands -> 0..made])'
      BY <3>5 DEF Begins
    <3>6. ASSUME NEW p \in Commands, TakeKey(p, "saveKey", "saveCut", "seal")
          PROVE  (kind \in Casts /\ made \in Nat /\ machineKey \in 0..made /\ key \in [Commands -> 0..made])'
      BY <3>6 DEF TakeKey
    <3>7. ASSUME NEW p \in Commands, WriteKey(p, "saveCut", "seal")
          PROVE  (kind \in Casts /\ made \in Nat /\ machineKey \in 0..made /\ key \in [Commands -> 0..made])'
      BY <3>7 DEF WriteKey
    <3>8. ASSUME NEW p \in Commands, OpenTmp(p)
          PROVE  (kind \in Casts /\ made \in Nat /\ machineKey \in 0..made /\ key \in [Commands -> 0..made])'
      BY <3>8 DEF OpenTmp
    <3>9. ASSUME NEW p \in Commands, WriteTmp(p)
          PROVE  (kind \in Casts /\ made \in Nat /\ machineKey \in 0..made /\ key \in [Commands -> 0..made])'
      BY <3>9 DEF WriteTmp
    <3>10. ASSUME NEW p \in Commands, Rename(p)
          PROVE  (kind \in Casts /\ made \in Nat /\ machineKey \in 0..made /\ key \in [Commands -> 0..made])'
      BY <3>10 DEF Rename
    <3>11. ASSUME NEW p \in Commands, Killed(p)
          PROVE  (kind \in Casts /\ made \in Nat /\ machineKey \in 0..made /\ key \in [Commands -> 0..made])'
      BY <3>11 DEF Killed
    <3>12. ASSUME NEW p \in Commands, Elsewhere(p)
          PROVE  (kind \in Casts /\ made \in Nat /\ machineKey \in 0..made /\ key \in [Commands -> 0..made])'
      BY <3>12 DEF Elsewhere
    <3>13. CASE UNCHANGED storeVars
      BY <3>13 DEF storeVars
    <3>14. QED
      BY <3>1, <3>2, <3>3, <3>4, <3>5, <3>6, <3>7, <3>8, <3>9, <3>10, <3>11,
         <3>12, <3>13, StoreForms DEF StoreForm
  <2>2. (outdated \subseteq Commands)'
    <3> USE StoreAssumption DEF IInv, TypeOK, StoreTypeOK, Goes
    <3>1. ASSUME NEW p \in Commands, Reads(p)
          PROVE  (outdated \subseteq Commands)'
      BY <3>1 DEF Reads
    <3>2. ASSUME NEW p \in Commands, TakeKey(p, "loadKey", "loadCut", "decrypt")
          PROVE  (outdated \subseteq Commands)'
      BY <3>2 DEF TakeKey
    <3>3. ASSUME NEW p \in Commands, WriteKey(p, "loadCut", "decrypt")
          PROVE  (outdated \subseteq Commands)'
      BY <3>3 DEF WriteKey
    <3>4. ASSUME NEW p \in Commands, Decrypt(p)
          PROVE  (outdated \subseteq Commands)'
      BY <3>4 DEF Decrypt, Opens
    <3>5. ASSUME NEW p \in Commands, Begins(p)
          PROVE  (outdated \subseteq Commands)'
      BY <3>5 DEF Begins
    <3>6. ASSUME NEW p \in Commands, TakeKey(p, "saveKey", "saveCut", "seal")
          PROVE  (outdated \subseteq Commands)'
      BY <3>6 DEF TakeKey
    <3>7. ASSUME NEW p \in Commands, WriteKey(p, "saveCut", "seal")
          PROVE  (outdated \subseteq Commands)'
      BY <3>7 DEF WriteKey
    <3>8. ASSUME NEW p \in Commands, OpenTmp(p)
          PROVE  (outdated \subseteq Commands)'
      BY <3>8 DEF OpenTmp
    <3>9. ASSUME NEW p \in Commands, WriteTmp(p)
          PROVE  (outdated \subseteq Commands)'
      BY <3>9 DEF WriteTmp
    <3>10. ASSUME NEW p \in Commands, Rename(p)
          PROVE  (outdated \subseteq Commands)'
      BY <3>10 DEF Rename
    <3>11. ASSUME NEW p \in Commands, Killed(p)
          PROVE  (outdated \subseteq Commands)'
      BY <3>11 DEF Killed
    <3>12. ASSUME NEW p \in Commands, Elsewhere(p)
          PROVE  (outdated \subseteq Commands)'
      BY <3>12 DEF Elsewhere
    <3>13. CASE UNCHANGED storeVars
      BY <3>13 DEF storeVars
    <3>14. QED
      BY <3>1, <3>2, <3>3, <3>4, <3>5, <3>6, <3>7, <3>8, <3>9, <3>10, <3>11,
         <3>12, <3>13, StoreForms DEF StoreForm
  <2>3. (text \in [Commands -> Texts])'
    <3> USE StoreAssumption DEF IInv, TypeOK, StoreTypeOK, Goes
    <3>1. ASSUME NEW p \in Commands, Reads(p)
          PROVE  (text \in [Commands -> Texts])'
      BY <3>1, CurrentType DEF Reads
    <3>2. ASSUME NEW p \in Commands, TakeKey(p, "loadKey", "loadCut", "decrypt")
          PROVE  (text \in [Commands -> Texts])'
      BY <3>2 DEF TakeKey
    <3>3. ASSUME NEW p \in Commands, WriteKey(p, "loadCut", "decrypt")
          PROVE  (text \in [Commands -> Texts])'
      BY <3>3 DEF WriteKey
    <3>4. ASSUME NEW p \in Commands, Decrypt(p)
          PROVE  (text \in [Commands -> Texts])'
      BY <3>4 DEF Decrypt, Opens
    <3>5. ASSUME NEW p \in Commands, Begins(p)
          PROVE  (text \in [Commands -> Texts])'
      BY <3>5 DEF Begins
    <3>6. ASSUME NEW p \in Commands, TakeKey(p, "saveKey", "saveCut", "seal")
          PROVE  (text \in [Commands -> Texts])'
      BY <3>6 DEF TakeKey
    <3>7. ASSUME NEW p \in Commands, WriteKey(p, "saveCut", "seal")
          PROVE  (text \in [Commands -> Texts])'
      BY <3>7 DEF WriteKey
    <3>8. ASSUME NEW p \in Commands, OpenTmp(p)
          PROVE  (text \in [Commands -> Texts])'
      BY <3>8 DEF OpenTmp
    <3>9. ASSUME NEW p \in Commands, WriteTmp(p)
          PROVE  (text \in [Commands -> Texts])'
      BY <3>9 DEF WriteTmp
    <3>10. ASSUME NEW p \in Commands, Rename(p)
          PROVE  (text \in [Commands -> Texts])'
      BY <3>10 DEF Rename
    <3>11. ASSUME NEW p \in Commands, Killed(p)
          PROVE  (text \in [Commands -> Texts])'
      BY <3>11 DEF Killed
    <3>12. ASSUME NEW p \in Commands, Elsewhere(p)
          PROVE  (text \in [Commands -> Texts])'
      BY <3>12 DEF Elsewhere
    <3>13. CASE UNCHANGED storeVars
      BY <3>13 DEF storeVars
    <3>14. QED
      BY <3>1, <3>2, <3>3, <3>4, <3>5, <3>6, <3>7, <3>8, <3>9, <3>10, <3>11,
         <3>12, <3>13, StoreForms DEF StoreForm
  <2>4. (content \in [Commands \cup {Earlier} -> Texts])'
    <3> USE StoreAssumption DEF IInv, TypeOK, StoreTypeOK, Goes
    <3>1. ASSUME NEW p \in Commands, Reads(p)
          PROVE  (content \in [Commands \cup {Earlier} -> Texts])'
      BY <3>1 DEF Reads
    <3>2. ASSUME NEW p \in Commands, TakeKey(p, "loadKey", "loadCut", "decrypt")
          PROVE  (content \in [Commands \cup {Earlier} -> Texts])'
      BY <3>2 DEF TakeKey
    <3>3. ASSUME NEW p \in Commands, WriteKey(p, "loadCut", "decrypt")
          PROVE  (content \in [Commands \cup {Earlier} -> Texts])'
      BY <3>3 DEF WriteKey
    <3>4. ASSUME NEW p \in Commands, Decrypt(p)
          PROVE  (content \in [Commands \cup {Earlier} -> Texts])'
      BY <3>4 DEF Decrypt, Opens
    <3>5. ASSUME NEW p \in Commands, Begins(p)
          PROVE  (content \in [Commands \cup {Earlier} -> Texts])'
      BY <3>5 DEF Begins
    <3>6. ASSUME NEW p \in Commands, TakeKey(p, "saveKey", "saveCut", "seal")
          PROVE  (content \in [Commands \cup {Earlier} -> Texts])'
      BY <3>6 DEF TakeKey
    <3>7. ASSUME NEW p \in Commands, WriteKey(p, "saveCut", "seal")
          PROVE  (content \in [Commands \cup {Earlier} -> Texts])'
      BY <3>7 DEF WriteKey
    <3>8. ASSUME NEW p \in Commands, OpenTmp(p)
          PROVE  (content \in [Commands \cup {Earlier} -> Texts])'
      BY <3>8, TextTypes DEF OpenTmp
    <3>9. ASSUME NEW p \in Commands, WriteTmp(p)
          PROVE  (content \in [Commands \cup {Earlier} -> Texts])'
      <4>1. PICK t \in Texts : content' = [content EXCEPT ![fd[p]] = t]
        BY <3>9, WrittenForm
      <4>2. QED
        BY <4>1
    <3>10. ASSUME NEW p \in Commands, Rename(p)
          PROVE  (content \in [Commands \cup {Earlier} -> Texts])'
      BY <3>10 DEF Rename
    <3>11. ASSUME NEW p \in Commands, Killed(p)
          PROVE  (content \in [Commands \cup {Earlier} -> Texts])'
      BY <3>11 DEF Killed
    <3>12. ASSUME NEW p \in Commands, Elsewhere(p)
          PROVE  (content \in [Commands \cup {Earlier} -> Texts])'
      BY <3>12 DEF Elsewhere
    <3>13. CASE UNCHANGED storeVars
      BY <3>13 DEF storeVars
    <3>14. QED
      BY <3>1, <3>2, <3>3, <3>4, <3>5, <3>6, <3>7, <3>8, <3>9, <3>10, <3>11,
         <3>12, <3>13, StoreForms DEF StoreForm
  <2>5. (configFile \in Commands \cup {Earlier, None} /\ tmpFile \in Commands \cup {Earlier, None}
        /\ (configFile = tmpFile => configFile = None)
        /\ fd \in [Commands -> Commands \cup {Earlier, None}])'
    <3> USE StoreAssumption DEF IInv, TypeOK, StoreTypeOK, Goes
    <3>1. ASSUME NEW p \in Commands, Reads(p)
          PROVE  (configFile \in Commands \cup {Earlier, None} /\ tmpFile \in Commands \cup {Earlier, None}
             /\ (configFile = tmpFile => configFile = None)
             /\ fd \in [Commands -> Commands \cup {Earlier, None}])'
      BY <3>1 DEF Reads
    <3>2. ASSUME NEW p \in Commands, TakeKey(p, "loadKey", "loadCut", "decrypt")
          PROVE  (configFile \in Commands \cup {Earlier, None} /\ tmpFile \in Commands \cup {Earlier, None}
             /\ (configFile = tmpFile => configFile = None)
             /\ fd \in [Commands -> Commands \cup {Earlier, None}])'
      BY <3>2 DEF TakeKey
    <3>3. ASSUME NEW p \in Commands, WriteKey(p, "loadCut", "decrypt")
          PROVE  (configFile \in Commands \cup {Earlier, None} /\ tmpFile \in Commands \cup {Earlier, None}
             /\ (configFile = tmpFile => configFile = None)
             /\ fd \in [Commands -> Commands \cup {Earlier, None}])'
      BY <3>3 DEF WriteKey
    <3>4. ASSUME NEW p \in Commands, Decrypt(p)
          PROVE  (configFile \in Commands \cup {Earlier, None} /\ tmpFile \in Commands \cup {Earlier, None}
             /\ (configFile = tmpFile => configFile = None)
             /\ fd \in [Commands -> Commands \cup {Earlier, None}])'
      BY <3>4 DEF Decrypt, Opens
    <3>5. ASSUME NEW p \in Commands, Begins(p)
          PROVE  (configFile \in Commands \cup {Earlier, None} /\ tmpFile \in Commands \cup {Earlier, None}
             /\ (configFile = tmpFile => configFile = None)
             /\ fd \in [Commands -> Commands \cup {Earlier, None}])'
      BY <3>5 DEF Begins
    <3>6. ASSUME NEW p \in Commands, TakeKey(p, "saveKey", "saveCut", "seal")
          PROVE  (configFile \in Commands \cup {Earlier, None} /\ tmpFile \in Commands \cup {Earlier, None}
             /\ (configFile = tmpFile => configFile = None)
             /\ fd \in [Commands -> Commands \cup {Earlier, None}])'
      BY <3>6 DEF TakeKey
    <3>7. ASSUME NEW p \in Commands, WriteKey(p, "saveCut", "seal")
          PROVE  (configFile \in Commands \cup {Earlier, None} /\ tmpFile \in Commands \cup {Earlier, None}
             /\ (configFile = tmpFile => configFile = None)
             /\ fd \in [Commands -> Commands \cup {Earlier, None}])'
      BY <3>7 DEF WriteKey
    <3>8. ASSUME NEW p \in Commands, OpenTmp(p)
          PROVE  (configFile \in Commands \cup {Earlier, None} /\ tmpFile \in Commands \cup {Earlier, None}
             /\ (configFile = tmpFile => configFile = None)
             /\ fd \in [Commands -> Commands \cup {Earlier, None}])'
      BY <3>8 DEF FreshInodes, OpenTmp
    <3>9. ASSUME NEW p \in Commands, WriteTmp(p)
          PROVE  (configFile \in Commands \cup {Earlier, None} /\ tmpFile \in Commands \cup {Earlier, None}
             /\ (configFile = tmpFile => configFile = None)
             /\ fd \in [Commands -> Commands \cup {Earlier, None}])'
      BY <3>9 DEF WriteTmp
    <3>10. ASSUME NEW p \in Commands, Rename(p)
          PROVE  (configFile \in Commands \cup {Earlier, None} /\ tmpFile \in Commands \cup {Earlier, None}
             /\ (configFile = tmpFile => configFile = None)
             /\ fd \in [Commands -> Commands \cup {Earlier, None}])'
      BY <3>10 DEF Rename
    <3>11. ASSUME NEW p \in Commands, Killed(p)
          PROVE  (configFile \in Commands \cup {Earlier, None} /\ tmpFile \in Commands \cup {Earlier, None}
             /\ (configFile = tmpFile => configFile = None)
             /\ fd \in [Commands -> Commands \cup {Earlier, None}])'
      BY <3>11 DEF Killed
    <3>12. ASSUME NEW p \in Commands, Elsewhere(p)
          PROVE  (configFile \in Commands \cup {Earlier, None} /\ tmpFile \in Commands \cup {Earlier, None}
             /\ (configFile = tmpFile => configFile = None)
             /\ fd \in [Commands -> Commands \cup {Earlier, None}])'
      BY <3>12 DEF Elsewhere
    <3>13. CASE UNCHANGED storeVars
      BY <3>13 DEF storeVars
    <3>14. QED
      BY <3>1, <3>2, <3>3, <3>4, <3>5, <3>6, <3>7, <3>8, <3>9, <3>10, <3>11,
         <3>12, <3>13, StoreForms DEF StoreForm
  <2>6. QED
    BY <2>1, <2>2, <2>3, <2>4, <2>5 DEF StoreTypeOK
<1>2. (at \in [Commands -> Ended \cup {"idle"} \cup LoadSteps \cup SaveSteps \cup DockerSteps])'
  <2> DEFINE Places == Ended \cup {"idle"} \cup LoadSteps \cup SaveSteps \cup DockerSteps
  <2>1. at \in [Commands -> Places]
    BY DEF IInv, TypeOK, LoadSteps, SaveSteps, DockerSteps, StartSteps
  <2>2. \A p \in Commands : \A to \in Places :
           at' = [at EXCEPT ![p] = to] => at' \in [Commands -> Places]
    BY <2>1
  <2> USE DEF Goes, Ended, LoadSteps, SaveSteps
  <2>3. ASSUME NEW p \in Commands, Reads(p) PROVE at' \in [Commands -> Places]
    BY <2>3, <2>2 DEF Reads
  <2>4. ASSUME NEW p \in Commands, TakeKey(p, "loadKey", "loadCut", "decrypt") PROVE at' \in [Commands -> Places]
    BY <2>4, <2>2 DEF TakeKey
  <2>5. ASSUME NEW p \in Commands, WriteKey(p, "loadCut", "decrypt") PROVE at' \in [Commands -> Places]
    BY <2>5, <2>2 DEF WriteKey
  <2>6. ASSUME NEW p \in Commands, Decrypt(p) PROVE at' \in [Commands -> Places]
    BY <2>6, <2>2 DEF Decrypt
  <2>7. ASSUME NEW p \in Commands, Begins(p) PROVE at' \in [Commands -> Places]
    BY <2>7, <2>2 DEF Begins
  <2>8. ASSUME NEW p \in Commands, TakeKey(p, "saveKey", "saveCut", "seal") PROVE at' \in [Commands -> Places]
    BY <2>8, <2>2 DEF TakeKey
  <2>9. ASSUME NEW p \in Commands, WriteKey(p, "saveCut", "seal") PROVE at' \in [Commands -> Places]
    BY <2>9, <2>2 DEF WriteKey
  <2>10. ASSUME NEW p \in Commands, OpenTmp(p) PROVE at' \in [Commands -> Places]
    BY <2>10, <2>2 DEF OpenTmp
  <2>11. ASSUME NEW p \in Commands, WriteTmp(p) PROVE at' \in [Commands -> Places]
    BY <2>11, <2>2 DEF WriteTmp
  <2>12. ASSUME NEW p \in Commands, Rename(p) PROVE at' \in [Commands -> Places]
    BY <2>12, <2>2 DEF Rename
  <2>13. ASSUME NEW p \in Commands, Killed(p) PROVE at' \in [Commands -> Places]
    BY <2>13, <2>2 DEF Killed
  <2>14. ASSUME NEW p \in Commands, Elsewhere(p) PROVE at' \in [Commands -> Places]
    BY <2>14, <2>2 DEF Elsewhere
  <2>15. CASE UNCHANGED storeVars
    BY <2>15, <2>1 DEF storeVars
  <2>16. QED
    BY <2>3, <2>4, <2>5, <2>6, <2>7, <2>8, <2>9, <2>10, <2>11, <2>12, <2>13,
       <2>14, <2>15, StoreForms DEF StoreForm
<1>3. /\ (images \subseteq Names \cup {"runner"})'
      /\ (service \in [Names -> Containers])'
      /\ (turn \in [Commands -> Names])'
      /\ (found \in [Commands -> Commands \cup {None}])'
  <2>0. NoContainer \in Containers
    BY DEF NoContainer, Containers
  <2> DEFINE Typed ==
        /\ images' \subseteq Names \cup {"runner"}
        /\ service' \in [Names -> Containers]
        /\ turn' \in [Commands -> Names]
        /\ found' \in [Commands -> Commands \cup {None}]
  <2> USE DEF IInv, TypeOK
  <2>1. ASSUME NEW p \in Commands, StoreStep(p), UNCHANGED dockerVars PROVE Typed
    BY <2>1, <2>0 DEF dockerVars
  <2>2. ASSUME NEW p \in Commands, SetupPulls(p) \/ Update(p) PROVE Typed
    BY <2>2, <2>0 DEF SetupPulls, Update, Pulls
  <2>3. ASSUME NEW p \in Commands, StopBegins(p) \/ StartBegins(p) PROVE Typed
    BY <2>3, <2>0 DEF StopBegins, StartBegins
  <2>4. ASSUME NEW p \in Commands, EnsureServiceImages(p) PROVE Typed
    BY <2>4, <2>0 DEF EnsureServiceImages, Pulls
  <2>5. ASSUME NEW p \in Commands, Find(p) PROVE Typed
    BY <2>5, <2>0 DEF Find, Names, Containers
  <2>6. ASSUME NEW p \in Commands, Remove(p) PROVE Typed
    BY <2>6, <2>0 DEF Remove, Names
  <2>7. ASSUME NEW p \in Commands, CheckNetwork(p) \/ CreateNetwork(p) PROVE Typed
    BY <2>7, <2>0 DEF CheckNetwork, CreateNetwork, dockerVars
  <2>8. ASSUME NEW p \in Commands, CreateService(p) PROVE Typed
    <3>1. text[p].master \in Nat
      BY TextTypes DEF StoreTypeOK
    <3>2. [by |-> p, up |-> FALSE, master |-> text[p].master] \in Containers
      BY <3>1 DEF Containers
    <3>3. QED
      BY <2>8, <3>2 DEF CreateService
  <2>9. ASSUME NEW p \in Commands, StartService(p) PROVE Typed
    <3>1. \A c \in Containers : [c EXCEPT !.up = TRUE] \in Containers
      BY DEF Containers
    <3>2. service' \in [Names -> Containers]
      BY <2>9, <3>1 DEF StartService
    <3>3. QED
      BY <2>9, <3>2 DEF StartService, Names
  <2>10. ASSUME NEW p \in Commands, StartFindsNothing(p) \/ RequestFails(p) \/ Health(p) PROVE Typed
    BY <2>10, <2>0 DEF StartFindsNothing, RequestFails, Health, dockerVars, Names
  <2>11. CASE UNCHANGED vars
    BY <2>11 DEF vars, dockerVars
  <2>12. QED
    BY <2>1, <2>2, <2>3, <2>4, <2>5, <2>6, <2>7, <2>8, <2>9, <2>10, <2>11 DEF
       Next, CommandStep, Done
<1>4. QED
  BY <1>1, <1>2, <1>3 DEF TypeOK, LoadSteps, SaveSteps, DockerSteps, StartSteps

\* Every command is where its kind can be.
LEMMA StepsNext == IInv /\ [Next]_vars => StepsOfKind'
<1> SUFFICES ASSUME IInv, [Next]_vars, NEW q \in Commands
             PROVE  StepOfKind(q)'
  BY DEF StepsOfKind
<1> USE StoreAssumption
      DEF IInv, TypeOK, StoreTypeOK, Goes, StepsOfKind, StepOfKind, Saves,
          LoadSteps, SaveSteps, StartSteps, DockerSteps, Ended
<1>1. ASSUME NEW p \in Commands, Reads(p) PROVE StepOfKind(q)'
  BY <1>1 DEF Reads
<1>2. ASSUME NEW p \in Commands, TakeKey(p, "loadKey", "loadCut", "decrypt") PROVE StepOfKind(q)'
  BY <1>2 DEF TakeKey
<1>3. ASSUME NEW p \in Commands, WriteKey(p, "loadCut", "decrypt") PROVE StepOfKind(q)'
  BY <1>3 DEF WriteKey
<1>4. ASSUME NEW p \in Commands, Decrypt(p) PROVE StepOfKind(q)'
  BY <1>4 DEF Decrypt, Opens
<1>5. ASSUME NEW p \in Commands, Begins(p) PROVE StepOfKind(q)'
  BY <1>5 DEF Begins
<1>6. ASSUME NEW p \in Commands, TakeKey(p, "saveKey", "saveCut", "seal") PROVE StepOfKind(q)'
  BY <1>6 DEF TakeKey
<1>7. ASSUME NEW p \in Commands, WriteKey(p, "saveCut", "seal") PROVE StepOfKind(q)'
  BY <1>7 DEF WriteKey
<1>8. ASSUME NEW p \in Commands, OpenTmp(p) PROVE StepOfKind(q)'
  BY <1>8 DEF OpenTmp
<1>9. ASSUME NEW p \in Commands, WriteTmp(p) PROVE StepOfKind(q)'
  BY <1>9 DEF WriteTmp
<1>10. ASSUME NEW p \in Commands, Rename(p) PROVE StepOfKind(q)'
  BY <1>10 DEF Rename
<1>11. ASSUME NEW p \in Commands, Killed(p) PROVE StepOfKind(q)'
  BY <1>11 DEF Killed
<1>12. ASSUME NEW p \in Commands, Elsewhere(p) PROVE StepOfKind(q)'
  BY <1>12 DEF Elsewhere
<1>13. CASE UNCHANGED storeVars
  BY <1>13 DEF storeVars
<1>14. QED
  BY <1>1, <1>2, <1>3, <1>4, <1>5, <1>6, <1>7, <1>8, <1>9, <1>10, <1>11,
     <1>12, <1>13, StoreForms DEF StoreForm

\* Files are created by opening config.json.tmp only.
LEMMA FreshNext == IInv /\ [Next]_vars => FreshInodes'
<1> SUFFICES ASSUME IInv, [Next]_vars
             PROVE  FreshInodes'
  OBVIOUS
<1> USE StoreAssumption
      DEF IInv, TypeOK, StoreTypeOK, Goes, FreshInodes, LoadSteps, SaveSteps,
          DockerSteps, StartSteps, Ended
<1>1. ASSUME NEW p \in Commands, Reads(p) PROVE FreshInodes'
  BY <1>1 DEF Reads
<1>2. ASSUME NEW p \in Commands, TakeKey(p, "loadKey", "loadCut", "decrypt") PROVE FreshInodes'
  BY <1>2 DEF TakeKey
<1>3. ASSUME NEW p \in Commands, WriteKey(p, "loadCut", "decrypt") PROVE FreshInodes'
  BY <1>3 DEF WriteKey
<1>4. ASSUME NEW p \in Commands, Decrypt(p) PROVE FreshInodes'
  BY <1>4 DEF Decrypt, Opens
<1>5. ASSUME NEW p \in Commands, Begins(p) PROVE FreshInodes'
  BY <1>5 DEF Begins
<1>6. ASSUME NEW p \in Commands, TakeKey(p, "saveKey", "saveCut", "seal") PROVE FreshInodes'
  BY <1>6 DEF TakeKey
<1>7. ASSUME NEW p \in Commands, WriteKey(p, "saveCut", "seal") PROVE FreshInodes'
  BY <1>7 DEF WriteKey
<1>8. ASSUME NEW p \in Commands, OpenTmp(p) PROVE FreshInodes'
  BY <1>8 DEF OpenTmp
<1>9. ASSUME NEW p \in Commands, WriteTmp(p) PROVE FreshInodes'
  BY <1>9 DEF WriteTmp
<1>10. ASSUME NEW p \in Commands, Rename(p) PROVE FreshInodes'
  BY <1>10 DEF Rename
<1>11. ASSUME NEW p \in Commands, Killed(p) PROVE FreshInodes'
  BY <1>11 DEF Killed
<1>12. ASSUME NEW p \in Commands, Elsewhere(p) PROVE FreshInodes'
  BY <1>12 DEF Elsewhere
<1>13. CASE UNCHANGED storeVars
  BY <1>13 DEF storeVars
<1>14. QED
  BY <1>1, <1>2, <1>3, <1>4, <1>5, <1>6, <1>7, <1>8, <1>9, <1>10, <1>11,
     <1>12, <1>13, StoreForms DEF StoreForm

\* Nothing empty names a projects folder.
LEMMA BlankNext == IInv /\ [Next]_vars => EmptyIsBlank'
<1> SUFFICES ASSUME IInv, [Next]_vars
             PROVE  EmptyIsBlank'
  OBVIOUS
<1> USE StoreAssumption
      DEF IInv, TypeOK, StoreTypeOK, Goes, EmptyIsBlank
<1>1. ASSUME NEW p \in Commands, Reads(p) PROVE EmptyIsBlank'
  BY <1>1 DEF Reads
<1>2. ASSUME NEW p \in Commands, TakeKey(p, "loadKey", "loadCut", "decrypt") PROVE EmptyIsBlank'
  BY <1>2 DEF TakeKey
<1>3. ASSUME NEW p \in Commands, WriteKey(p, "loadCut", "decrypt") PROVE EmptyIsBlank'
  BY <1>3 DEF WriteKey
<1>4. ASSUME NEW p \in Commands, Decrypt(p) PROVE EmptyIsBlank'
  BY <1>4 DEF Decrypt, Opens
<1>5. ASSUME NEW p \in Commands, Begins(p) PROVE EmptyIsBlank'
  BY <1>5 DEF Begins
<1>6. ASSUME NEW p \in Commands, TakeKey(p, "saveKey", "saveCut", "seal") PROVE EmptyIsBlank'
  BY <1>6 DEF TakeKey
<1>7. ASSUME NEW p \in Commands, WriteKey(p, "saveCut", "seal") PROVE EmptyIsBlank'
  BY <1>7 DEF WriteKey
<1>8. ASSUME NEW p \in Commands, OpenTmp(p) PROVE EmptyIsBlank'
  BY <1>8, TextTypes DEF OpenTmp
<1>9. ASSUME NEW p \in Commands, WriteTmp(p) PROVE EmptyIsBlank'
  <2>1. PICK t \in Texts : (t.form = "empty" => ~t.root) /\ content' = [content EXCEPT ![fd[p]] = t]
    BY <1>9, WrittenForm
  <2>2. QED
    BY <2>1
<1>10. ASSUME NEW p \in Commands, Rename(p) PROVE EmptyIsBlank'
  BY <1>10 DEF Rename
<1>11. ASSUME NEW p \in Commands, Killed(p) PROVE EmptyIsBlank'
  BY <1>11 DEF Killed
<1>12. ASSUME NEW p \in Commands, Elsewhere(p) PROVE EmptyIsBlank'
  BY <1>12 DEF Elsewhere
<1>13. CASE UNCHANGED storeVars
  BY <1>13 DEF storeVars
<1>14. QED
  BY <1>1, <1>2, <1>3, <1>4, <1>5, <1>6, <1>7, <1>8, <1>9, <1>10, <1>11,
     <1>12, <1>13, StoreForms DEF StoreForm

\* A second saver sets `overlapped` when it reads.
LEMMA OneSaverNext == IInv /\ [Next]_vars => OneSaver'
<1> SUFFICES ASSUME IInv, [Next]_vars, ~overlapped', NEW q1 \in Commands, NEW
                    q2 \in Commands, Saves(q1)', Active(q1)', Saves(q2)',
                    Active(q2)'
             PROVE  q1 = q2
  BY DEF OneSaver
<1>0. ~overlapped
  BY HistoryStep
<1> USE StoreAssumption
      DEF IInv, TypeOK, OneSaver, Saves, Active, Goes, StepsOfKind,
          StepOfKind, LoadSteps, SaveSteps, StartSteps, DockerSteps, Ended
<1>1. ASSUME NEW p \in Commands, Reads(p) PROVE q1 = q2
  <2>1. Saves(p) => ~ \E q \in Commands : Saves(q) /\ Active(q)
    <3>1. overlapped' = (overlapped \/ (Saves(p) /\ \E q \in Commands : Saves(q) /\ Active(q)))
      BY <1>1 DEF Reads
    <3> HIDE DEF Saves, Active
    <3>2. QED
      BY <3>1, Zenon
  <2>2. \A q \in Commands \ {p} : at'[q] = at[q]
    BY <1>1 DEF Reads
  <2>3. kind' = kind
    BY <1>1 DEF Reads
  <2>4. Saves(p) => \A q \in Commands \ {p} : ~(Saves(q)' /\ Active(q)')
    BY <2>1, <2>2, <2>3
  <2>5. CASE q1 # p /\ q2 # p
    BY <1>0, <2>2, <2>3, <2>5
  <2>6. CASE q1 = p \/ q2 = p
    <3>1. Saves(p)
      BY <2>3, <2>6
    <3>2. QED
      BY <2>4, <2>6, <3>1
  <2>7. QED
    BY <2>5, <2>6
<1>2. ASSUME NEW p \in Commands, TakeKey(p, "loadKey", "loadCut", "decrypt") PROVE q1 = q2
  BY <1>2, <1>0 DEF TakeKey
<1>3. ASSUME NEW p \in Commands, WriteKey(p, "loadCut", "decrypt") PROVE q1 = q2
  BY <1>3, <1>0 DEF WriteKey
<1>4. ASSUME NEW p \in Commands, Decrypt(p) PROVE q1 = q2
  BY <1>4, <1>0 DEF Decrypt, Opens
<1>5. ASSUME NEW p \in Commands, Begins(p) PROVE q1 = q2
  BY <1>5, <1>0 DEF Begins
<1>6. ASSUME NEW p \in Commands, TakeKey(p, "saveKey", "saveCut", "seal") PROVE q1 = q2
  BY <1>6, <1>0 DEF TakeKey
<1>7. ASSUME NEW p \in Commands, WriteKey(p, "saveCut", "seal") PROVE q1 = q2
  BY <1>7, <1>0 DEF WriteKey
<1>8. ASSUME NEW p \in Commands, OpenTmp(p) PROVE q1 = q2
  BY <1>8, <1>0 DEF OpenTmp
<1>9. ASSUME NEW p \in Commands, WriteTmp(p) PROVE q1 = q2
  BY <1>9, <1>0 DEF WriteTmp
<1>10. ASSUME NEW p \in Commands, Rename(p) PROVE q1 = q2
  BY <1>10, <1>0 DEF Rename
<1>11. ASSUME NEW p \in Commands, Killed(p) PROVE q1 = q2
  BY <1>11, <1>0 DEF Killed
<1>12. ASSUME NEW p \in Commands, Elsewhere(p) PROVE q1 = q2
  BY <1>12, <1>0 DEF Elsewhere
<1>13. CASE UNCHANGED storeVars
  BY <1>13 DEF storeVars
<1>14. QED
  BY <1>1, <1>2, <1>3, <1>4, <1>5, <1>6, <1>7, <1>8, <1>9, <1>10, <1>11,
     <1>12, <1>13, StoreForms DEF StoreForm

\* A second writer sets `crossed` when it opens the file.
LEMMA WriterNext == IInv /\ [Next]_vars => OneWriter'
<1> SUFFICES ASSUME IInv, [Next]_vars, ~crossed', NEW q1 \in Commands, NEW q2
                    \in Commands, Writes(q1)', Writes(q2)'
             PROVE  q1 = q2
  BY DEF OneWriter
<1>0. ~crossed
  BY HistoryStep
<1> USE StoreAssumption
      DEF IInv, TypeOK, OneWriter, Writes, Goes, LoadSteps, SaveSteps,
          StartSteps, DockerSteps, Ended
<1>1. ASSUME NEW p \in Commands, Reads(p) PROVE q1 = q2
  BY <1>1, <1>0 DEF Reads
<1>2. ASSUME NEW p \in Commands, TakeKey(p, "loadKey", "loadCut", "decrypt") PROVE q1 = q2
  BY <1>2, <1>0 DEF TakeKey
<1>3. ASSUME NEW p \in Commands, WriteKey(p, "loadCut", "decrypt") PROVE q1 = q2
  BY <1>3, <1>0 DEF WriteKey
<1>4. ASSUME NEW p \in Commands, Decrypt(p) PROVE q1 = q2
  BY <1>4, <1>0 DEF Decrypt, Opens
<1>5. ASSUME NEW p \in Commands, Begins(p) PROVE q1 = q2
  BY <1>5, <1>0 DEF Begins
<1>6. ASSUME NEW p \in Commands, TakeKey(p, "saveKey", "saveCut", "seal") PROVE q1 = q2
  BY <1>6, <1>0 DEF TakeKey
<1>7. ASSUME NEW p \in Commands, WriteKey(p, "saveCut", "seal") PROVE q1 = q2
  BY <1>7, <1>0 DEF WriteKey
<1>8. ASSUME NEW p \in Commands, OpenTmp(p) PROVE q1 = q2
  <2>1. ~ \E q \in Commands \ {p} : Writes(q)
    <3>1. crossed' = (crossed \/ \E q \in Commands \ {p} : Writes(q))
      BY <1>8 DEF OpenTmp
    <3> HIDE DEF Writes
    <3>2. QED
      BY <3>1, Zenon
  <2>2. \A q \in Commands \ {p} : at'[q] = at[q]
    BY <1>8 DEF OpenTmp
  <2>3. QED
    BY <2>1, <2>2
<1>9. ASSUME NEW p \in Commands, WriteTmp(p) PROVE q1 = q2
  BY <1>9, <1>0 DEF WriteTmp
<1>10. ASSUME NEW p \in Commands, Rename(p) PROVE q1 = q2
  BY <1>10, <1>0 DEF Rename
<1>11. ASSUME NEW p \in Commands, Killed(p) PROVE q1 = q2
  BY <1>11, <1>0 DEF Killed
<1>12. ASSUME NEW p \in Commands, Elsewhere(p) PROVE q1 = q2
  BY <1>12, <1>0 DEF Elsewhere
<1>13. CASE UNCHANGED storeVars
  BY <1>13 DEF storeVars
<1>14. QED
  BY <1>1, <1>2, <1>3, <1>4, <1>5, <1>6, <1>7, <1>8, <1>9, <1>10, <1>11,
     <1>12, <1>13, StoreForms DEF StoreForm

\* ... which takes two commands that save.
LEMMA CrossedNext == IInv /\ [Next]_vars => CrossedIsOverlapped'
<1> SUFFICES ASSUME IInv, [Next]_vars
             PROVE  CrossedIsOverlapped'
  OBVIOUS
<1> USE StoreAssumption
      DEF IInv, TypeOK, CrossedIsOverlapped
<1>1. ASSUME NEW p \in Commands, Reads(p) PROVE CrossedIsOverlapped'
  <2>1. crossed' = crossed
    BY <1>1 DEF Reads
  <2>2. overlapped => overlapped'
    BY HistoryStep
  <2>3. QED
    BY <2>1, <2>2
<1>2. ASSUME NEW p \in Commands, TakeKey(p, "loadKey", "loadCut", "decrypt") PROVE CrossedIsOverlapped'
  BY <1>2 DEF TakeKey
<1>3. ASSUME NEW p \in Commands, WriteKey(p, "loadCut", "decrypt") PROVE CrossedIsOverlapped'
  BY <1>3 DEF WriteKey
<1>4. ASSUME NEW p \in Commands, Decrypt(p) PROVE CrossedIsOverlapped'
  BY <1>4 DEF Decrypt, Opens
<1>5. ASSUME NEW p \in Commands, Begins(p) PROVE CrossedIsOverlapped'
  BY <1>5 DEF Begins
<1>6. ASSUME NEW p \in Commands, TakeKey(p, "saveKey", "saveCut", "seal") PROVE CrossedIsOverlapped'
  BY <1>6 DEF TakeKey
<1>7. ASSUME NEW p \in Commands, WriteKey(p, "saveCut", "seal") PROVE CrossedIsOverlapped'
  BY <1>7 DEF WriteKey
<1>8. ASSUME NEW p \in Commands, OpenTmp(p) PROVE CrossedIsOverlapped'
  <2>1. CASE overlapped
    <3>1. overlapped' = overlapped
      BY <1>8 DEF OpenTmp
    <3>2. QED
      BY <2>1, <3>1
  <2>2. CASE ~overlapped
    <3>1. at[p] = "seal"
      BY <1>8 DEF OpenTmp, Goes
    <3>2. Saves(p) /\ Active(p)
      BY <3>1 DEF StepsOfKind, StepOfKind, SaveSteps, Active, Ended
    <3>3. \A q \in Commands : Writes(q) => Saves(q) /\ Active(q)
      BY DEF StepsOfKind, StepOfKind, SaveSteps, Active, Ended, Writes
    <3>4. ~ \E q \in Commands \ {p} : Writes(q)
      BY <2>2, <3>2, <3>3 DEF OneSaver
    <3>5. crossed' = (crossed \/ \E q \in Commands \ {p} : Writes(q))
      BY <1>8 DEF OpenTmp
    <3>6. ~crossed'
      BY <2>2, <3>4, <3>5, Zenon
    <3>7. QED
      BY <3>6
  <2>3. QED
    BY <2>1, <2>2
<1>9. ASSUME NEW p \in Commands, WriteTmp(p) PROVE CrossedIsOverlapped'
  BY <1>9 DEF WriteTmp
<1>10. ASSUME NEW p \in Commands, Rename(p) PROVE CrossedIsOverlapped'
  BY <1>10 DEF Rename
<1>11. ASSUME NEW p \in Commands, Killed(p) PROVE CrossedIsOverlapped'
  BY <1>11 DEF Killed
<1>12. ASSUME NEW p \in Commands, Elsewhere(p) PROVE CrossedIsOverlapped'
  BY <1>12 DEF Elsewhere
<1>13. CASE UNCHANGED storeVars
  BY <1>13 DEF storeVars
<1>14. QED
  BY <1>1, <1>2, <1>3, <1>4, <1>5, <1>6, <1>7, <1>8, <1>9, <1>10, <1>11,
     <1>12, <1>13, StoreForms DEF StoreForm

\* What is renamed is what this command has written.
LEMMA TmpNext == IInv /\ [Next]_vars => TmpIsItsOwn'
<1> SUFFICES ASSUME IInv, [Next]_vars, ~crossed', NEW q \in Commands
             PROVE  TmpOf(q)'
  BY DEF TmpIsItsOwn
<1>0. ~crossed
  BY HistoryStep
<1> USE StoreAssumption
      DEF IInv, TypeOK, StoreTypeOK, Goes, TmpIsItsOwn, TmpOf, OneWriter,
          Writes, LoadSteps, SaveSteps, StartSteps, DockerSteps, Ended
<1>1. ASSUME NEW p \in Commands, Reads(p) PROVE TmpOf(q)'
  BY <1>1, <1>0 DEF Reads
<1>2. ASSUME NEW p \in Commands, TakeKey(p, "loadKey", "loadCut", "decrypt") PROVE TmpOf(q)'
  BY <1>2, <1>0 DEF TakeKey
<1>3. ASSUME NEW p \in Commands, WriteKey(p, "loadCut", "decrypt") PROVE TmpOf(q)'
  BY <1>3, <1>0 DEF WriteKey
<1>4. ASSUME NEW p \in Commands, Decrypt(p) PROVE TmpOf(q)'
  BY <1>4, <1>0 DEF Decrypt, Opens
<1>5. ASSUME NEW p \in Commands, Begins(p) PROVE TmpOf(q)'
  BY <1>5, <1>0 DEF Begins
<1>6. ASSUME NEW p \in Commands, TakeKey(p, "saveKey", "saveCut", "seal") PROVE TmpOf(q)'
  BY <1>6, <1>0 DEF TakeKey
<1>7. ASSUME NEW p \in Commands, WriteKey(p, "saveCut", "seal") PROVE TmpOf(q)'
  BY <1>7, <1>0 DEF WriteKey
<1>8. ASSUME NEW p \in Commands, OpenTmp(p) PROVE TmpOf(q)'
  <2>1. CASE q = p
    <3>1. Text("empty").form = "empty"
      BY TextTypes
    <3>2. QED
      BY <1>8, <2>1, <3>1 DEF OpenTmp
  <2>2. CASE q # p
    <3>1. ~ \E r \in Commands \ {p} : Writes(r)
      <4>1. crossed' = (crossed \/ \E r \in Commands \ {p} : Writes(r))
        BY <1>8 DEF OpenTmp
      <4> HIDE DEF Writes
      <4>2. QED
        BY <4>1, Zenon
    <3>2. at[q] \notin {"write", "rename"} /\ at'[q] = at[q]
      BY <1>8, <2>2, <3>1 DEF OpenTmp
    <3>3. QED
      BY <3>2
  <2>3. QED
    BY <2>1, <2>2
<1>9. ASSUME NEW p \in Commands, WriteTmp(p) PROVE TmpOf(q)'
  <2>1. at[p] = "write" /\ at' = [at EXCEPT ![p] = at'[p]] /\ at'[p] # "write"
    BY <1>9 DEF WriteTmp
  <2>2. CASE q = p
    <3>1. fd[p] = tmpFile /\ tmpFile # None /\ content[tmpFile].form = "empty"
      BY <1>0, <2>1
    <3>2. at'[p] = "rename" => content' = [content EXCEPT ![tmpFile] = Sealed(p)]
      BY <1>9, <3>1 DEF WriteTmp
    <3>3. at'[p] = "rename" => content'[tmpFile] = Sealed(p)
      BY <3>1, <3>2
    <3>4. tmpFile' = tmpFile /\ text' = text /\ key' = key /\ fd' = fd
      BY <1>9 DEF WriteTmp
    <3>5. QED
      BY <2>1, <2>2, <3>1, <3>3, <3>4, SealedType
  <2>3. CASE q # p
    <3>1. at[q] \notin {"write", "rename"} /\ at'[q] = at[q]
      BY <1>0, <2>1, <2>3
    <3>2. QED
      BY <3>1
  <2>4. QED
    BY <2>2, <2>3
<1>10. ASSUME NEW p \in Commands, Rename(p) PROVE TmpOf(q)'
  BY <1>10, <1>0 DEF Rename
<1>11. ASSUME NEW p \in Commands, Killed(p) PROVE TmpOf(q)'
  BY <1>11, <1>0 DEF Killed
<1>12. ASSUME NEW p \in Commands, Elsewhere(p) PROVE TmpOf(q)'
  BY <1>12, <1>0 DEF Elsewhere
<1>13. CASE UNCHANGED storeVars
  BY <1>13 DEF storeVars
<1>14. QED
  BY <1>1, <1>2, <1>3, <1>4, <1>5, <1>6, <1>7, <1>8, <1>9, <1>10, <1>11,
     <1>12, <1>13, StoreForms DEF StoreForm

\* config.json is never opened for writing.
LEMMA WholeNext == IInv /\ [Next]_vars => ConfigIsWhole'
<1> SUFFICES ASSUME IInv, [Next]_vars, ~crossed'
             PROVE  ConfigIsWhole'
  BY DEF ConfigIsWhole
<1>0. ~crossed
  BY HistoryStep
<1> USE StoreAssumption
      DEF IInv, TypeOK, StoreTypeOK, Goes, ConfigIsWhole, TmpIsItsOwn, TmpOf,
          FreshInodes
<1>1. ASSUME NEW p \in Commands, Reads(p) PROVE ConfigIsWhole'
  BY <1>1, <1>0 DEF Reads
<1>2. ASSUME NEW p \in Commands, TakeKey(p, "loadKey", "loadCut", "decrypt") PROVE ConfigIsWhole'
  BY <1>2, <1>0 DEF TakeKey
<1>3. ASSUME NEW p \in Commands, WriteKey(p, "loadCut", "decrypt") PROVE ConfigIsWhole'
  BY <1>3, <1>0 DEF WriteKey
<1>4. ASSUME NEW p \in Commands, Decrypt(p) PROVE ConfigIsWhole'
  BY <1>4, <1>0 DEF Decrypt, Opens
<1>5. ASSUME NEW p \in Commands, Begins(p) PROVE ConfigIsWhole'
  BY <1>5, <1>0 DEF Begins
<1>6. ASSUME NEW p \in Commands, TakeKey(p, "saveKey", "saveCut", "seal") PROVE ConfigIsWhole'
  BY <1>6, <1>0 DEF TakeKey
<1>7. ASSUME NEW p \in Commands, WriteKey(p, "saveCut", "seal") PROVE ConfigIsWhole'
  BY <1>7, <1>0 DEF WriteKey
<1>8. ASSUME NEW p \in Commands, OpenTmp(p) PROVE ConfigIsWhole'
  BY <1>8, <1>0 DEF OpenTmp
<1>9. ASSUME NEW p \in Commands, WriteTmp(p) PROVE ConfigIsWhole'
  BY <1>9, <1>0 DEF WriteTmp
<1>10. ASSUME NEW p \in Commands, Rename(p) PROVE ConfigIsWhole'
  BY <1>10, <1>0 DEF Rename
<1>11. ASSUME NEW p \in Commands, Killed(p) PROVE ConfigIsWhole'
  BY <1>11, <1>0 DEF Killed
<1>12. ASSUME NEW p \in Commands, Elsewhere(p) PROVE ConfigIsWhole'
  BY <1>12, <1>0 DEF Elsewhere
<1>13. CASE UNCHANGED storeVars
  BY <1>13 DEF storeVars
<1>14. QED
  BY <1>1, <1>2, <1>3, <1>4, <1>5, <1>6, <1>7, <1>8, <1>9, <1>10, <1>11,
     <1>12, <1>13, StoreForms DEF StoreForm

\* What becomes of config.json.
Keeps == configFile' = configFile /\ Current' = Current /\ entered' = entered

Replaces(p) ==
    /\ at[p] = "rename" /\ Saves(p) /\ at'[p] \in Ended
    /\ configFile' # None
    /\ Current'.key = key[p] /\ Current'.token = text[p].token /\ Current'.master = text[p].master
    /\ entered' = IF kind[p] = "config" THEN text[p].token ELSE entered

\* As long as no two commands have written at a time, a step leaves config.json as
\* it is, or is the rename that ends a save.
LEMMA FileStep ==
    IInv /\ [Next]_vars /\ (~crossed' \/ ~overlapped') =>
        /\ \A p \in Commands : Rename(p) => Replaces(p)
        /\ (\A p \in Commands : ~Rename(p)) => Keeps
<1> SUFFICES ASSUME IInv, [Next]_vars, ~crossed' \/ ~overlapped'
             PROVE  /\ \A p \in Commands : Rename(p) => Replaces(p)
                    /\ (\A p \in Commands : ~Rename(p)) => Keeps
  OBVIOUS
<1>0. ~crossed
  BY HistoryStep, CrossedNext DEF CrossedIsOverlapped
<1> USE StoreAssumption
    DEF IInv, TypeOK, StoreTypeOK, Goes, FreshInodes, TmpIsItsOwn, TmpOf, Keeps, Current
<1>1. ASSUME NEW p \in Commands, Rename(p) PROVE Replaces(p)
  <2>1. at[p] = "rename" /\ tmpFile # None
    BY <1>0, <1>1 DEF Rename
  <2>2. Saves(p)
    BY <2>1 DEF StepsOfKind, StepOfKind, SaveSteps
  <2>3. Current' = content[tmpFile] /\ configFile' # None
    BY <1>1, <2>1 DEF Rename
  <2>4. at'[p] \in Ended
    BY <1>1, <2>1 DEF Rename, Ended
  <2>5. entered' = IF kind[p] = "config" THEN text[p].token ELSE entered
    BY <1>1, <2>1 DEF Rename
  <2>6. QED
    BY <1>0, <2>1, <2>2, <2>3, <2>4, <2>5 DEF Replaces
<1>2. ASSUME NEW p \in Commands, Reads(p) PROVE Keeps
  BY <1>0, <1>2 DEF Reads
<1>3. ASSUME NEW p \in Commands, TakeKey(p, "loadKey", "loadCut", "decrypt") PROVE Keeps
  BY <1>0, <1>3 DEF TakeKey
<1>4. ASSUME NEW p \in Commands, WriteKey(p, "loadCut", "decrypt") PROVE Keeps
  BY <1>0, <1>4 DEF WriteKey
<1>5. ASSUME NEW p \in Commands, Decrypt(p) PROVE Keeps
  BY <1>0, <1>5 DEF Decrypt, Opens
<1>6. ASSUME NEW p \in Commands, Begins(p) PROVE Keeps
  BY <1>0, <1>6 DEF Begins
<1>7. ASSUME NEW p \in Commands, TakeKey(p, "saveKey", "saveCut", "seal") PROVE Keeps
  BY <1>0, <1>7 DEF TakeKey
<1>8. ASSUME NEW p \in Commands, WriteKey(p, "saveCut", "seal") PROVE Keeps
  BY <1>0, <1>8 DEF WriteKey
<1>9. ASSUME NEW p \in Commands, OpenTmp(p) PROVE Keeps
  BY <1>0, <1>9 DEF OpenTmp
<1>10. ASSUME NEW p \in Commands, WriteTmp(p) PROVE Keeps
  BY <1>0, <1>10 DEF WriteTmp
<1>11. ASSUME NEW p \in Commands, Killed(p) PROVE Keeps
  BY <1>0, <1>11 DEF Killed
<1>12. ASSUME NEW p \in Commands, Elsewhere(p) PROVE Keeps
  BY <1>0, <1>12 DEF Elsewhere
<1>13. ASSUME UNCHANGED storeVars PROVE Keeps
  BY <1>13 DEF storeVars
<1>14. QED
  BY <1>1, <1>2, <1>3, <1>4, <1>5, <1>6, <1>7, <1>8, <1>9, <1>10, <1>11,
     <1>12, <1>13, StoreForms DEF StoreForm

\* While no saver is stale, none was.
LEMMA NoStaleBefore == IInv /\ [Next]_vars /\ ~StaleSave' => ~StaleSave
<1> SUFFICES ASSUME IInv, [Next]_vars, NEW q \in outdated, at[q] \in {"exit0", "exit1"} PROVE StaleSave'
  BY DEF StaleSave
<1>1. q \in Commands
  BY DEF IInv, TypeOK, StoreTypeOK
<1>2. at'[q] = at[q] /\ q \in outdated'
  BY <1>1, HistoryStep, EndedStays
<1>3. QED
  BY <1>2 DEF StaleSave

\* The rename of an ebl config makes every other command that saves outdated, and
\* that of an outdated command is a stale save.
LEMMA RenameStep ==
    ASSUME IInv, [Next]_vars, ~crossed', NEW p \in Commands, Rename(p)
    PROVE  /\ at'[p] \in {"exit0", "exit1"} /\ \A q \in Commands \ {p} : at'[q] = at[q]
           /\ kind[p] = "config" => \A q \in Commands \ {p} : Saves(q) /\ Active(q) => q \in outdated'
           /\ UNCHANGED <<kind, text>>
<1>1. at[p] = "rename" /\ tmpFile # None
  <2>1. ~crossed
    BY HistoryStep
  <2>2. at[p] = "rename"
    BY DEF Rename, Goes
  <2>3. QED
    BY <2>1, <2>2 DEF IInv, TmpIsItsOwn, TmpOf
<1>2. PICK to \in {"exit0", "exit1"} : at' = [at EXCEPT ![p] = to]
  BY <1>1 DEF Rename, Goes
<1>3. kind[p] = "config" => outdated' = outdated \cup {q \in Commands \ {p} : Saves(q) /\ Active(q)}
  BY <1>1 DEF Rename
<1>4. UNCHANGED <<kind, text>>
  BY DEF Rename
<1>5. at'[p] \in {"exit0", "exit1"} /\ \A q \in Commands \ {p} : at'[q] = at[q]
  BY <1>2 DEF IInv, TypeOK
<1>6. QED
  BY <1>3, <1>4, <1>5

\* What a setup has loaded stays the token in the file, or the setup is outdated.
LEMMA TokenNext == IInv /\ [Next]_vars => (~crossed' /\ ~StaleSave' => \A q \in Commands \ outdated' : TokenOf(q)')
<1> SUFFICES ASSUME IInv, [Next]_vars, ~crossed', ~StaleSave', NEW q \in
                    Commands \ outdated'
             PROVE  TokenOf(q)'
  OBVIOUS
<1>0. ~crossed /\ ~StaleSave /\ q \in Commands \ outdated
  BY HistoryStep, NoStaleBefore
<1> USE StoreAssumption
      DEF IInv, TypeOK, StoreTypeOK, Goes, Saves, Active, StepsOfKind,
          StepOfKind, LoadSteps, SaveSteps, StartSteps, DockerSteps, Ended,
          TokensAgree, TokenOf
<1>1. ASSUME NEW p \in Commands, Rename(p), Replaces(p) PROVE TokenOf(q)'
  <2>1. TokenOf(q)
    BY <1>0
  <2>2. CASE q = p
    BY <1>1, <2>2, RenameStep
  <2>3. CASE q # p
    <3>1. at'[q] = at[q] /\ kind' = kind /\ text' = text
      BY <1>1, <2>3, RenameStep
    <3>2. CASE kind[p] = "config"
      <4>1. kind[q] = "setup" => ~Active(q)
        BY <1>1, <2>3, <3>2, RenameStep DEF Saves
      <4>2. QED
        BY <3>1, <4>1
    <3>3. CASE kind[p] # "config"
      <4>1. entered' = entered
        BY <1>1, <3>3 DEF Replaces
      <4>2. QED
        BY <2>1, <3>1, <4>1
    <3>4. QED
      BY <3>2, <3>3
  <2>4. QED
    BY <2>2, <2>3
<1>2. ASSUME NEW p \in Commands, Reads(p), Keeps PROVE TokenOf(q)'
  <2>1. TokenOf(q) /\ Current.token = entered /\ entered' = entered
    BY <1>0, <1>2 DEF Keeps
  <2>2. CASE q = p
    <3>1. text'[q] = Current
      BY <1>2, <2>2 DEF Reads
    <3>2. QED
      BY <2>1, <3>1
  <2>3. CASE q # p
    <3>1. text'[q] = text[q] /\ at'[q] = at[q] /\ kind' = kind
      BY <1>2, <2>3 DEF Reads
    <3>2. QED
      BY <2>1, <3>1
  <2>4. QED
    BY <2>2, <2>3
<1>3. ASSUME NEW p \in Commands, TakeKey(p, "loadKey", "loadCut", "decrypt"), Keeps PROVE TokenOf(q)'
  BY <1>0, <1>3 DEF TakeKey, Keeps
<1>4. ASSUME NEW p \in Commands, WriteKey(p, "loadCut", "decrypt"), Keeps PROVE TokenOf(q)'
  BY <1>0, <1>4 DEF WriteKey, Keeps
<1>5. ASSUME NEW p \in Commands, Decrypt(p), Keeps PROVE TokenOf(q)'
  BY <1>0, <1>5 DEF Decrypt, Opens, Keeps
<1>6. ASSUME NEW p \in Commands, Begins(p), Keeps PROVE TokenOf(q)'
  BY <1>0, <1>6 DEF Begins, Keeps
<1>7. ASSUME NEW p \in Commands, TakeKey(p, "saveKey", "saveCut", "seal"), Keeps PROVE TokenOf(q)'
  BY <1>0, <1>7 DEF TakeKey, Keeps
<1>8. ASSUME NEW p \in Commands, WriteKey(p, "saveCut", "seal"), Keeps PROVE TokenOf(q)'
  BY <1>0, <1>8 DEF WriteKey, Keeps
<1>9. ASSUME NEW p \in Commands, OpenTmp(p), Keeps PROVE TokenOf(q)'
  BY <1>0, <1>9 DEF OpenTmp, Keeps
<1>10. ASSUME NEW p \in Commands, WriteTmp(p), Keeps PROVE TokenOf(q)'
  BY <1>0, <1>10 DEF WriteTmp, Keeps
<1>11. ASSUME NEW p \in Commands, Killed(p), Keeps PROVE TokenOf(q)'
  BY <1>0, <1>11 DEF Killed, Keeps
<1>12. ASSUME NEW p \in Commands, Elsewhere(p), Keeps PROVE TokenOf(q)'
  BY <1>0, <1>12 DEF Elsewhere, Keeps
<1>13. CASE UNCHANGED storeVars
  BY <1>0, <1>13 DEF storeVars, Current
<1>14. QED
  BY <1>1, <1>2, <1>3, <1>4, <1>5, <1>6, <1>7, <1>8, <1>9, <1>10, <1>11,
     <1>12, <1>13, StoreForms, FileStep DEF StoreForm

\* The token in the file changes with ebl config and with stale saves only.
LEMMA TokensNext == IInv /\ [Next]_vars => TokensAgree'
<1> SUFFICES ASSUME IInv, [Next]_vars, ~crossed', ~StaleSave' PROVE (Current.token = entered)'
  BY TokenNext DEF TokensAgree
<1>0. ~crossed /\ ~StaleSave
  BY HistoryStep, NoStaleBefore
<1>1. ASSUME NEW p \in Commands, Rename(p) PROVE (Current.token = entered)'
  <2>1. Replaces(p)
    BY <1>1, FileStep
  <2>2. CASE kind[p] = "config"
    BY <2>1, <2>2 DEF Replaces
  <2>3. CASE kind[p] = "setup"
    <3>1. p \notin outdated
      <4>1. at'[p] \in {"exit0", "exit1"}
        BY <1>1, RenameStep
      <4>2. QED
        BY <4>1, HistoryStep DEF StaleSave
    <3>2. text[p].token = entered
      BY <1>0, <2>1, <2>3, <3>1 DEF IInv, TokensAgree, TokenOf, SaveSteps, Replaces
    <3>3. QED
      BY <2>1, <2>3, <3>2 DEF Replaces
  <2>4. QED
    BY <2>1, <2>2, <2>3 DEF Replaces, Saves
<1>2. CASE \A p \in Commands : ~Rename(p)
  BY <1>0, <1>2, FileStep DEF Keeps, IInv, TokensAgree
<1>3. QED
  BY <1>1, <1>2

\* A key is generated only while there is no config.json.
LEMMA KeyNext == IInv /\ [Next]_vars => (~overlapped' /\ ~damaged' => \A q \in Commands : KeyOf(q)')
<1> SUFFICES ASSUME IInv, [Next]_vars, ~overlapped', ~damaged', NEW q \in
                    Commands
             PROVE  KeyOf(q)'
  OBVIOUS
<1>0. ~overlapped /\ ~damaged
  BY HistoryStep
<1> USE StoreAssumption
      DEF IInv, TypeOK, StoreTypeOK, Goes, OneSaver, Saves, Active,
          StepsOfKind, StepOfKind, LoadSteps, SaveSteps, StartSteps,
          DockerSteps, Ended, KeysAgree, KeyOf
<1>1. ASSUME NEW p \in Commands, Rename(p), Replaces(p) PROVE KeyOf(q)'
  BY <1>0, <1>1 DEF Rename, Replaces
<1>2. ASSUME NEW p \in Commands, Reads(p), Keeps PROVE KeyOf(q)'
  <2>1. Current.form = "whole" => configFile # None
    BY TextTypes DEF Current
  <2>2. configFile # None => machineKey # 0 /\ machineKey = Current.key
    BY <1>0
  <2>3. KeyOf(q)
    BY <1>0
  <2>4. CASE q = p
    BY <1>2, <2>1, <2>2, <2>4 DEF Reads, Keeps
  <2>5. CASE q # p
    BY <1>2, <2>3, <2>5 DEF Reads, Keeps
  <2>6. QED
    BY <2>4, <2>5
<1>3. ASSUME NEW p \in Commands, TakeKey(p, "loadKey", "loadCut", "decrypt"), Keeps PROVE KeyOf(q)'
  BY <1>0, <1>3 DEF TakeKey, Keeps
<1>4. ASSUME NEW p \in Commands, WriteKey(p, "loadCut", "decrypt"), Keeps PROVE KeyOf(q)'
  BY <1>0, <1>4 DEF WriteKey, Keeps
<1>5. ASSUME NEW p \in Commands, Decrypt(p), Keeps PROVE KeyOf(q)'
  BY <1>0, <1>5 DEF Decrypt, Opens, Keeps
<1>6. ASSUME NEW p \in Commands, Begins(p), Keeps PROVE KeyOf(q)'
  BY <1>0, <1>6 DEF Begins, Keeps
<1>7. ASSUME NEW p \in Commands, TakeKey(p, "saveKey", "saveCut", "seal"), Keeps PROVE KeyOf(q)'
  BY <1>0, <1>7 DEF TakeKey, Keeps
<1>8. ASSUME NEW p \in Commands, WriteKey(p, "saveCut", "seal"), Keeps PROVE KeyOf(q)'
  BY <1>0, <1>8 DEF WriteKey, Keeps
<1>9. ASSUME NEW p \in Commands, OpenTmp(p), Keeps PROVE KeyOf(q)'
  BY <1>0, <1>9 DEF OpenTmp, Keeps
<1>10. ASSUME NEW p \in Commands, WriteTmp(p), Keeps PROVE KeyOf(q)'
  BY <1>0, <1>10 DEF WriteTmp, Keeps
<1>11. ASSUME NEW p \in Commands, Killed(p), Keeps PROVE KeyOf(q)'
  BY <1>0, <1>11 DEF Killed, Keeps
<1>12. ASSUME NEW p \in Commands, Elsewhere(p), Keeps PROVE KeyOf(q)'
  BY <1>0, <1>12 DEF Elsewhere, Keeps
<1>13. CASE UNCHANGED storeVars
  BY <1>0, <1>13 DEF storeVars, Current
<1>14. QED
  BY <1>1, <1>2, <1>3, <1>4, <1>5, <1>6, <1>7, <1>8, <1>9, <1>10, <1>11,
     <1>12, <1>13, StoreForms, FileStep DEF StoreForm

\* ... so that the key that has sealed config.json stays.
LEMMA KeyStays == IInv /\ [Next]_vars => (~overlapped' /\ ~damaged' /\ configFile' # None => machineKey' # 0 /\ machineKey' = Current'.key)
<1> SUFFICES ASSUME IInv, [Next]_vars, ~overlapped', ~damaged', configFile' #
                    None
             PROVE  machineKey' # 0 /\ machineKey' = Current'.key
  OBVIOUS
<1>0. ~overlapped /\ ~damaged
  BY HistoryStep
<1> USE StoreAssumption
      DEF IInv, TypeOK, StoreTypeOK, Goes, OneSaver, Saves, Active,
          StepsOfKind, StepOfKind, LoadSteps, SaveSteps, StartSteps,
          DockerSteps, Ended, KeysAgree, KeyOf
<1>1. ASSUME NEW p \in Commands, Rename(p), Replaces(p) PROVE machineKey' # 0 /\ machineKey' = Current'.key
  BY <1>0, <1>1 DEF Rename, Replaces
<1>2. ASSUME NEW p \in Commands, Reads(p), Keeps PROVE machineKey' # 0 /\ machineKey' = Current'.key
  BY <1>0, <1>2 DEF Reads, Keeps
<1>3. ASSUME NEW p \in Commands, TakeKey(p, "loadKey", "loadCut", "decrypt"), Keeps PROVE machineKey' # 0 /\ machineKey' = Current'.key
  BY <1>0, <1>3 DEF TakeKey, Keeps
<1>4. ASSUME NEW p \in Commands, WriteKey(p, "loadCut", "decrypt"), Keeps PROVE machineKey' # 0 /\ machineKey' = Current'.key
  BY <1>0, <1>4 DEF WriteKey, Keeps
<1>5. ASSUME NEW p \in Commands, Decrypt(p), Keeps PROVE machineKey' # 0 /\ machineKey' = Current'.key
  BY <1>0, <1>5 DEF Decrypt, Opens, Keeps
<1>6. ASSUME NEW p \in Commands, Begins(p), Keeps PROVE machineKey' # 0 /\ machineKey' = Current'.key
  BY <1>0, <1>6 DEF Begins, Keeps
<1>7. ASSUME NEW p \in Commands, TakeKey(p, "saveKey", "saveCut", "seal"), Keeps PROVE machineKey' # 0 /\ machineKey' = Current'.key
  BY <1>0, <1>7 DEF TakeKey, Keeps
<1>8. ASSUME NEW p \in Commands, WriteKey(p, "saveCut", "seal"), Keeps PROVE machineKey' # 0 /\ machineKey' = Current'.key
  BY <1>0, <1>8 DEF WriteKey, Keeps
<1>9. ASSUME NEW p \in Commands, OpenTmp(p), Keeps PROVE machineKey' # 0 /\ machineKey' = Current'.key
  BY <1>0, <1>9 DEF OpenTmp, Keeps
<1>10. ASSUME NEW p \in Commands, WriteTmp(p), Keeps PROVE machineKey' # 0 /\ machineKey' = Current'.key
  BY <1>0, <1>10 DEF WriteTmp, Keeps
<1>11. ASSUME NEW p \in Commands, Killed(p), Keeps PROVE machineKey' # 0 /\ machineKey' = Current'.key
  BY <1>0, <1>11 DEF Killed, Keeps
<1>12. ASSUME NEW p \in Commands, Elsewhere(p), Keeps PROVE machineKey' # 0 /\ machineKey' = Current'.key
  BY <1>0, <1>12 DEF Elsewhere, Keeps
<1>13. CASE UNCHANGED storeVars
  BY <1>0, <1>13 DEF storeVars, Current
<1>14. QED
  BY <1>1, <1>2, <1>3, <1>4, <1>5, <1>6, <1>7, <1>8, <1>9, <1>10, <1>11,
     <1>12, <1>13, StoreForms, FileStep DEF StoreForm

\* Both halves.
LEMMA KeysNext == IInv /\ [Next]_vars => KeysAgree'
  BY KeyNext, KeyStays DEF KeysAgree

\* What was sealed with machine.key is opened with it.
LEMMA LockedNext == IInv /\ [Next]_vars => NobodyLockedOut'
<1> SUFFICES ASSUME IInv, [Next]_vars, ~overlapped', ~damaged', NEW q \in
                    Commands
             PROVE  at'[q] # "locked"
  BY DEF NobodyLockedOut
<1>0. ~overlapped /\ ~damaged
  BY HistoryStep
<1> USE StoreAssumption
      DEF IInv, TypeOK, KeysAgree, KeyOf, NobodyLockedOut, Goes, DockerSteps,
          StartSteps
<1>1. ASSUME NEW p \in Commands, Reads(p) PROVE at'[q] # "locked"
  BY <1>1, <1>0 DEF Reads
<1>2. ASSUME NEW p \in Commands, TakeKey(p, "loadKey", "loadCut", "decrypt") PROVE at'[q] # "locked"
  BY <1>2, <1>0 DEF TakeKey
<1>3. ASSUME NEW p \in Commands, WriteKey(p, "loadCut", "decrypt") PROVE at'[q] # "locked"
  BY <1>3, <1>0 DEF WriteKey
<1>4. ASSUME NEW p \in Commands, Decrypt(p) PROVE at'[q] # "locked"
  BY <1>4, <1>0 DEF Decrypt, Opens
<1>5. ASSUME NEW p \in Commands, Begins(p) PROVE at'[q] # "locked"
  BY <1>5, <1>0 DEF Begins
<1>6. ASSUME NEW p \in Commands, TakeKey(p, "saveKey", "saveCut", "seal") PROVE at'[q] # "locked"
  BY <1>6, <1>0 DEF TakeKey
<1>7. ASSUME NEW p \in Commands, WriteKey(p, "saveCut", "seal") PROVE at'[q] # "locked"
  BY <1>7, <1>0 DEF WriteKey
<1>8. ASSUME NEW p \in Commands, OpenTmp(p) PROVE at'[q] # "locked"
  BY <1>8, <1>0 DEF OpenTmp
<1>9. ASSUME NEW p \in Commands, WriteTmp(p) PROVE at'[q] # "locked"
  BY <1>9, <1>0 DEF WriteTmp
<1>10. ASSUME NEW p \in Commands, Rename(p) PROVE at'[q] # "locked"
  BY <1>10, <1>0 DEF Rename
<1>11. ASSUME NEW p \in Commands, Killed(p) PROVE at'[q] # "locked"
  BY <1>11, <1>0 DEF Killed
<1>12. ASSUME NEW p \in Commands, Elsewhere(p) PROVE at'[q] # "locked"
  BY <1>12, <1>0 DEF Elsewhere
<1>13. CASE UNCHANGED storeVars
  BY <1>13 DEF storeVars
<1>14. QED
  BY <1>1, <1>2, <1>3, <1>4, <1>5, <1>6, <1>7, <1>8, <1>9, <1>10, <1>11,
     <1>12, <1>13, StoreForms DEF StoreForm

\* What commands have loaded keeps the master key of the file.
LEMMA MasterNext == IInv /\ [Next]_vars => (~overlapped' => \A q \in Commands : MasterOf(q)')
<1> SUFFICES ASSUME IInv, [Next]_vars, ~overlapped', NEW q \in Commands
             PROVE  MasterOf(q)'
  OBVIOUS
<1>0. ~overlapped
  BY HistoryStep
<1> USE StoreAssumption
      DEF IInv, TypeOK, StoreTypeOK, Goes, OneSaver, Saves, Active,
          StepsOfKind, StepOfKind, LoadSteps, SaveSteps, StartSteps,
          DockerSteps, Ended, MastersAgree, MasterOf
<1>1. ASSUME NEW p \in Commands, Rename(p), Replaces(p) PROVE MasterOf(q)'
  BY <1>0, <1>1 DEF Rename, Replaces
<1>2. ASSUME NEW p \in Commands, Reads(p), Keeps PROVE MasterOf(q)'
  <2>1. Current.form = "whole" => configFile # None
    BY TextTypes DEF Current
  <2>2. MasterOf(q)
    BY <1>0
  <2>3. CASE q = p
    <3>1. text'[q] = Current /\ kind' = kind
      BY <1>2, <2>3 DEF Reads
    <3>2. at'[q] \notin SaveSteps /\ (kind[q] = "start" /\ at'[q] \notin Ended => Current.form = "whole")
      BY <1>2, <2>3 DEF Reads
    <3>3. QED
      BY <1>2, <2>1, <3>1, <3>2 DEF Keeps
  <2>4. CASE q # p
    BY <1>2, <2>2, <2>4 DEF Reads, Keeps
  <2>5. QED
    BY <2>3, <2>4
<1>3. ASSUME NEW p \in Commands, TakeKey(p, "loadKey", "loadCut", "decrypt"), Keeps PROVE MasterOf(q)'
  BY <1>0, <1>3 DEF TakeKey, Keeps
<1>4. ASSUME NEW p \in Commands, WriteKey(p, "loadCut", "decrypt"), Keeps PROVE MasterOf(q)'
  BY <1>0, <1>4 DEF WriteKey, Keeps
<1>5. ASSUME NEW p \in Commands, Decrypt(p), Keeps PROVE MasterOf(q)'
  BY <1>0, <1>5 DEF Decrypt, Opens, Keeps
<1>6. ASSUME NEW p \in Commands, Begins(p), Keeps PROVE MasterOf(q)'
  BY <1>0, <1>6 DEF Begins, Keeps
<1>7. ASSUME NEW p \in Commands, TakeKey(p, "saveKey", "saveCut", "seal"), Keeps PROVE MasterOf(q)'
  BY <1>0, <1>7 DEF TakeKey, Keeps
<1>8. ASSUME NEW p \in Commands, WriteKey(p, "saveCut", "seal"), Keeps PROVE MasterOf(q)'
  BY <1>0, <1>8 DEF WriteKey, Keeps
<1>9. ASSUME NEW p \in Commands, OpenTmp(p), Keeps PROVE MasterOf(q)'
  BY <1>0, <1>9 DEF OpenTmp, Keeps
<1>10. ASSUME NEW p \in Commands, WriteTmp(p), Keeps PROVE MasterOf(q)'
  BY <1>0, <1>10 DEF WriteTmp, Keeps
<1>11. ASSUME NEW p \in Commands, Killed(p), Keeps PROVE MasterOf(q)'
  BY <1>0, <1>11 DEF Killed, Keeps
<1>12. ASSUME NEW p \in Commands, Elsewhere(p), Keeps PROVE MasterOf(q)'
  BY <1>0, <1>12 DEF Elsewhere, Keeps
<1>13. CASE UNCHANGED storeVars
  BY <1>0, <1>13 DEF storeVars, Current
<1>14. QED
  BY <1>1, <1>2, <1>3, <1>4, <1>5, <1>6, <1>7, <1>8, <1>9, <1>10, <1>11,
     <1>12, <1>13, StoreForms, FileStep DEF StoreForm

\* The master key never changes once it is in config.json.
LEMMA MasterKept ==
    IInv /\ [Next]_vars /\ ~overlapped' =>
        /\ configFile # None => configFile' # None /\ Current'.master = Current.master
        /\ configFile' # None => Current'.master # 0
<1> SUFFICES ASSUME IInv, [Next]_vars, ~overlapped'
             PROVE  /\ configFile # None => configFile' # None /\ Current'.master = Current.master
                    /\ configFile' # None => Current'.master # 0
  OBVIOUS
<1>0. ~overlapped
  BY HistoryStep
<1>1. ASSUME NEW p \in Commands, Rename(p)
      PROVE  /\ configFile # None => configFile' # None /\ Current'.master = Current.master
             /\ configFile' # None => Current'.master # 0
  BY <1>0, <1>1, FileStep DEF Replaces, IInv, MastersAgree, MasterOf, Active, Ended, SaveSteps
<1>2. CASE \A p \in Commands : ~Rename(p)
  BY <1>0, <1>2, FileStep DEF Keeps, IInv, MastersAgree
<1>3. QED
  BY <1>1, <1>2

\* Both halves.
LEMMA MastersNext == IInv /\ [Next]_vars => MastersAgree'
  BY MasterNext, MasterKept DEF MastersAgree

\* Containers and volume are given the master key of the file.
LEMMA ServicesNext == IInv /\ [Next]_vars => ServicesAgree'
<1> SUFFICES ASSUME IInv, [Next]_vars, ~overlapped'
             PROVE  ServicesAgree'
  BY DEF ServicesAgree
<1>0. ~overlapped
  BY HistoryStep
<1> USE StoreAssumption
      DEF IInv, TypeOK, ServicesAgree, MastersAgree, MasterOf, StepsOfKind,
          StepOfKind, Active, Ended, StartSteps, NoContainer, Names, Goes,
          Moves
<1>1. ASSUME NEW p \in Commands, Aside(p) PROVE ServicesAgree'
  BY <1>1, <1>0, MasterKept DEF Aside
<1>2. ASSUME NEW p \in Commands, StopBegins(p) PROVE ServicesAgree'
  BY <1>2, <1>0, MasterKept DEF StopBegins
<1>3. ASSUME NEW p \in Commands, StartBegins(p) PROVE ServicesAgree'
  BY <1>3, <1>0, MasterKept DEF StartBegins
<1>4. ASSUME NEW p \in Commands, EnsureServiceImages(p) PROVE ServicesAgree'
  BY <1>4, <1>0, MasterKept DEF EnsureServiceImages, Pulls
<1>5. ASSUME NEW p \in Commands, Find(p) PROVE ServicesAgree'
  BY <1>5, <1>0, MasterKept DEF Find, AfterRemoval
<1>6. ASSUME NEW p \in Commands, Remove(p) PROVE ServicesAgree'
  BY <1>6, <1>0, MasterKept DEF Remove, AfterRemoval
<1>7. ASSUME NEW p \in Commands, CheckNetwork(p) PROVE ServicesAgree'
  BY <1>7, <1>0, MasterKept DEF CheckNetwork, dockerVars
<1>8. ASSUME NEW p \in Commands, CreateNetwork(p) PROVE ServicesAgree'
  BY <1>8, <1>0, MasterKept DEF CreateNetwork
<1>9. ASSUME NEW p \in Commands, CreateService(p) PROVE ServicesAgree'
  BY <1>9, <1>0, MasterKept DEF CreateService
<1>10. ASSUME NEW p \in Commands, StartService(p) PROVE ServicesAgree'
  BY <1>10, <1>0, MasterKept DEF StartService
<1>11. ASSUME NEW p \in Commands, StartFindsNothing(p) PROVE ServicesAgree'
  BY <1>11, <1>0, MasterKept DEF StartFindsNothing, dockerVars
<1>12. ASSUME NEW p \in Commands, RequestFails(p) PROVE ServicesAgree'
  BY <1>12, <1>0, MasterKept DEF RequestFails
<1>13. ASSUME NEW p \in Commands, Health(p) PROVE ServicesAgree'
  BY <1>13, <1>0, MasterKept DEF Health
<1>14. CASE UNCHANGED vars
  BY <1>14, <1>0, MasterKept DEF vars, dockerVars
<1>15. QED
  BY <1>1, <1>2, <1>3, <1>4, <1>5, <1>6, <1>7, <1>8, <1>9, <1>10, <1>11,
     <1>12, <1>13, <1>14, DockerForms DEF DockerForm

\* Only what was created is started.
LEMMA RunningNext == IInv /\ [Next]_vars => RunningIsThere'
<1> SUFFICES ASSUME IInv, [Next]_vars
             PROVE  RunningIsThere'
  OBVIOUS
<1> USE StoreAssumption
      DEF IInv, TypeOK, RunningIsThere, NoContainer, Containers, Names, Goes,
          Moves
<1>1. ASSUME NEW p \in Commands, Aside(p) PROVE RunningIsThere'
  BY <1>1 DEF Aside
<1>2. ASSUME NEW p \in Commands, StopBegins(p) PROVE RunningIsThere'
  BY <1>2 DEF StopBegins
<1>3. ASSUME NEW p \in Commands, StartBegins(p) PROVE RunningIsThere'
  BY <1>3 DEF StartBegins
<1>4. ASSUME NEW p \in Commands, EnsureServiceImages(p) PROVE RunningIsThere'
  BY <1>4 DEF EnsureServiceImages, Pulls
<1>5. ASSUME NEW p \in Commands, Find(p) PROVE RunningIsThere'
  BY <1>5 DEF Find, AfterRemoval
<1>6. ASSUME NEW p \in Commands, Remove(p) PROVE RunningIsThere'
  BY <1>6 DEF Remove, AfterRemoval
<1>7. ASSUME NEW p \in Commands, CheckNetwork(p) PROVE RunningIsThere'
  BY <1>7 DEF CheckNetwork, dockerVars
<1>8. ASSUME NEW p \in Commands, CreateNetwork(p) PROVE RunningIsThere'
  BY <1>8 DEF CreateNetwork
<1>9. ASSUME NEW p \in Commands, CreateService(p) PROVE RunningIsThere'
  BY <1>9 DEF CreateService
<1>10. ASSUME NEW p \in Commands, StartService(p) PROVE RunningIsThere'
  BY <1>10 DEF StartService
<1>11. ASSUME NEW p \in Commands, StartFindsNothing(p) PROVE RunningIsThere'
  BY <1>11 DEF StartFindsNothing, dockerVars
<1>12. ASSUME NEW p \in Commands, RequestFails(p) PROVE RunningIsThere'
  BY <1>12 DEF RequestFails
<1>13. ASSUME NEW p \in Commands, Health(p) PROVE RunningIsThere'
  BY <1>13 DEF Health
<1>14. CASE UNCHANGED vars
  BY <1>14 DEF vars, dockerVars
<1>15. QED
  BY <1>1, <1>2, <1>3, <1>4, <1>5, <1>6, <1>7, <1>8, <1>9, <1>10, <1>11,
     <1>12, <1>13, <1>14, DockerForms DEF DockerForm

\* A second start or stop sets `contended` when it begins.
LEMMA OneUserNext == IInv /\ [Next]_vars => OneUser'
<1> SUFFICES ASSUME IInv, [Next]_vars, ~contended', NEW q1 \in Commands, NEW
                    q2 \in Commands, at'[q1] \in DockerSteps, at'[q2] \in
                    DockerSteps
             PROVE  q1 = q2
  BY DEF OneUser
<1>0. ~contended
  BY HistoryStep
<1> USE StoreAssumption
      DEF IInv, TypeOK, OneUser, StepsOfKind, StepOfKind, Active, Goes, Moves,
          LoadSteps, SaveSteps, StartSteps, DockerSteps, Ended
<1>1. ASSUME NEW p \in Commands, Aside(p) PROVE q1 = q2
  BY <1>1, <1>0 DEF Aside
<1>2. ASSUME NEW p \in Commands, StopBegins(p) PROVE q1 = q2
  <2>1. contended' = (contended \/ Contends(p))
    BY <1>2 DEF StopBegins
  <2>2. ~Contends(p)
    <3> HIDE DEF Contends
    <3>1. QED
      BY <2>1, Zenon
  <2>3. \A q \in Commands \ {p} : at[q] \notin DockerSteps
    BY <2>2 DEF Contends
  <2>4. \A q \in Commands \ {p} : at'[q] = at[q]
    BY <1>2 DEF StopBegins
  <2>5. QED
    BY <2>3, <2>4
<1>3. ASSUME NEW p \in Commands, StartBegins(p) PROVE q1 = q2
  <2>1. contended' = (contended \/ Contends(p))
    BY <1>3 DEF StartBegins
  <2>2. ~Contends(p)
    <3> HIDE DEF Contends
    <3>1. QED
      BY <2>1, Zenon
  <2>3. \A q \in Commands \ {p} : at[q] \notin DockerSteps
    BY <2>2 DEF Contends
  <2>4. \A q \in Commands \ {p} : at'[q] = at[q]
    BY <1>3 DEF StartBegins
  <2>5. QED
    BY <2>3, <2>4
<1>4. ASSUME NEW p \in Commands, EnsureServiceImages(p) PROVE q1 = q2
  BY <1>4, <1>0 DEF EnsureServiceImages, Pulls
<1>5. ASSUME NEW p \in Commands, Find(p) PROVE q1 = q2
  BY <1>5, <1>0 DEF Find, AfterRemoval
<1>6. ASSUME NEW p \in Commands, Remove(p) PROVE q1 = q2
  BY <1>6, <1>0 DEF Remove, AfterRemoval
<1>7. ASSUME NEW p \in Commands, CheckNetwork(p) PROVE q1 = q2
  BY <1>7, <1>0 DEF CheckNetwork, dockerVars
<1>8. ASSUME NEW p \in Commands, CreateNetwork(p) PROVE q1 = q2
  BY <1>8, <1>0 DEF CreateNetwork
<1>9. ASSUME NEW p \in Commands, CreateService(p) PROVE q1 = q2
  BY <1>9, <1>0 DEF CreateService
<1>10. ASSUME NEW p \in Commands, StartService(p) PROVE q1 = q2
  BY <1>10, <1>0 DEF StartService
<1>11. ASSUME NEW p \in Commands, StartFindsNothing(p) PROVE q1 = q2
  BY <1>11, <1>0 DEF StartFindsNothing, dockerVars
<1>12. ASSUME NEW p \in Commands, RequestFails(p) PROVE q1 = q2
  BY <1>12, <1>0 DEF RequestFails
<1>13. ASSUME NEW p \in Commands, Health(p) PROVE q1 = q2
  BY <1>13, <1>0 DEF Health
<1>14. CASE UNCHANGED vars
  BY <1>14, <1>0 DEF vars, storeVars
<1>15. QED
  BY <1>1, <1>2, <1>3, <1>4, <1>5, <1>6, <1>7, <1>8, <1>9, <1>10, <1>11,
     <1>12, <1>13, <1>14, DockerForms DEF DockerForm

\* Nobody else changes what a lone start has seen.
LEMMA PlacesNext == IInv /\ [Next]_vars => PlacesHold'
<1> SUFFICES ASSUME IInv, [Next]_vars, ~contended', NEW q \in Commands
             PROVE  PlaceOf(q)'
  BY DEF PlacesHold
<1>0. ~contended
  BY HistoryStep
<1> USE StoreAssumption
      DEF IInv, TypeOK, OneUser, PlacesHold, PlaceOf, StepsOfKind, StepOfKind,
          NoContainer, Names, Saves, Goes, Moves, LoadSteps, SaveSteps,
          StartSteps, DockerSteps, Ended
<1>1. ASSUME NEW p \in Commands, Aside(p) PROVE PlaceOf(q)'
  BY <1>1, <1>0 DEF Aside
<1>2. ASSUME NEW p \in Commands, StopBegins(p) PROVE PlaceOf(q)'
  BY <1>2, <1>0 DEF StopBegins
<1>3. ASSUME NEW p \in Commands, StartBegins(p) PROVE PlaceOf(q)'
  BY <1>3, <1>0 DEF StartBegins
<1>4. ASSUME NEW p \in Commands, EnsureServiceImages(p) PROVE PlaceOf(q)'
  BY <1>4, <1>0 DEF EnsureServiceImages, Pulls
<1>5. ASSUME NEW p \in Commands, Find(p) PROVE PlaceOf(q)'
  BY <1>5, <1>0 DEF Find, AfterRemoval
<1>6. ASSUME NEW p \in Commands, Remove(p) PROVE PlaceOf(q)'
  BY <1>6, <1>0 DEF Remove, AfterRemoval
<1>7. ASSUME NEW p \in Commands, CheckNetwork(p) PROVE PlaceOf(q)'
  BY <1>7, <1>0 DEF CheckNetwork, dockerVars
<1>8. ASSUME NEW p \in Commands, CreateNetwork(p) PROVE PlaceOf(q)'
  BY <1>8, <1>0 DEF CreateNetwork
<1>9. ASSUME NEW p \in Commands, CreateService(p) PROVE PlaceOf(q)'
  BY <1>9, <1>0 DEF CreateService
<1>10. ASSUME NEW p \in Commands, StartService(p) PROVE PlaceOf(q)'
  BY <1>10, <1>0 DEF StartService
<1>11. ASSUME NEW p \in Commands, StartFindsNothing(p) PROVE PlaceOf(q)'
  BY <1>11, <1>0 DEF StartFindsNothing, dockerVars
<1>12. ASSUME NEW p \in Commands, RequestFails(p) PROVE PlaceOf(q)'
  BY <1>12, <1>0 DEF RequestFails
<1>13. ASSUME NEW p \in Commands, Health(p) PROVE PlaceOf(q)'
  BY <1>13, <1>0 DEF Health
<1>14. CASE UNCHANGED vars
  BY <1>14, <1>0 DEF vars, storeVars, dockerVars
<1>15. QED
  BY <1>1, <1>2, <1>3, <1>4, <1>5, <1>6, <1>7, <1>8, <1>9, <1>10, <1>11,
     <1>12, <1>13, <1>14, DockerForms DEF DockerForm

\* Every way to fail is excluded by what the start knows.
LEMMA LoneNext == IInv /\ [Next]_vars => LoneStartSucceeds'
<1> SUFFICES ASSUME IInv, [Next]_vars, ~contended', NEW q \in Commands, q
                    \notin faulty'
             PROVE  kind'[q] = "start" /\ at'[q] = "exit1" => ~text'[q].root
  BY DEF LoneStartSucceeds
<1>0. ~contended
  BY HistoryStep
<1> USE StoreAssumption
      DEF IInv, TypeOK, LoneStartSucceeds, PlacesHold, PlaceOf, Names, Goes,
          Moves, LoadSteps, SaveSteps, StartSteps, DockerSteps, Ended
<1>1. ASSUME NEW p \in Commands, Aside(p) PROVE kind'[q] = "start" /\ at'[q] = "exit1" => ~text'[q].root
  BY <1>1, <1>0 DEF Aside
<1>2. ASSUME NEW p \in Commands, StopBegins(p) PROVE kind'[q] = "start" /\ at'[q] = "exit1" => ~text'[q].root
  BY <1>2, <1>0 DEF StopBegins
<1>3. ASSUME NEW p \in Commands, StartBegins(p) PROVE kind'[q] = "start" /\ at'[q] = "exit1" => ~text'[q].root
  BY <1>3, <1>0 DEF StartBegins
<1>4. ASSUME NEW p \in Commands, EnsureServiceImages(p) PROVE kind'[q] = "start" /\ at'[q] = "exit1" => ~text'[q].root
  BY <1>4, <1>0 DEF EnsureServiceImages, Pulls
<1>5. ASSUME NEW p \in Commands, Find(p) PROVE kind'[q] = "start" /\ at'[q] = "exit1" => ~text'[q].root
  BY <1>5, <1>0 DEF Find, AfterRemoval
<1>6. ASSUME NEW p \in Commands, Remove(p) PROVE kind'[q] = "start" /\ at'[q] = "exit1" => ~text'[q].root
  BY <1>6, <1>0 DEF Remove, AfterRemoval
<1>7. ASSUME NEW p \in Commands, CheckNetwork(p) PROVE kind'[q] = "start" /\ at'[q] = "exit1" => ~text'[q].root
  BY <1>7, <1>0 DEF CheckNetwork, dockerVars
<1>8. ASSUME NEW p \in Commands, CreateNetwork(p) PROVE kind'[q] = "start" /\ at'[q] = "exit1" => ~text'[q].root
  BY <1>8, <1>0 DEF CreateNetwork
<1>9. ASSUME NEW p \in Commands, CreateService(p) PROVE kind'[q] = "start" /\ at'[q] = "exit1" => ~text'[q].root
  BY <1>9, <1>0 DEF CreateService
<1>10. ASSUME NEW p \in Commands, StartService(p) PROVE kind'[q] = "start" /\ at'[q] = "exit1" => ~text'[q].root
  BY <1>10, <1>0 DEF StartService
<1>11. ASSUME NEW p \in Commands, StartFindsNothing(p) PROVE kind'[q] = "start" /\ at'[q] = "exit1" => ~text'[q].root
  BY <1>11, <1>0 DEF StartFindsNothing, dockerVars
<1>12. ASSUME NEW p \in Commands, RequestFails(p) PROVE kind'[q] = "start" /\ at'[q] = "exit1" => ~text'[q].root
  BY <1>12, <1>0 DEF RequestFails
<1>13. ASSUME NEW p \in Commands, Health(p) PROVE kind'[q] = "start" /\ at'[q] = "exit1" => ~text'[q].root
  BY <1>13, <1>0 DEF Health
<1>14. CASE UNCHANGED vars
  BY <1>14, <1>0 DEF vars, storeVars, dockerVars
<1>15. QED
  BY <1>1, <1>2, <1>3, <1>4, <1>5, <1>6, <1>7, <1>8, <1>9, <1>10, <1>11,
     <1>12, <1>13, <1>14, DockerForms DEF DockerForm

-----------------------------------------------------------------------------
(* The invariant.                                                          *)

\* The initial states.
LEMMA InitIInv == Init => IInv
<1> SUFFICES ASSUME Init PROVE IInv
  OBVIOUS
<1> USE StoreAssumption DEF Init, StoreInit
<1> DEFINE earlier == [Text("whole") EXCEPT !.key = 1, !.master = 2, !.root = TRUE]
<1>0. /\ earlier \in Texts /\ earlier.form = "whole" /\ earlier.key = 1 /\ earlier.master = 2
      /\ earlier.token = None
  BY DEF Text, Texts
<1>a. content = [i \in Commands \cup {Earlier} |-> IF i = Earlier THEN earlier ELSE Text("empty")]
  OBVIOUS
<1> HIDE DEF earlier
<1>1. TypeOK
  <2>1. content \in [Commands \cup {Earlier} -> Texts]
    <3>1. Text("empty") \in Texts
      BY TextTypes
    <3>2. QED
      BY <1>0, <1>a, <3>1
  <2>2. StoreTypeOK
    <3>1. text \in [Commands -> Texts]
      BY TextTypes
    <3>2. key \in [Commands -> 0..made] /\ made \in Nat /\ machineKey \in 0..made
      OBVIOUS
    <3>3. fd \in [Commands -> Commands \cup {Earlier, None}]
      OBVIOUS
    <3>4. kind \in Casts /\ {configFile, tmpFile} \subseteq Commands \cup {Earlier, None}
            /\ (configFile = tmpFile => configFile = None)
      OBVIOUS
    <3>5. QED
      BY <2>1, <3>1, <3>2, <3>3, <3>4 DEF StoreTypeOK
  <2>3. service \in [Names -> Containers]
    BY DEF NoContainer, Containers
  <2>4. turn \in [Commands -> Names] /\ found \in [Commands -> Commands \cup {None}]
    BY DEF Names
  <2>5. QED
    BY <2>2, <2>3, <2>4 DEF TypeOK, Ended
<1>2. StepsOfKind /\ FreshInodes /\ EmptyIsBlank
  BY <1>0, <1>a DEF StepsOfKind, StepOfKind, FreshInodes, EmptyIsBlank, LoadSteps, SaveSteps,
                   StartSteps, Text
<1>3. OneSaver /\ OneWriter /\ CrossedIsOverlapped /\ TmpIsItsOwn /\ ConfigIsWhole
  BY <1>0, <1>a DEF OneSaver, OneWriter, Writes, CrossedIsOverlapped, TmpIsItsOwn, TmpOf, ConfigIsWhole, Active
<1>4. TokensAgree /\ KeysAgree /\ NobodyLockedOut
  BY <1>0, <1>a DEF TokensAgree, TokenOf, KeysAgree, KeyOf, NobodyLockedOut, Current, Text, LoadSteps, SaveSteps
<1>5. MastersAgree /\ ServicesAgree /\ RunningIsThere
  BY <1>0, <1>a DEF MastersAgree, MasterOf, ServicesAgree, RunningIsThere, Current, Active, NoContainer,
              Names, SaveSteps
<1>6. OneUser /\ PlacesHold /\ LoneStartSucceeds
  BY DEF OneUser, PlacesHold, PlaceOf, LoneStartSucceeds, DockerSteps, StartSteps, LoadSteps
<1>7. QED
  BY <1>1, <1>2, <1>3, <1>4, <1>5, <1>6 DEF IInv

\* Every step of every behaviour.
LEMMA Invariance == Spec => []IInv
<1>1. IInv /\ [Next]_vars => IInv'
  BY TypeNext, StepsNext, FreshNext, BlankNext, OneSaverNext, WriterNext, CrossedNext, TmpNext, WholeNext, TokensNext,
     KeysNext, LockedNext, MastersNext, ServicesNext, RunningNext, OneUserNext, PlacesNext,
     LoneNext DEF IInv
<1>2. QED
  BY InitIInv, <1>1, PTL DEF Spec

\* Types: config.json and config.json.tmp are never names of the same file.
THEOREM ServicesTypeCorrect == Spec => []TypeOK
<1>1. IInv => TypeOK
  BY DEF IInv
<1>2. QED
  BY Invariance, <1>1, PTL

\* atomicReplace: neither kills, full disks nor commands that run at the same time
\* leave a partial config.json, unless two of them had config.json.tmp open.
THEOREM ConfigStaysWhole == Spec => []ConfigIsWhole
<1>1. IInv => ConfigIsWhole
  BY DEF IInv
<1>2. QED
  BY Invariance, <1>1, PTL

\* loadOrCreateMachineKey: wherever commands are killed, machine.key still opens
\* config.json, unless two commands saved at once or a write of the key failed.
THEOREM KillsLockNobodyOut == Spec => []NobodyLockedOut
<1>1. IInv => NobodyLockedOut
  BY DEF IInv
<1>2. QED
  BY Invariance, <1>1, PTL

\* saveConfig: what the last ebl config saved is undone only by a command that had
\* loaded before it and saves after it, or by two writers of config.json.tmp.
THEOREM NoEditIsLost == Spec => []NoLostEdit
<1>1. IInv => NoLostEdit
  BY DEF IInv, TokensAgree, NoLostEdit, Current
<1>2. QED
  BY Invariance, <1>1, PTL

\* createServiceContainer: the orchestrator that runs was given the master key
\* its data volume is sealed with.
THEOREM KeystoresStayReadable == Spec => []KeystoresReadable
<1>1. IInv => KeystoresReadable
  BY DEF IInv, ServicesAgree, RunningIsThere, KeystoresReadable, Names
<1>2. QED
  BY Invariance, <1>1, PTL

\* ebl start alone, its requests answered, fails for want of a projects folder only.
THEOREM LoneStartsSucceed == Spec => []LoneStartSucceeds
<1>1. IInv => LoneStartSucceeds
  BY DEF IInv
<1>2. QED
  BY Invariance, <1>1, PTL

\* ebl start: "Everything's up." is said of the two containers it created itself.
THEOREM OnlineMeansItsOwn == Spec => OnlineIsItsOwn
<1> DEFINE OwnOf(q) ==
                 kind[q] = "start" /\ at[q] # "exit0" /\ at'[q] = "exit0" /\ ~contended' =>
                     \A n \in Names : service'[n].by = q /\ service'[n].up
<1>1. ASSUME IInv, [Next]_vars, NEW q \in Commands PROVE OwnOf(q)
  <2> USE StoreAssumption
        DEF IInv, TypeOK, PlacesHold, PlaceOf, Names, Goes, Moves, StepsOfKind,
            StepOfKind, LoadSteps, SaveSteps, StartSteps, DockerSteps, Ended
  <2>1. ASSUME NEW p \in Commands, Aside(p) PROVE OwnOf(q)
    BY <2>1 DEF Aside
  <2>2. ASSUME NEW p \in Commands, StopBegins(p) PROVE OwnOf(q)
    BY <2>2 DEF StopBegins
  <2>3. ASSUME NEW p \in Commands, StartBegins(p) PROVE OwnOf(q)
    BY <2>3 DEF StartBegins
  <2>4. ASSUME NEW p \in Commands, EnsureServiceImages(p) PROVE OwnOf(q)
    BY <2>4 DEF EnsureServiceImages, Pulls
  <2>5. ASSUME NEW p \in Commands, Find(p) PROVE OwnOf(q)
    BY <2>5 DEF Find, AfterRemoval
  <2>6. ASSUME NEW p \in Commands, Remove(p) PROVE OwnOf(q)
    BY <2>6 DEF Remove, AfterRemoval
  <2>7. ASSUME NEW p \in Commands, CheckNetwork(p) PROVE OwnOf(q)
    BY <2>7 DEF CheckNetwork, dockerVars
  <2>8. ASSUME NEW p \in Commands, CreateNetwork(p) PROVE OwnOf(q)
    BY <2>8 DEF CreateNetwork
  <2>9. ASSUME NEW p \in Commands, CreateService(p) PROVE OwnOf(q)
    BY <2>9 DEF CreateService
  <2>10. ASSUME NEW p \in Commands, StartService(p) PROVE OwnOf(q)
    BY <2>10 DEF StartService
  <2>11. ASSUME NEW p \in Commands, StartFindsNothing(p) PROVE OwnOf(q)
    BY <2>11 DEF StartFindsNothing, dockerVars
  <2>12. ASSUME NEW p \in Commands, RequestFails(p) PROVE OwnOf(q)
    BY <2>12 DEF RequestFails
  <2>13. ASSUME NEW p \in Commands, Health(p) PROVE OwnOf(q)
    <3>1. SUFFICES ASSUME kind[q] = "start", at[q] # "exit0", at'[q] = "exit0", ~contended
                   PROVE  \A n \in Names : service'[n].by = q /\ service'[n].up
      BY <1>1, HistoryStep
    <3>2. q = p /\ at[p] = "health" /\ service' = service
      BY <1>1, <2>13, <3>1 DEF Health
    <3>3. QED
      BY <1>1, <3>1, <3>2
  <2>14. CASE UNCHANGED vars
    BY <2>14 DEF vars, storeVars
  <2> HIDE DEF OwnOf
  <2>15. QED
    BY <2>1, <2>2, <2>3, <2>4, <2>5, <2>6, <2>7, <2>8, <2>9, <2>10, <2>11,
       <2>12, <2>13, <2>14, <1>1, DockerForms DEF DockerForm
<1>2. IInv /\ [Next]_vars => \A p \in Commands : OwnOf(p)
  BY <1>1
<1>3. QED
  BY Invariance, <1>2, PTL DEF Spec, OnlineIsItsOwn

=============================================================================
