------------------------ MODULE ClusterInstallProofs ------------------------
(***************************************************************************)
(* Proofs about the installation of a cluster (module ClusterInstall): the *)
(* first synchronization of the beta, and the numbers of the units.        *)
(*                                                                         *)
(* SuccessIsWhole is not inductive: the worker knows only an exit status.  *)
(* The strengthening follows what it stands for through the script: the    *)
(* file system is whole from the rsync on, a mark of success is a mirrored *)
(* /home, and the script the worker still listens to has cleared the marks *)
(* itself and has not gone on without a new one.                           *)
(*                                                                         *)
(* The settings file goes from the alpha's installer to the beta's, back   *)
(* to the alpha and through both GUIs.  What save() prints load() reads    *)
(* again if every value is one word (LoadPrinted); so a GUI's memory is    *)
(* the file's content (MemIsFile), every file can be shown (FilesShow),    *)
(* and until a click on Apply there are but two files, the alpha's and the *)
(* beta's (AsEntered).                                                     *)
(***************************************************************************)
EXTENDS ClusterInstall, SequenceTheorems, TLAPS

\* The worker's device exists while it waits for a script, and once one has succeeded.
DeviceExists == worker \in {"running", "success"} => device \in Dev

\* A mark of success stands for user data that have been mirrored.
MirrorIsMarked == "success" \in marks => home = "mirror"

\* From the end of its rsync on a script has a whole file system below it.
CopiedBefore ==
    \A d \in Dev : script[d] \in {"prepare", "poll", "stop", "success"} => root = "whole"

\* The script the worker listens to has waited for a mark, and a success is marked.
MarkedBefore ==
    \A d \in Dev : Piped(d) =>
        /\ script[d] = "stop" => marks # {}
        /\ script[d] = "success" => "success" \in marks

\* The worker's success is a script's.
SuccessIsAScripts ==
    worker = "success" => script[device] = "success" /\ "success" \in marks

SyncInv ==
    /\ SyncTypeOK
    /\ DeviceExists
    /\ MirrorIsMarked
    /\ CopiedBefore
    /\ MarkedBefore
    /\ SuccessIsAScripts

\* The steps of the synchronization, whatever the rest of the cluster does.
SyncNext ==
    \/ SyncStart
    \/ \E good \in BOOLEAN : Waitpid(good)
    \/ LineTooLong
    \/ \E d \in Dev : Fetched(d) \/ SyncScript(d)
    \/ SyncRestart
    \/ SyncReboot /\ UNCHANGED <<long, root, home>>

-----------------------------------------------------------------------------
LEMMA SyncInvHolds == SyncInv => SuccessIsWhole
  BY DEF SyncInv, DeviceExists, MirrorIsMarked, CopiedBefore, SuccessIsAScripts,
         SuccessIsWhole

LEMMA SyncInvInit == Init => SyncInv
  BY CableAssumption, PathAssumption
  DEF Init, SyncInit, SyncInv, SyncTypeOK, DeviceExists, MirrorIsMarked, CopiedBefore,
      MarkedBefore, SuccessIsAScripts, Piped, Exited, NoScript, NoLine, Dev

LEMMA SyncInvStutter == SyncInv /\ UNCHANGED syncVars => SyncInv'
  BY DEF syncVars, wireVars, workerVars, scriptVars, SyncInv, SyncTypeOK, DeviceExists,
         MirrorIsMarked, CopiedBefore, MarkedBefore, SuccessIsAScripts, Piped

-----------------------------------------------------------------------------
\* The loop of the worker: the device it turns to starts at the beginning.
LEMMA TurnToKeeps ==
  ASSUME SyncInv,
         NEW d \in 0 .. 2,
         TurnTo(d),
         worker \in {"none", "running"},
         unread' \in [Dev -> BOOLEAN],
         UNCHANGED <<wireVars, start, marks, address, root, home>>
  PROVE  SyncInv'
  BY DEF SyncInv, SyncTypeOK, DeviceExists, MirrorIsMarked, CopiedBefore, MarkedBefore,
         SuccessIsAScripts, Piped, TurnTo, Exited, wireVars, Dev

LEMMA SyncStartKeeps == SyncInv /\ SyncStart => SyncInv'
<1> SUFFICES ASSUME SyncInv, SyncStart
             PROVE  SyncInv'
  OBVIOUS
<1>1. unread' \in [Dev -> BOOLEAN]
  BY DEF SyncInv, SyncTypeOK, SyncStart
<1> QED
  BY <1>1, TurnToKeeps DEF SyncStart, wireVars

LEMMA LineTooLongKeeps == SyncInv /\ LineTooLong => SyncInv'
<1> SUFFICES ASSUME SyncInv, LineTooLong
             PROVE  SyncInv'
  OBVIOUS
<1>1. device + 1 \in 0 .. 2
  BY DEF SyncInv, DeviceExists, LineTooLong, Dev
<1>2. unread' \in [Dev -> BOOLEAN]
  BY DEF SyncInv, SyncTypeOK, LineTooLong
<1> QED
  BY <1>1, <1>2, TurnToKeeps DEF LineTooLong

LEMMA WaitpidKeeps ==
  ASSUME SyncInv, NEW good \in BOOLEAN, Waitpid(good)
  PROVE  SyncInv'
<1>1. device \in Dev /\ Piped(device)
  BY DEF SyncInv, DeviceExists, Waitpid, Piped
<1>2. CASE script[device] = "success"
  <2>1. "success" \in marks
    BY <1>1, <1>2 DEF SyncInv, MarkedBefore
  <2> QED
    BY <1>1, <1>2, <2>1
    DEF Waitpid, SyncInv, SyncTypeOK, DeviceExists, MirrorIsMarked, CopiedBefore,
        MarkedBefore, SuccessIsAScripts, Piped, wireVars
<1>3. CASE script[device] # "success"
  <2>1. device + 1 \in 0 .. 2
    BY <1>1 DEF Dev
  <2>2. unread' \in [Dev -> BOOLEAN]
    BY DEF SyncInv, SyncTypeOK, Waitpid
  <2> QED
    BY <1>3, <2>1, <2>2, TurnToKeeps DEF Waitpid, wireVars
<1> QED
  BY <1>2, <1>3

-----------------------------------------------------------------------------
\* The script: one step of it, whichever device it is for.
LEMMA ScriptKeeps ==
  ASSUME SyncInv, NEW d \in Dev, Fetched(d) \/ SyncScript(d)
  PROVE  SyncInv'
<1> USE DEF SyncInv, SyncTypeOK, DeviceExists, MirrorIsMarked, CopiedBefore, MarkedBefore,
            SuccessIsAScripts, Piped, Goes, Exited, wireVars, workerVars
<1>1. CASE Up(d)
  BY <1>1 DEF Up
<1>2. CASE Ping(d)
  BY <1>2 DEF Ping
<1>3. CASE Fetch(d)
  BY <1>3 DEF Fetch
<1>4. CASE Fetched(d)
  BY <1>4 DEF Fetched
<1>5. CASE FetchFails(d)
  BY <1>5 DEF FetchFails
<1>6. CASE Prepare(d)
  <2>1. CASE Goes(d, "poll") /\ marks' = {} /\ home' = "part"
             /\ start' = [start EXCEPT ![d] = "running"]
    BY <1>6, <2>1 DEF Prepare
  <2>2. CASE Goes(d, "failure") /\ marks' \in {marks, {}} /\ UNCHANGED <<start, home>>
    BY <1>6, <2>2 DEF Prepare
  <2> QED
    BY <1>6, <2>1, <2>2 DEF Prepare
<1>7. CASE DrbdStarted(d)
  BY <1>7 DEF DrbdStarted, Mark
<1>8. CASE Poll(d)
  BY <1>8 DEF Poll
<1>9. CASE Stop(d)
  <2>1. PICK status \in {"success", "failure"} : Goes(d, status)
                                              /\ (status = "success" => "failed" \notin marks)
    BY <1>9 DEF Stop, ExitStatus
  <2>2. script[d] = "stop" /\ Piped(d) /\ address' \subseteq address
        /\ UNCHANGED <<wireVars, workerVars, unread, start, marks, root, home>>
    BY <1>9 DEF Stop
  <2> QED
    BY <2>1, <2>2
<1>10. CASE BrokenPipe(d)
  BY <1>10 DEF BrokenPipe
<1> QED
  BY <1>1, <1>2, <1>3, <1>4, <1>5, <1>6, <1>7, <1>8, <1>9, <1>10 DEF SyncScript

\* A computer that boots runs neither the worker nor a script.
LEMMA RebootKeeps ==
  ASSUME SyncInv, SyncRestart \/ (SyncReboot /\ UNCHANGED <<long, root, home>>)
  PROVE  SyncInv'
<1>1. /\ worker' = "none" /\ device' = 0
      /\ script' = NoScript /\ unread' = NoLine /\ start' = NoScript
      /\ marks' = {} /\ address' = {} /\ cable' = cable
  BY DEF SyncRestart, SyncReboot
<1>2. /\ long' \in BOOLEAN
      /\ root' \in {"fresh", "part", "whole"}
      /\ home' \in {"fresh", "part", "mirror"}
  BY PathAssumption DEF SyncRestart, SyncInv, SyncTypeOK
<1>3. /\ script' \in [Dev -> {"none"}]
      /\ unread' \in [Dev -> BOOLEAN]
      /\ start' \in [Dev -> {"none"}]
  BY <1>1 DEF NoScript, NoLine
<1>4. SyncTypeOK'
  BY <1>1, <1>2, <1>3 DEF SyncInv, SyncTypeOK, Exited
<1> QED
  BY <1>1, <1>3, <1>4
  DEF SyncInv, DeviceExists, MirrorIsMarked, CopiedBefore, MarkedBefore, SuccessIsAScripts,
      Piped

LEMMA SyncInvNext == SyncInv /\ SyncNext => SyncInv'
  BY SyncStartKeeps, WaitpidKeeps, LineTooLongKeeps, ScriptKeeps, RebootKeeps DEF SyncNext

-----------------------------------------------------------------------------
\* Every step of the cluster is one of the synchronization, or leaves it alone.
LEMMA ClusterStep == [Next]_vars => SyncNext \/ UNCHANGED syncVars
<1> SUFFICES ASSUME [Next]_vars
             PROVE  SyncNext \/ UNCHANGED syncVars
  OBVIOUS
<1>1. CASE Script
  BY <1>1 DEF Script, Copied, SyncNext
<1>2. CASE Installer
  <2>1. ASSUME Reaped
        PROVE  SyncNext
    <3>1. PICK good \in BOOLEAN : good = (Scans(conf[2]) = TRUE)
      OBVIOUS
    <3> QED
      BY <2>1, <3>1 DEF Reaped, Waitpid, SyncNext
  <2> QED
    BY <1>2, <2>1
    DEF Installer, InstallAlpha, Sync, GivenUp, ConfigureBeta, FinalSync, BootBeta, SyncNext
<1>3. CASE Gui
  BY <1>3 DEF Gui, GuiStart, GuiStop, Edit, Cancel, Apply, Write
<1>4. CASE Restart
  BY <1>4 DEF Restart, SyncNext
<1>5. CASE UNCHANGED vars
  BY <1>5 DEF vars
<1> QED
  BY <1>1, <1>2, <1>3, <1>4, <1>5 DEF Next

\* sync_with_alpha() ends well only with all of the alpha's files and a mirrored /home
\* (SuccessIsWhole), whichever device the cable is in and whatever happens to the
\* scripts it has given up.
THEOREM SuccessesAreWhole == Spec => []SuccessIsWhole
<1>1. SyncInv /\ [Next]_vars => SyncInv'
  BY ClusterStep, SyncInvNext, SyncInvStutter
<1> QED
  BY SyncInvInit, <1>1, SyncInvHolds, PTL DEF Spec

-----------------------------------------------------------------------------
\* The numbers of both units, in their types.
Numbers ==
    /\ numbered \in [Unit -> SUBSET Unit]
    /\ link \in [Unit -> {0} \cup Unit]
    /\ EachItsOwn

LEMMA NumbersInit == Init => Numbers
  BY DEF Init, Numbers, EachItsOwn, Unit

LEMMA SetupKeeps ==
  ASSUME Numbers, NEW u \in Unit, NEW b, NEW file, SetupConfigs(u, b, file)
  PROVE  Numbers'
  BY DEF Numbers, EachItsOwn, SetupConfigs, Unit

LEMMA NumbersNext == Numbers /\ [Next]_vars => Numbers'
<1> SUFFICES ASSUME Numbers, [Next]_vars
             PROVE  Numbers'
  OBVIOUS
<1> USE DEF Numbers, EachItsOwn
<1>1. CASE UNCHANGED <<numbered, link>>
  BY <1>1
<1>2. CASE InstallAlpha
  BY <1>2, SetupKeeps DEF InstallAlpha, Unit
<1>3. CASE ConfigureBeta
  BY <1>3, SetupKeeps DEF ConfigureBeta, Unit
<1>4. ASSUME NEW d \in Dev, Copied(d)
      PROVE  Numbers'
  BY <1>4 DEF Copied, Excluded, Unit
<1>5. CASE FinalSync
  BY <1>5 DEF FinalSync, Excluded, Unit
<1>6. CASE Restart
  BY <1>6 DEF Restart, Unit
<1>7. CASE Script
  BY <1>1, <1>4, <1>7 DEF Script, clusterVars, unitVars
<1>8. CASE Sync \/ Reaped \/ GivenUp \/ BootBeta
  BY <1>1, <1>8 DEF Sync, Reaped, GivenUp, BootBeta, clusterVars, unitVars
<1>9. CASE Gui
  BY <1>1, <1>9 DEF Gui, GuiStart, GuiStop, Edit, Cancel, Apply, Write, unitVars
<1>10. CASE UNCHANGED vars
  BY <1>1, <1>10 DEF vars, clusterVars, unitVars
<1> QED
  BY <1>2, <1>3, <1>5, <1>6, <1>7, <1>8, <1>9, <1>10 DEF Next, Installer

\* No sync gives a unit the other's number, and its own files are there when it goes by
\* it (EachItsOwn).
THEOREM EachKeepsItsOwn == Spec => []EachItsOwn
<1>1. Numbers => EachItsOwn
  BY DEF Numbers
<1> QED
  BY NumbersInit, NumbersNext, <1>1, PTL DEF Spec
-----------------------------------------------------------------------------
\* The settings file: what is printed is read again, word by word.

\* There is one word in every field,
OneWord(v) == \A f \in Field : Len(v[f]) = 1

\* or in every field that is not a name.
OnlyNamesOdd(v) == \A f \in Field \ NameField : Len(v[f]) = 1

\* A file that is not empty and has all its words.
Whole(file) == file # Empty /\ \A l \in Line : Len(file[l]) = Len(SNAPPTIXCONF[l])

\* The lines, field by field.
LEMMA Lines ==
    /\ Line = 1 .. 7
    /\ SNAPPTIXCONF[1] = <<<<1, "host">>, <<1, "ip">>, <<1, "dev">>>>
    /\ SNAPPTIXCONF[2] = <<<<2, "host">>, <<2, "ip">>, <<2, "dev">>>>
    /\ SNAPPTIXCONF[3] = <<<<0, "name">>, <<0, "ip">>>>
    /\ SNAPPTIXCONF[4] = <<<<1, "subnet">>, <<2, "subnet">>>>
    /\ SNAPPTIXCONF[5] = <<<<1, "gateway">>, <<2, "gateway">>>>
    /\ SNAPPTIXCONF[6] = <<<<1, "dns1">>, <<2, "dns1">>>>
    /\ SNAPPTIXCONF[7] = <<<<1, "dns2">>, <<2, "dns2">>>>
  BY DEF Line, SNAPPTIXCONF

LEMMA LineLengths ==
    /\ Len(SNAPPTIXCONF[1]) = 3 /\ Len(SNAPPTIXCONF[2]) = 3 /\ Len(SNAPPTIXCONF[3]) = 2
    /\ \A l \in 4 .. 7 : Len(SNAPPTIXCONF[l]) = 2
    /\ \A l \in 1 .. 7 : Len(SNAPPTIXCONF[l]) \in Nat
    /\ \A l \in 1 .. 7 : l \in {1, 2, 3} \/ l \in 4 .. 7
<1>1. Len(SNAPPTIXCONF[1]) = 3 /\ Len(SNAPPTIXCONF[2]) = 3 /\ Len(SNAPPTIXCONF[3]) = 2
  BY Lines
<1>2. \A l \in 4 .. 7 : Len(SNAPPTIXCONF[l]) = 2
  BY Lines
<1>3. \A l \in 1 .. 7 : l \in {1, 2, 3} \/ l \in 4 .. 7
  OBVIOUS
<1>4. \A l \in 1 .. 7 : Len(SNAPPTIXCONF[l]) \in Nat
  BY <1>1, <1>2, <1>3
<1> QED
  BY <1>1, <1>2, <1>3, <1>4

\* Place finds each field where the lines have it.
LEMMA PlaceIs ==
  ASSUME NEW f \in Field
  PROVE  /\ Place[f] \in Line \X (1 .. 3)
         /\ Place[f][2] \in DOMAIN SNAPPTIXCONF[Place[f][1]]
         /\ SNAPPTIXCONF[Place[f][1]][Place[f][2]] = f
<1> DEFINE Is(p) == p[2] \in DOMAIN SNAPPTIXCONF[p[1]] /\ SNAPPTIXCONF[p[1]][p[2]] = f
<1>1. \E p \in Line \X (1 .. 3) : Is(p)
  <2>1. ASSUME NEW l \in 1 .. 7, NEW i \in 1 .. 3, i \in DOMAIN SNAPPTIXCONF[l],
               SNAPPTIXCONF[l][i] = f
        PROVE  \E p \in Line \X (1 .. 3) : Is(p)
    BY <2>1, Lines, Is(<<l, i>>), <<l, i>> \in Line \X (1 .. 3)
  <2> HIDE DEF Is
  <2>2. ASSUME f = <<1, "host">> \/ f = <<1, "ip">> \/ f = <<1, "dev">>
        PROVE  \E p \in Line \X (1 .. 3) : Is(p)
    <3>1. DOMAIN SNAPPTIXCONF[1] = 1 .. 3
      BY Lines
    <3>2. /\ SNAPPTIXCONF[1][1] = <<1, "host">> /\ SNAPPTIXCONF[1][2] = <<1, "ip">>
          /\ SNAPPTIXCONF[1][3] = <<1, "dev">>
      BY Lines
    <3>3. 1 \in 1 .. 7 /\ 1 \in 1 .. 3 /\ 2 \in 1 .. 3 /\ 3 \in 1 .. 3
      OBVIOUS
    <3> QED
      BY <2>1, <2>2, <3>1, <3>2, <3>3, Zenon
  <2>3. ASSUME f = <<2, "host">> \/ f = <<2, "ip">> \/ f = <<2, "dev">>
        PROVE  \E p \in Line \X (1 .. 3) : Is(p)
    <3>1. DOMAIN SNAPPTIXCONF[2] = 1 .. 3
      BY Lines
    <3>2. /\ SNAPPTIXCONF[2][1] = <<2, "host">> /\ SNAPPTIXCONF[2][2] = <<2, "ip">>
          /\ SNAPPTIXCONF[2][3] = <<2, "dev">>
      BY Lines
    <3>3. 2 \in 1 .. 7 /\ 1 \in 1 .. 3 /\ 2 \in 1 .. 3 /\ 3 \in 1 .. 3
      OBVIOUS
    <3> QED
      BY <2>1, <2>3, <3>1, <3>2, <3>3, Zenon
  <2>4. ASSUME f = <<0, "name">> \/ f = <<0, "ip">>
        PROVE  \E p \in Line \X (1 .. 3) : Is(p)
    <3>1. DOMAIN SNAPPTIXCONF[3] = 1 .. 2
      BY Lines
    <3>2. SNAPPTIXCONF[3][1] = <<0, "name">> /\ SNAPPTIXCONF[3][2] = <<0, "ip">>
      BY Lines
    <3>3. 3 \in 1 .. 7 /\ 1 \in 1 .. 3 /\ 1 \in 1 .. 2 /\ 2 \in 1 .. 3 /\ 2 \in 1 .. 2
      OBVIOUS
    <3> QED
      BY <2>1, <2>4, <3>1, <3>2, <3>3, Zenon
  <2>5. ASSUME f = <<1, "subnet">> \/ f = <<2, "subnet">>
        PROVE  \E p \in Line \X (1 .. 3) : Is(p)
    <3>1. DOMAIN SNAPPTIXCONF[4] = 1 .. 2
      BY Lines
    <3>2. SNAPPTIXCONF[4][1] = <<1, "subnet">> /\ SNAPPTIXCONF[4][2] = <<2, "subnet">>
      BY Lines
    <3>3. 4 \in 1 .. 7 /\ 1 \in 1 .. 3 /\ 1 \in 1 .. 2 /\ 2 \in 1 .. 3 /\ 2 \in 1 .. 2
      OBVIOUS
    <3> QED
      BY <2>1, <2>5, <3>1, <3>2, <3>3, Zenon
  <2>6. ASSUME f = <<1, "gateway">> \/ f = <<2, "gateway">>
        PROVE  \E p \in Line \X (1 .. 3) : Is(p)
    <3>1. DOMAIN SNAPPTIXCONF[5] = 1 .. 2
      BY Lines
    <3>2. SNAPPTIXCONF[5][1] = <<1, "gateway">> /\ SNAPPTIXCONF[5][2] = <<2, "gateway">>
      BY Lines
    <3>3. 5 \in 1 .. 7 /\ 1 \in 1 .. 3 /\ 1 \in 1 .. 2 /\ 2 \in 1 .. 3 /\ 2 \in 1 .. 2
      OBVIOUS
    <3> QED
      BY <2>1, <2>6, <3>1, <3>2, <3>3, Zenon
  <2>7. ASSUME f = <<1, "dns1">> \/ f = <<2, "dns1">>
        PROVE  \E p \in Line \X (1 .. 3) : Is(p)
    <3>1. DOMAIN SNAPPTIXCONF[6] = 1 .. 2
      BY Lines
    <3>2. SNAPPTIXCONF[6][1] = <<1, "dns1">> /\ SNAPPTIXCONF[6][2] = <<2, "dns1">>
      BY Lines
    <3>3. 6 \in 1 .. 7 /\ 1 \in 1 .. 3 /\ 1 \in 1 .. 2 /\ 2 \in 1 .. 3 /\ 2 \in 1 .. 2
      OBVIOUS
    <3> QED
      BY <2>1, <2>7, <3>1, <3>2, <3>3, Zenon
  <2>8. ASSUME f = <<1, "dns2">> \/ f = <<2, "dns2">>
        PROVE  \E p \in Line \X (1 .. 3) : Is(p)
    <3>1. DOMAIN SNAPPTIXCONF[7] = 1 .. 2
      BY Lines
    <3>2. SNAPPTIXCONF[7][1] = <<1, "dns2">> /\ SNAPPTIXCONF[7][2] = <<2, "dns2">>
      BY Lines
    <3>3. 7 \in 1 .. 7 /\ 1 \in 1 .. 3 /\ 1 \in 1 .. 2 /\ 2 \in 1 .. 3 /\ 2 \in 1 .. 2
      OBVIOUS
    <3> QED
      BY <2>1, <2>8, <3>1, <3>2, <3>3, Zenon
  <2> QED
    BY <2>2, <2>3, <2>4, <2>5, <2>6, <2>7, <2>8 DEF Field, Own, Unit
<1>2. Place[f] = CHOOSE p \in Line \X (1 .. 3) : Is(p)
  BY DEF Place
<1> QED
  BY <1>1, <1>2

\* What load() reads is one word for each field.
LEMMA LoadOneWord ==
  ASSUME NEW file
  PROVE  OneWord(Load(file))
  BY DEF OneWord, Load, Null

\* And it is a word.
LEMMA LoadType ==
  ASSUME NEW file \in File
  PROVE  Load(file) \in Values
<1> SUFFICES ASSUME NEW f \in Field
             PROVE  Load(file)[f] \in Seq(Word)
  BY DEF Load, Values
<1> DEFINE l == Place[f][1]
           i == Place[f][2]
<1>1. l \in 1 .. 7
  BY PlaceIs, Lines
<1>2. CASE Reached(file, l, i)
  <2>1. Len(file) = 7 /\ file \in Seq(Seq(Word))
    <3>1. file \in Seq(Seq(Word)) /\ Len(file) \in {0, 7} /\ file # <<>>
      BY <1>2 DEF Reached, File, Empty
    <3>2. Len(file) # 0
      BY <3>1
    <3> QED
      BY <3>1, <3>2
  <2>2. file[l] \in Seq(Word)
    BY <1>1, <2>1, ElementOfSeq
  <2>3. file[l][i] \in Word
    BY <1>2, <2>2 DEF Reached
  <2> QED
    BY <1>2, <2>3 DEF Load
<1>3. CASE ~Reached(file, l, i)
  BY <1>3 DEF Load, Null, Word
<1> QED
  BY <1>2, <1>3

\* One line after the other.
LEMMA PrintedLines ==
  ASSUME NEW v \in Values
  PROVE  /\ DOMAIN Printed(v) = 1 .. 7
         /\ Printed(v)[1] = v[<<1, "host">>] \o v[<<1, "ip">>] \o v[<<1, "dev">>]
         /\ Printed(v)[2] = v[<<2, "host">>] \o v[<<2, "ip">>] \o v[<<2, "dev">>]
         /\ Printed(v)[3] = v[<<0, "name">>] \o v[<<0, "ip">>]
         /\ Printed(v)[4] = v[<<1, "subnet">>] \o v[<<2, "subnet">>]
         /\ Printed(v)[5] = v[<<1, "gateway">>] \o v[<<2, "gateway">>]
         /\ Printed(v)[6] = v[<<1, "dns1">>] \o v[<<2, "dns1">>]
         /\ Printed(v)[7] = v[<<1, "dns2">>] \o v[<<2, "dns2">>]
<1>1. ASSUME NEW a, NEW b
      PROVE  Words(v, <<a, b>>) = v[a] \o v[b]
  BY DEF Words
<1>3. /\ DOMAIN Printed(v) = 1 .. 7
      /\ \A l \in 1 .. 7 : Printed(v)[l] = Words(v, SNAPPTIXCONF[l])
  BY Lines DEF Printed
<1>4. /\ Printed(v)[1] = Words(v, SNAPPTIXCONF[1])
      /\ Printed(v)[2] = Words(v, SNAPPTIXCONF[2])
      /\ Printed(v)[3] = Words(v, SNAPPTIXCONF[3])
      /\ Printed(v)[4] = Words(v, SNAPPTIXCONF[4])
      /\ Printed(v)[5] = Words(v, SNAPPTIXCONF[5])
      /\ Printed(v)[6] = Words(v, SNAPPTIXCONF[6])
      /\ Printed(v)[7] = Words(v, SNAPPTIXCONF[7])
  BY <1>3
<1>5. Printed(v)[1] = v[<<1, "host">>] \o v[<<1, "ip">>] \o v[<<1, "dev">>]
  <2>1. Len(SNAPPTIXCONF[1]) # 2
    BY Lines
  <2>2. Printed(v)[1] = v[SNAPPTIXCONF[1][1]] \o v[SNAPPTIXCONF[1][2]]
                         \o v[SNAPPTIXCONF[1][3]]
    BY <1>4, <2>1, Zenon DEF Words
  <2>3. /\ SNAPPTIXCONF[1][1] = <<1, "host">>
        /\ SNAPPTIXCONF[1][2] = <<1, "ip">>
        /\ SNAPPTIXCONF[1][3] = <<1, "dev">>
    BY Lines
  <2> QED
    BY <2>2, <2>3, Zenon
<1>6. Printed(v)[2] = v[<<2, "host">>] \o v[<<2, "ip">>] \o v[<<2, "dev">>]
  <2>1. Len(SNAPPTIXCONF[2]) # 2
    BY Lines
  <2>2. Printed(v)[2] = v[SNAPPTIXCONF[2][1]] \o v[SNAPPTIXCONF[2][2]]
                         \o v[SNAPPTIXCONF[2][3]]
    BY <1>4, <2>1, Zenon DEF Words
  <2>3. /\ SNAPPTIXCONF[2][1] = <<2, "host">>
        /\ SNAPPTIXCONF[2][2] = <<2, "ip">>
        /\ SNAPPTIXCONF[2][3] = <<2, "dev">>
    BY Lines
  <2> QED
    BY <2>2, <2>3, Zenon
<1>7. Printed(v)[3] = v[<<0, "name">>] \o v[<<0, "ip">>]
  BY <1>1, <1>4, Lines, Zenon
<1>8. Printed(v)[4] = v[<<1, "subnet">>] \o v[<<2, "subnet">>]
  BY <1>1, <1>4, Lines, Zenon
<1>9. Printed(v)[5] = v[<<1, "gateway">>] \o v[<<2, "gateway">>]
  BY <1>1, <1>4, Lines, Zenon
<1>10. Printed(v)[6] = v[<<1, "dns1">>] \o v[<<2, "dns1">>]
  BY <1>1, <1>4, Lines, Zenon
<1>11. Printed(v)[7] = v[<<1, "dns2">>] \o v[<<2, "dns2">>]
  BY <1>1, <1>4, Lines, Zenon
<1> QED
  BY <1>3, <1>5, <1>6, <1>7, <1>8, <1>9, <1>10, <1>11

LEMMA PrintedType ==
  ASSUME NEW v \in Values
  PROVE  /\ Printed(v) \in File
         /\ Len(Printed(v)) = 7
         /\ Printed(v) # Empty
<1>1. \A f \in Field : v[f] \in Seq(Word)
  BY DEF Values
<1>2. /\ <<0, "name">> \in Field /\ <<0, "ip">> \in Field
      /\ \A u \in Unit : \A x \in Own : <<u, x>> \in Field
  BY DEF Field
<1>3. \A s, t \in Seq(Word) : s \o t \in Seq(Word)
  OBVIOUS
<1>4. \A l \in 1 .. 7 : Printed(v)[l] \in Seq(Word)
  <2>1. \A x \in Own : v[<<1, x>>] \in Seq(Word) /\ v[<<2, x>>] \in Seq(Word)
    BY <1>1, <1>2 DEF Unit
  <2>2. v[<<0, "name">>] \in Seq(Word) /\ v[<<0, "ip">>] \in Seq(Word)
    BY <1>1, <1>2
  <2>3. /\ v[<<1, "host">>] \o v[<<1, "ip">>] \in Seq(Word)
        /\ v[<<2, "host">>] \o v[<<2, "ip">>] \in Seq(Word)
    BY <1>3, <2>1 DEF Own
  <2>4. Printed(v)[1] \in Seq(Word) /\ Printed(v)[2] \in Seq(Word)
    BY <1>3, <2>1, <2>3, PrintedLines DEF Own
  <2>5. Printed(v)[3] \in Seq(Word)
    BY <1>3, <2>2, PrintedLines
  <2>6. /\ Printed(v)[4] \in Seq(Word) /\ Printed(v)[5] \in Seq(Word)
        /\ Printed(v)[6] \in Seq(Word) /\ Printed(v)[7] \in Seq(Word)
    <3>1. /\ v[<<1, "subnet">>] \in Seq(Word) /\ v[<<2, "subnet">>] \in Seq(Word)
          /\ v[<<1, "gateway">>] \in Seq(Word) /\ v[<<2, "gateway">>] \in Seq(Word)
      BY <2>1 DEF Own
    <3>2. /\ v[<<1, "dns1">>] \in Seq(Word) /\ v[<<2, "dns1">>] \in Seq(Word)
          /\ v[<<1, "dns2">>] \in Seq(Word) /\ v[<<2, "dns2">>] \in Seq(Word)
      BY <2>1 DEF Own
    <3>3. Printed(v)[4] \in Seq(Word) /\ Printed(v)[5] \in Seq(Word)
      BY <1>3, <3>1, PrintedLines
    <3>4. Printed(v)[6] \in Seq(Word) /\ Printed(v)[7] \in Seq(Word)
      BY <1>3, <3>2, PrintedLines
    <3> QED
      BY <3>3, <3>4
  <2> QED
    BY <2>4, <2>5, <2>6
<1>5. Printed(v) = [l \in 1 .. 7 |-> Printed(v)[l]]
  BY Lines DEF Printed
<1>6. Printed(v) \in Seq(Seq(Word)) /\ Len(Printed(v)) = 7
  BY <1>4, <1>5
<1> QED
  <2>1. Printed(v) \in File
    BY <1>6 DEF File
  <2> QED
    BY <1>6, <2>1, Len(<<>>) = 0 DEF Empty

LEMMA FieldNames ==
    /\ <<0, "name">> \in Field /\ <<0, "ip">> \in Field
    /\ \A u \in {1, 2} : <<u, "host">> \in Field /\ <<u, "ip">> \in Field /\ <<u, "dev">> \in Field
    /\ \A u \in {1, 2} : \A x \in {"subnet", "gateway", "dns1", "dns2"} : <<u, x>> \in Field
  BY DEF Field, Own, Unit

\* Sequences of one word, one after the other.
LEMMA Concat ==
  ASSUME NEW r \in Seq(Word), NEW s \in Seq(Word), Len(s) = 1
  PROVE  /\ r \o s \in Seq(Word) /\ Len(r \o s) = Len(r) + 1
         /\ \A i \in 1 .. Len(r) : (r \o s)[i] = r[i]
         /\ (r \o s)[Len(r) + 1] = s[1]
<1>1. /\ r \o s \in Seq(Word) /\ Len(r \o s) = Len(r) + 1
      /\ \A i \in 1 .. Len(r) + 1 : (r \o s)[i] = IF i <= Len(r) THEN r[i] ELSE s[i - Len(r)]
  <2>1. /\ r \o s \in Seq(Word) /\ Len(r \o s) = Len(r) + Len(s)
        /\ \A i \in 1 .. Len(r) + Len(s) :
              (r \o s)[i] = IF i <= Len(r) THEN r[i] ELSE s[i - Len(r)]
    BY ConcatProperties, Zenon
  <2> QED
    BY <2>1
<1>2. Len(r) \in Nat /\ (Len(r) + 1) - Len(r) = 1 /\ Len(r) + 1 \in 1 .. Len(r) + 1
  OBVIOUS
<1>3. (r \o s)[Len(r) + 1] = s[1]
  BY <1>1, <1>2
<1> QED
  BY <1>1, <1>2, <1>3

LEMMA TwoWords ==
  ASSUME NEW s \in Seq(Word), NEW t \in Seq(Word), Len(s) = 1, Len(t) = 1
  PROVE  s \o t = <<s[1], t[1]>>
<1>1. s \o t \in Seq(Word) /\ Len(s \o t) = 2 /\ (s \o t)[1] = s[1] /\ (s \o t)[2] = t[1]
  BY Concat
<1>2. \A r \in Seq(Word) : Len(r) = 2 => r = <<r[1], r[2]>>
  OBVIOUS
<1> QED
  BY <1>1, <1>2, Zenon

LEMMA ThreeWords ==
  ASSUME NEW s \in Seq(Word), NEW t \in Seq(Word), NEW r \in Seq(Word),
         Len(s) = 1, Len(t) = 1, Len(r) = 1
  PROVE  s \o t \o r = <<s[1], t[1], r[1]>>
<1> DEFINE st == s \o t
<1>1. st \in Seq(Word) /\ Len(st) = 2 /\ st[1] = s[1] /\ st[2] = t[1]
  BY Concat
<1> HIDE DEF st
<1>2. /\ st \o r \in Seq(Word) /\ Len(st \o r) = 3
      /\ (st \o r)[1] = st[1] /\ (st \o r)[2] = st[2] /\ (st \o r)[3] = r[1]
  <2>1. /\ st \o r \in Seq(Word) /\ Len(st \o r) = Len(st) + 1
        /\ \A i \in 1 .. Len(st) : (st \o r)[i] = st[i]
        /\ (st \o r)[Len(st) + 1] = r[1]
    BY <1>1, Concat, Zenon
  <2>2. Len(st) + 1 = 3 /\ 1 \in 1 .. Len(st) /\ 2 \in 1 .. Len(st)
    BY <1>1
  <2> QED
    BY <2>1, <2>2, Zenon
<1>3. \A q \in Seq(Word) : Len(q) = 3 => q = <<q[1], q[2], q[3]>>
  OBVIOUS
<1>4. st \o r = <<s[1], t[1], r[1]>>
  BY <1>1, <1>2, <1>3, Zenon
<1> QED
  BY <1>4 DEF st
\* With one word in each of its fields a line has as many words as its values.
LEMMA PrintedLengths ==
  ASSUME NEW v \in Values, OnlyNamesOdd(v)
  PROVE  /\ Len(Printed(v)[1]) = Len(v[<<1, "host">>]) + 2
         /\ Len(Printed(v)[2]) = Len(v[<<2, "host">>]) + 2
         /\ Len(Printed(v)[3]) = Len(v[<<0, "name">>]) + 1
         /\ \A l \in 4 .. 7 : Len(Printed(v)[l]) = 2
         /\ \A f \in NameField : Len(v[f]) \in Nat
<1>1. \A f \in Field : v[f] \in Seq(Word) /\ Len(v[f]) \in Nat
  BY DEF Values
<1>2. \A s, t \in Seq(Word) : s \o t \in Seq(Word) /\ Len(s \o t) = Len(s) + Len(t)
  OBVIOUS
<1>3. \A u \in {1, 2} : Len(v[<<u, "ip">>]) = 1 /\ Len(v[<<u, "dev">>]) = 1
  BY FieldNames DEF OnlyNamesOdd, NameField, Unit
<1>4. Len(v[<<0, "ip">>]) = 1
  BY FieldNames DEF OnlyNamesOdd, NameField, Unit
<1>5. \A u \in {1, 2} : \A x \in {"subnet", "gateway", "dns1", "dns2"} : Len(v[<<u, x>>]) = 1
  BY FieldNames DEF OnlyNamesOdd, NameField, Unit
<1>6. ASSUME NEW u \in {1, 2}
      PROVE  Len(v[<<u, "host">>] \o v[<<u, "ip">>] \o v[<<u, "dev">>])
                = Len(v[<<u, "host">>]) + 2
  <2>1. /\ v[<<u, "host">>] \in Seq(Word) /\ v[<<u, "ip">>] \in Seq(Word)
        /\ v[<<u, "dev">>] \in Seq(Word)
    BY <1>1, FieldNames
  <2>2. /\ v[<<u, "host">>] \o v[<<u, "ip">>] \in Seq(Word)
        /\ Len(v[<<u, "host">>] \o v[<<u, "ip">>]) = Len(v[<<u, "host">>]) + 1
    <3> DEFINE host == v[<<u, "host">>]
               ip == v[<<u, "ip">>]
    <3>1. host \in Seq(Word) /\ ip \in Seq(Word) /\ Len(ip) = 1
      BY <1>3, <2>1
    <3> HIDE DEF host, ip
    <3>2. host \o ip \in Seq(Word) /\ Len(host \o ip) = Len(host) + 1
      BY <1>2, <3>1
    <3> QED
      BY <3>2 DEF host, ip
  <2>3. Len(v[<<u, "host">>] \o v[<<u, "ip">>] \o v[<<u, "dev">>])
           = Len(v[<<u, "host">>]) + 1 + 1
    BY <1>2, <1>3, <2>1, <2>2
  <2> QED
    BY <1>1, <2>3, FieldNames
<1>7. Len(v[<<0, "name">>] \o v[<<0, "ip">>]) = Len(v[<<0, "name">>]) + 1
  BY <1>1, <1>2, <1>4, FieldNames
<1>8. ASSUME NEW x \in {"subnet", "gateway", "dns1", "dns2"}
      PROVE  Len(v[<<1, x>>] \o v[<<2, x>>]) = 2
  <2>1. v[<<1, x>>] \in Seq(Word) /\ v[<<2, x>>] \in Seq(Word)
    BY <1>1, FieldNames
  <2>2. Len(v[<<1, x>>]) = 1 /\ Len(v[<<2, x>>]) = 1
    BY <1>5
  <2>3. Len(v[<<1, x>>] \o v[<<2, x>>]) = 1 + 1
    BY <1>2, <2>1, <2>2, Zenon
  <2> QED
    BY <2>3
<1>9. Len(Printed(v)[1]) = Len(v[<<1, "host">>]) + 2
  BY <1>6, PrintedLines
<1>10. Len(Printed(v)[2]) = Len(v[<<2, "host">>]) + 2
  BY <1>6, PrintedLines
<1>11. Len(Printed(v)[3]) = Len(v[<<0, "name">>]) + 1
  BY <1>7, PrintedLines
<1>12. /\ Len(Printed(v)[4]) = 2 /\ Len(Printed(v)[5]) = 2
       /\ Len(Printed(v)[6]) = 2 /\ Len(Printed(v)[7]) = 2
  BY <1>8, PrintedLines
<1>13. \A f \in NameField : Len(v[f]) \in Nat
  BY <1>1, FieldNames DEF NameField, Unit
<1> QED
  BY <1>9, <1>10, <1>11, <1>12, <1>13

\* The words of such a file, where the values of a line are one word each.
LEMMA PrintedWords ==
  ASSUME NEW v \in Values, OneWord(v),
         NEW l \in 1 .. 7, NEW i \in DOMAIN SNAPPTIXCONF[l]
  PROVE  <<Printed(v)[l][i]>> = v[SNAPPTIXCONF[l][i]]
<1>1. \A f \in Field : v[f] \in Seq(Word) /\ Len(v[f]) = 1
  BY DEF Values, OneWord
<1>2. \A f \in Field : v[f] = <<v[f][1]>>
  <2>1. \A s \in Seq(Word) : Len(s) = 1 => s = <<s[1]>>
    OBVIOUS
  <2> QED
    BY <1>1, <2>1, Zenon
<1>3. ASSUME NEW a \in Field, NEW b \in Field
      PROVE  v[a] \o v[b] = <<v[a][1], v[b][1]>>
  BY <1>1, TwoWords
<1>4. ASSUME NEW a \in Field, NEW b \in Field, NEW c \in Field
      PROVE  v[a] \o v[b] \o v[c] = <<v[a][1], v[b][1], v[c][1]>>
  BY <1>1, ThreeWords
<1> DEFINE Here(k, j) == <<Printed(v)[k][j]>> = v[SNAPPTIXCONF[k][j]]
<1>5. Here(1, 1) /\ Here(1, 2) /\ Here(1, 3)
  <2>1. v[<<1, "host">>] \o v[<<1, "ip">>] \o v[<<1, "dev">>]
           = <<v[<<1, "host">>][1], v[<<1, "ip">>][1], v[<<1, "dev">>][1]>>
    BY <1>4, FieldNames
  <2>2. /\ Printed(v)[1][1] = v[<<1, "host">>][1]
        /\ Printed(v)[1][2] = v[<<1, "ip">>][1]
        /\ Printed(v)[1][3] = v[<<1, "dev">>][1]
    <3>1. Printed(v)[1] = v[<<1, "host">>] \o v[<<1, "ip">>] \o v[<<1, "dev">>]
      BY PrintedLines
    <3>2. Printed(v)[1] = <<v[<<1, "host">>][1], v[<<1, "ip">>][1], v[<<1, "dev">>][1]>>
      BY <2>1, <3>1, Zenon
    <3> QED
      BY <3>2
  <2>3. /\ SNAPPTIXCONF[1][1] = <<1, "host">>
        /\ SNAPPTIXCONF[1][2] = <<1, "ip">>
        /\ SNAPPTIXCONF[1][3] = <<1, "dev">>
    BY Lines
  <2>4. /\ v[<<1, "host">>] = <<v[<<1, "host">>][1]>>
        /\ v[<<1, "ip">>] = <<v[<<1, "ip">>][1]>>
        /\ v[<<1, "dev">>] = <<v[<<1, "dev">>][1]>>
    BY <1>2, FieldNames
  <2> QED
    BY <2>2, <2>3, <2>4, Zenon
<1>6. Here(2, 1) /\ Here(2, 2) /\ Here(2, 3)
  <2>1. v[<<2, "host">>] \o v[<<2, "ip">>] \o v[<<2, "dev">>]
           = <<v[<<2, "host">>][1], v[<<2, "ip">>][1], v[<<2, "dev">>][1]>>
    BY <1>4, FieldNames
  <2>2. /\ Printed(v)[2][1] = v[<<2, "host">>][1]
        /\ Printed(v)[2][2] = v[<<2, "ip">>][1]
        /\ Printed(v)[2][3] = v[<<2, "dev">>][1]
    <3>1. Printed(v)[2] = v[<<2, "host">>] \o v[<<2, "ip">>] \o v[<<2, "dev">>]
      BY PrintedLines
    <3>2. Printed(v)[2] = <<v[<<2, "host">>][1], v[<<2, "ip">>][1], v[<<2, "dev">>][1]>>
      BY <2>1, <3>1, Zenon
    <3> QED
      BY <3>2
  <2>3. /\ SNAPPTIXCONF[2][1] = <<2, "host">>
        /\ SNAPPTIXCONF[2][2] = <<2, "ip">>
        /\ SNAPPTIXCONF[2][3] = <<2, "dev">>
    BY Lines
  <2>4. /\ v[<<2, "host">>] = <<v[<<2, "host">>][1]>>
        /\ v[<<2, "ip">>] = <<v[<<2, "ip">>][1]>>
        /\ v[<<2, "dev">>] = <<v[<<2, "dev">>][1]>>
    BY <1>2, FieldNames
  <2> QED
    BY <2>2, <2>3, <2>4, Zenon
<1>7. Here(3, 1) /\ Here(3, 2)
  <2>1. v[<<0, "name">>] \o v[<<0, "ip">>]
           = <<v[<<0, "name">>][1], v[<<0, "ip">>][1]>>
    BY <1>3, FieldNames
  <2>2. /\ Printed(v)[3][1] = v[<<0, "name">>][1]
        /\ Printed(v)[3][2] = v[<<0, "ip">>][1]
    <3>1. Printed(v)[3] = v[<<0, "name">>] \o v[<<0, "ip">>]
      BY PrintedLines
    <3>2. Printed(v)[3] = <<v[<<0, "name">>][1], v[<<0, "ip">>][1]>>
      BY <2>1, <3>1, Zenon
    <3> QED
      BY <3>2
  <2>3. /\ SNAPPTIXCONF[3][1] = <<0, "name">>
        /\ SNAPPTIXCONF[3][2] = <<0, "ip">>
    BY Lines
  <2>4. /\ v[<<0, "name">>] = <<v[<<0, "name">>][1]>>
        /\ v[<<0, "ip">>] = <<v[<<0, "ip">>][1]>>
    BY <1>2, FieldNames
  <2> QED
    BY <2>2, <2>3, <2>4, Zenon
<1>8. Here(4, 1) /\ Here(4, 2)
  <2>1. v[<<1, "subnet">>] \o v[<<2, "subnet">>]
           = <<v[<<1, "subnet">>][1], v[<<2, "subnet">>][1]>>
    BY <1>3, FieldNames
  <2>2. /\ Printed(v)[4][1] = v[<<1, "subnet">>][1]
        /\ Printed(v)[4][2] = v[<<2, "subnet">>][1]
    <3>1. Printed(v)[4] = v[<<1, "subnet">>] \o v[<<2, "subnet">>]
      BY PrintedLines
    <3>2. Printed(v)[4] = <<v[<<1, "subnet">>][1], v[<<2, "subnet">>][1]>>
      BY <2>1, <3>1, Zenon
    <3> QED
      BY <3>2
  <2>3. /\ SNAPPTIXCONF[4][1] = <<1, "subnet">>
        /\ SNAPPTIXCONF[4][2] = <<2, "subnet">>
    BY Lines
  <2>4. /\ v[<<1, "subnet">>] = <<v[<<1, "subnet">>][1]>>
        /\ v[<<2, "subnet">>] = <<v[<<2, "subnet">>][1]>>
    BY <1>2, FieldNames
  <2> QED
    BY <2>2, <2>3, <2>4, Zenon
<1>9. Here(5, 1) /\ Here(5, 2)
  <2>1. v[<<1, "gateway">>] \o v[<<2, "gateway">>]
           = <<v[<<1, "gateway">>][1], v[<<2, "gateway">>][1]>>
    BY <1>3, FieldNames
  <2>2. /\ Printed(v)[5][1] = v[<<1, "gateway">>][1]
        /\ Printed(v)[5][2] = v[<<2, "gateway">>][1]
    <3>1. Printed(v)[5] = v[<<1, "gateway">>] \o v[<<2, "gateway">>]
      BY PrintedLines
    <3>2. Printed(v)[5] = <<v[<<1, "gateway">>][1], v[<<2, "gateway">>][1]>>
      BY <2>1, <3>1, Zenon
    <3> QED
      BY <3>2
  <2>3. /\ SNAPPTIXCONF[5][1] = <<1, "gateway">>
        /\ SNAPPTIXCONF[5][2] = <<2, "gateway">>
    BY Lines
  <2>4. /\ v[<<1, "gateway">>] = <<v[<<1, "gateway">>][1]>>
        /\ v[<<2, "gateway">>] = <<v[<<2, "gateway">>][1]>>
    BY <1>2, FieldNames
  <2> QED
    BY <2>2, <2>3, <2>4, Zenon
<1>10. Here(6, 1) /\ Here(6, 2)
  <2>1. v[<<1, "dns1">>] \o v[<<2, "dns1">>]
           = <<v[<<1, "dns1">>][1], v[<<2, "dns1">>][1]>>
    BY <1>3, FieldNames
  <2>2. /\ Printed(v)[6][1] = v[<<1, "dns1">>][1]
        /\ Printed(v)[6][2] = v[<<2, "dns1">>][1]
    <3>1. Printed(v)[6] = v[<<1, "dns1">>] \o v[<<2, "dns1">>]
      BY PrintedLines
    <3>2. Printed(v)[6] = <<v[<<1, "dns1">>][1], v[<<2, "dns1">>][1]>>
      BY <2>1, <3>1, Zenon
    <3> QED
      BY <3>2
  <2>3. /\ SNAPPTIXCONF[6][1] = <<1, "dns1">>
        /\ SNAPPTIXCONF[6][2] = <<2, "dns1">>
    BY Lines
  <2>4. /\ v[<<1, "dns1">>] = <<v[<<1, "dns1">>][1]>>
        /\ v[<<2, "dns1">>] = <<v[<<2, "dns1">>][1]>>
    BY <1>2, FieldNames
  <2> QED
    BY <2>2, <2>3, <2>4, Zenon
<1>11. Here(7, 1) /\ Here(7, 2)
  <2>1. v[<<1, "dns2">>] \o v[<<2, "dns2">>]
           = <<v[<<1, "dns2">>][1], v[<<2, "dns2">>][1]>>
    BY <1>3, FieldNames
  <2>2. /\ Printed(v)[7][1] = v[<<1, "dns2">>][1]
        /\ Printed(v)[7][2] = v[<<2, "dns2">>][1]
    <3>1. Printed(v)[7] = v[<<1, "dns2">>] \o v[<<2, "dns2">>]
      BY PrintedLines
    <3>2. Printed(v)[7] = <<v[<<1, "dns2">>][1], v[<<2, "dns2">>][1]>>
      BY <2>1, <3>1, Zenon
    <3> QED
      BY <3>2
  <2>3. /\ SNAPPTIXCONF[7][1] = <<1, "dns2">>
        /\ SNAPPTIXCONF[7][2] = <<2, "dns2">>
    BY Lines
  <2>4. /\ v[<<1, "dns2">>] = <<v[<<1, "dns2">>][1]>>
        /\ v[<<2, "dns2">>] = <<v[<<2, "dns2">>][1]>>
    BY <1>2, FieldNames
  <2> QED
    BY <2>2, <2>3, <2>4, Zenon
<1> HIDE DEF Here
<1>12. /\ l \in 1 .. 2 => i \in 1 .. 3
       /\ l \in 3 .. 7 => i \in 1 .. 2
  BY Lines
<1>13. Here(l, i)
  BY <1>5, <1>6, <1>7, <1>8, <1>9, <1>10, <1>11, <1>12
<1> QED
  BY <1>13 DEF Here

\* A file of the right lengths is read to its end.
LEMMA WholeIsRead ==
  ASSUME NEW file \in File, Whole(file), NEW f \in Field
  PROVE  Load(file)[f] = <<file[Place[f][1]][Place[f][2]]>>
<1> DEFINE l == Place[f][1]
           i == Place[f][2]
<1>1. l \in 1 .. 7 /\ i \in DOMAIN SNAPPTIXCONF[l]
  BY PlaceIs, Lines
<1>2. file # Empty /\ \A k \in 1 .. 7 : Len(file[k]) = Len(SNAPPTIXCONF[k])
  BY Lines DEF Whole
<1>3. file \in Seq(Seq(Word)) /\ Len(file) = 7
  <2>1. file \in Seq(Seq(Word)) /\ Len(file) \in {0, 7} /\ file # <<>>
    BY <1>2 DEF File, Empty
  <2>2. Len(file) # 0
    BY <2>1
  <2> QED
    BY <2>1, <2>2
<1>4. file[l] \in Seq(Word) /\ Len(file[l]) = Len(SNAPPTIXCONF[l])
  BY <1>1, <1>2, <1>3, ElementOfSeq
<1>5. i \in DOMAIN file[l]
  <2>1. DOMAIN file[l] = 1 .. Len(file[l])
    BY <1>4
  <2>2. DOMAIN SNAPPTIXCONF[l] = 1 .. Len(SNAPPTIXCONF[l])
    BY <1>1, Lines
  <2> QED
    BY <1>1, <1>4, <2>1, <2>2
<1>6. \A k \in 1 .. l - 1 : Len(file[k]) >= Len(SNAPPTIXCONF[k])
  <2>1. \A k \in 1 .. 7 : Len(SNAPPTIXCONF[k]) \in Nat
    BY Lines
  <2> QED
    <3> SUFFICES ASSUME NEW k \in 1 .. l - 1
                 PROVE  Len(file[k]) >= Len(SNAPPTIXCONF[k])
      OBVIOUS
    <3>1. k \in 1 .. 7
      BY <1>1
    <3>2. Len(file[k]) = Len(SNAPPTIXCONF[k])
      BY <1>2, <3>1, Zenon
    <3>3. Len(SNAPPTIXCONF[k]) \in Nat
      BY <2>1, <3>1, Zenon
    <3> QED
      BY <3>2, <3>3
<1>7. Reached(file, l, i)
  BY <1>2, <1>5, <1>6 DEF Reached
<1> QED
  BY <1>7 DEF Load

\* What save() writes load() reads again, if every value is one word.
LEMMA LoadPrinted ==
  ASSUME NEW v \in Values, OneWord(v)
  PROVE  Whole(Printed(v)) /\ Load(Printed(v)) = v
<1>1. OnlyNamesOdd(v)
  BY DEF OneWord, OnlyNamesOdd
<1>2. Len(v[<<1, "host">>]) = 1 /\ Len(v[<<2, "host">>]) = 1 /\ Len(v[<<0, "name">>]) = 1
  BY FieldNames DEF OneWord
<1>3. Whole(Printed(v))
  <2>1. /\ Len(SNAPPTIXCONF[1]) = 3 /\ Len(SNAPPTIXCONF[2]) = 3
        /\ Len(SNAPPTIXCONF[3]) = 2 /\ \A l \in 4 .. 7 : Len(SNAPPTIXCONF[l]) = 2
    BY Lines
  <2>2. /\ Len(Printed(v)[1]) = 3 /\ Len(Printed(v)[2]) = 3
        /\ Len(Printed(v)[3]) = 2 /\ \A l \in 4 .. 7 : Len(Printed(v)[l]) = 2
    <3>1. /\ Len(Printed(v)[1]) = 1 + 2 /\ Len(Printed(v)[2]) = 1 + 2
          /\ Len(Printed(v)[3]) = 1 + 1 /\ \A l \in 4 .. 7 : Len(Printed(v)[l]) = 2
      BY <1>1, <1>2, PrintedLengths, Zenon
    <3> QED
      BY <3>1
  <2>3. \A l \in 1 .. 7 : l \in {1, 2, 3} \/ l \in 4 .. 7
    OBVIOUS
  <2>4. \A l \in 1 .. 7 : Len(Printed(v)[l]) = Len(SNAPPTIXCONF[l])
    BY <2>1, <2>2, <2>3
  <2> QED
    BY <2>4, PrintedType, Lines DEF Whole
<1>4. ASSUME NEW f \in Field
      PROVE  Load(Printed(v))[f] = v[f]
  <2> DEFINE l == Place[f][1]
             i == Place[f][2]
  <2>1. l \in 1 .. 7 /\ i \in DOMAIN SNAPPTIXCONF[l] /\ SNAPPTIXCONF[l][i] = f
    BY PlaceIs, Lines
  <2>2. Load(Printed(v))[f] = <<Printed(v)[l][i]>>
    BY <1>3, WholeIsRead, PrintedType
  <2> HIDE DEF l, i
  <2> QED
    BY <2>1, <2>2, PrintedWords
<1>5. v = [f \in Field |-> v[f]] /\ Load(Printed(v)) = [f \in Field |-> Load(Printed(v))[f]]
  BY DEF Values, Load
<1> QED
  BY <1>3, <1>4, <1>5

-----------------------------------------------------------------------------
\* What can be read from the files of the installers and of the GUI.

\* A file that is not empty has two words in each of its last lines, and what is read
\* from it can be shown, if none of its words is missing.
Shaped(file) ==
    file # Empty => /\ \A l \in 4 .. 7 : Len(file[l]) = 2
                    /\ Whole(file) => Shows(Load(file))

\* In a file, or in what was read from it: the alpha's addresses have been given.
GivenIn(file) == file # Empty => \A l \in 4 .. 7 : file[l][1] # SNAPPTIX_FILL

Given(v) == \A x \in NotGiven : v[<<1, x>>] # <<SNAPPTIX_FILL>>

\* What fscanf() takes has all its words.
LEMMA ScansWhole ==
  ASSUME NEW file, Scans(file), Shaped(file)
  PROVE  Whole(file)
<1>1. /\ Len(file[1]) = 3 /\ Len(file[2]) = 3 /\ Len(file[3]) = 2
      /\ \A l \in 4 .. 7 : Len(file[l]) = 2
  BY DEF Scans, Shaped
<1>2. \A l \in 1 .. 7 : Len(file[l]) = Len(SNAPPTIXCONF[l])
  BY <1>1, LineLengths
<1> QED
  BY <1>2, Lines DEF Scans, Whole

\* The files of setup_configs() and of save().
LEMMA PrintedShaped ==
  ASSUME NEW v \in Values, OnlyNamesOdd(v), Shows(v)
  PROVE  Shaped(Printed(v))
<1>1. \A l \in 4 .. 7 : Len(Printed(v)[l]) = 2
  BY PrintedLengths
<1>2. ASSUME Whole(Printed(v))
      PROVE  OneWord(v)
  <2>1. Len(Printed(v)[1]) = 3 /\ Len(Printed(v)[2]) = 3 /\ Len(Printed(v)[3]) = 2
    <3>1. \A l \in 1 .. 7 : Len(Printed(v)[l]) = Len(SNAPPTIXCONF[l])
      BY <1>2, Lines DEF Whole
    <3>2. 1 \in 1 .. 7 /\ 2 \in 1 .. 7 /\ 3 \in 1 .. 7
      OBVIOUS
    <3> QED
      BY <3>1, <3>2, LineLengths, Zenon
  <2>2. /\ Len(v[<<1, "host">>]) \in Nat /\ Len(v[<<2, "host">>]) \in Nat
        /\ Len(v[<<0, "name">>]) \in Nat
    BY PrintedLengths DEF NameField, Unit
  <2>3. /\ Len(v[<<1, "host">>]) + 2 = 3 /\ Len(v[<<2, "host">>]) + 2 = 3
        /\ Len(v[<<0, "name">>]) + 1 = 2
    <3>1. Len(Printed(v)[1]) = Len(v[<<1, "host">>]) + 2
      BY PrintedLengths
    <3>2. Len(Printed(v)[2]) = Len(v[<<2, "host">>]) + 2
      BY PrintedLengths
    <3>3. Len(Printed(v)[3]) = Len(v[<<0, "name">>]) + 1
      BY PrintedLengths
    <3> QED
      BY <2>1, <3>1, <3>2, <3>3
  <2>4. \A f \in NameField : Len(v[f]) = 1
    <3>1. Len(v[<<1, "host">>]) = 1 /\ Len(v[<<2, "host">>]) = 1 /\ Len(v[<<0, "name">>]) = 1
      <4>1. \A n \in Nat : (n + 2 = 3 => n = 1) /\ (n + 1 = 2 => n = 1)
        OBVIOUS
      <4> QED
        BY <2>2, <2>3, <4>1, Zenon
    <3>2. \A f \in NameField : f = <<1, "host">> \/ f = <<2, "host">> \/ f = <<0, "name">>
      BY DEF NameField, Unit
    <3> QED
      BY <3>1, <3>2
  <2> QED
    BY <2>4 DEF OnlyNamesOdd, OneWord
<1> QED
  BY <1>1, <1>2, LoadPrinted DEF Shaped

\* The first word of each of the last lines.
LEMMA PrintedFirst ==
  ASSUME NEW v \in Values, OnlyNamesOdd(v)
  PROVE  /\ Printed(v)[4][1] = v[<<1, "subnet">>][1]
         /\ Printed(v)[5][1] = v[<<1, "gateway">>][1]
         /\ Printed(v)[6][1] = v[<<1, "dns1">>][1]
         /\ Printed(v)[7][1] = v[<<1, "dns2">>][1]
         /\ \A x \in NotGiven : v[<<1, x>>] = <<v[<<1, x>>][1]>>
<1>1. ASSUME NEW x \in NotGiven, NEW u \in {1, 2}
      PROVE  /\ <<u, x>> \in Field
             /\ v[<<u, x>>] \in Seq(Word)
             /\ Len(v[<<u, x>>]) = 1
  BY FieldNames DEF OnlyNamesOdd, NameField, Unit, NotGiven, Values
<1>2. ASSUME NEW x \in NotGiven
      PROVE  (v[<<1, x>>] \o v[<<2, x>>])[1] = v[<<1, x>>][1]
  <2>1. v[<<1, x>>] \o v[<<2, x>>] = <<v[<<1, x>>][1], v[<<2, x>>][1]>>
    BY <1>1, TwoWords
  <2> QED
    BY <2>1
<1>3. \A s \in Seq(Word) : Len(s) = 1 => s = <<s[1]>>
  OBVIOUS
<1>4. \A x \in NotGiven : v[<<1, x>>] = <<v[<<1, x>>][1]>>
  BY <1>1, <1>3, Zenon
<1>5. "subnet" \in NotGiven /\ "gateway" \in NotGiven /\ "dns1" \in NotGiven /\ "dns2" \in NotGiven
  BY DEF NotGiven
<1>6. /\ Printed(v)[4] = v[<<1, "subnet">>] \o v[<<2, "subnet">>]
      /\ Printed(v)[5] = v[<<1, "gateway">>] \o v[<<2, "gateway">>]
      /\ Printed(v)[6] = v[<<1, "dns1">>] \o v[<<2, "dns1">>]
      /\ Printed(v)[7] = v[<<1, "dns2">>] \o v[<<2, "dns2">>]
  BY PrintedLines
<1>7. Printed(v)[4][1] = v[<<1, "subnet">>][1]
  <2>1. (v[<<1, "subnet">>] \o v[<<2, "subnet">>])[1] = v[<<1, "subnet">>][1]
    BY <1>2, <1>5
  <2> QED
    BY <1>6, <2>1, Zenon
<1>8. Printed(v)[5][1] = v[<<1, "gateway">>][1]
  <2>1. (v[<<1, "gateway">>] \o v[<<2, "gateway">>])[1] = v[<<1, "gateway">>][1]
    BY <1>2, <1>5
  <2> QED
    BY <1>6, <2>1, Zenon
<1>9. Printed(v)[6][1] = v[<<1, "dns1">>][1]
  <2>1. (v[<<1, "dns1">>] \o v[<<2, "dns1">>])[1] = v[<<1, "dns1">>][1]
    BY <1>2, <1>5
  <2> QED
    BY <1>6, <2>1, Zenon
<1>10. Printed(v)[7][1] = v[<<1, "dns2">>][1]
  <2>1. (v[<<1, "dns2">>] \o v[<<2, "dns2">>])[1] = v[<<1, "dns2">>][1]
    BY <1>2, <1>5
  <2> QED
    BY <1>6, <2>1, Zenon
<1> QED
  BY <1>4, <1>7, <1>8, <1>9, <1>10

LEMMA PrintedGiven ==
  ASSUME NEW v \in Values, OnlyNamesOdd(v), Given(v)
  PROVE  GivenIn(Printed(v))
<1>1. \A x \in NotGiven : v[<<1, x>>][1] # SNAPPTIX_FILL
  BY PrintedFirst DEF Given
<1>2. \A l \in 4 .. 7 : l = 4 \/ l = 5 \/ l = 6 \/ l = 7
  OBVIOUS
<1> QED
  BY <1>1, <1>2, PrintedFirst DEF GivenIn, NotGiven

\* Where the settings are that may not have been given.
LEMMA PlaceOfGiven ==
    /\ Place[<<1, "subnet">>] = <<4, 1>>
    /\ Place[<<1, "gateway">>] = <<5, 1>>
    /\ Place[<<1, "dns1">>] = <<6, 1>>
    /\ Place[<<1, "dns2">>] = <<7, 1>>
<1>1. ASSUME NEW p \in (1 .. 7) \X (1 .. 3), p[2] \in DOMAIN SNAPPTIXCONF[p[1]],
             NEW l \in 4 .. 7,
             SNAPPTIXCONF[p[1]][p[2]] = SNAPPTIXCONF[l][1]
      PROVE  p = <<l, 1>>
  BY <1>1, Lines
<1>2. \A x \in {"subnet", "gateway", "dns1", "dns2"} : <<1, x>> \in Field
  BY FieldNames
<1>3. ASSUME NEW l \in 4 .. 7, SNAPPTIXCONF[l][1] \in Field
      PROVE  Place[SNAPPTIXCONF[l][1]] = <<l, 1>>
  BY <1>1, <1>3, PlaceIs, Lines
<1>4. /\ SNAPPTIXCONF[4][1] = <<1, "subnet">> /\ SNAPPTIXCONF[5][1] = <<1, "gateway">>
      /\ SNAPPTIXCONF[6][1] = <<1, "dns1">> /\ SNAPPTIXCONF[7][1] = <<1, "dns2">>
  BY Lines
<1>5. 4 \in 4 .. 7 /\ 5 \in 4 .. 7 /\ 6 \in 4 .. 7 /\ 7 \in 4 .. 7
  OBVIOUS
<1> QED
  BY <1>2, <1>3, <1>4, <1>5, Zenon

\* If the GUI shows a file's addresses it has read all of it.
LEMMA ShownGiven ==
  ASSUME NEW file \in File, Shows(Load(file)), GivenIn(file)
  PROVE  Given(Load(file))
<1>1. ASSUME NEW x \in NotGiven
      PROVE  <<1, x>> \in Field /\ <<1, x>> \in AddressField
  BY FieldNames DEF NotGiven, AddressField, Address, Own, Unit
<1>2. ASSUME NEW x \in NotGiven, NEW l \in 4 .. 7, Place[<<1, x>>] = <<l, 1>>
      PROVE  Load(file)[<<1, x>>] # <<SNAPPTIX_FILL>>
  <2>1. Load(file)[<<1, x>>] # Null
    BY <1>1 DEF Shows, IsAddress, Null
  <2>2. Reached(file, l, 1) /\ Load(file)[<<1, x>>] = <<file[l][1]>>
    BY <1>1, <1>2, <2>1 DEF Load
  <2> QED
    BY <2>2 DEF GivenIn, Reached
<1>3. \A x \in NotGiven : \E l \in 4 .. 7 : Place[<<1, x>>] = <<l, 1>>
  BY PlaceOfGiven DEF NotGiven
<1> QED
  BY <1>2, <1>3 DEF Given

-----------------------------------------------------------------------------
\* What the installers write.
LEMMA PartialType ==
  ASSUME NEW b \in SUBSET Optional
  PROVE  /\ Partial(b) \in Values
         /\ OneWord(Partial(b))
<1> SUFFICES ASSUME NEW f \in Field
             PROVE  Partial(b)[f] \in Seq(Word) /\ Len(Partial(b)[f]) = 1
  BY DEF Values, OneWord, Partial
<1>1. f \in Word /\ SNAPPTIX_FILL \in Word
  BY DEF Word
<1>2. CASE f[1] = 1
  <2>1. Partial(b)[f] = <<IF f[2] \in b THEN SNAPPTIX_FILL ELSE <<1, f[2]>>>>
    BY <1>2 DEF Partial, Entered
  <2>2. f = <<1, f[2]>>
    BY <1>2 DEF Field
  <2> QED
    BY <1>1, <2>1, <2>2
<1>3. CASE f \in {<<2, "host">>, <<0, "ip">>}
  <2>1. Partial(b)[f] = <<f>>
    BY <1>3 DEF Partial
  <2> QED
    BY <1>1, <2>1
<1>4. CASE f[1] # 1 /\ f \notin {<<2, "host">>, <<0, "ip">>}
  <2>1. Partial(b)[f] = <<SNAPPTIX_FILL>>
    BY <1>4 DEF Partial
  <2> QED
    BY <1>1, <2>1
<1> QED
  BY <1>2, <1>3, <1>4

LEMMA PartialScans ==
  ASSUME NEW b \in SUBSET Optional
  PROVE  Scans(Printed(Partial(b)))
<1> DEFINE file == Printed(Partial(b))
<1>1. Whole(file) /\ Load(file) = Partial(b)
  BY PartialType, LoadPrinted
<1>2. \A l \in 1 .. 7 : \A i \in DOMAIN SNAPPTIXCONF[l] :
         <<file[l][i]>> = Partial(b)[SNAPPTIXCONF[l][i]]
  BY PartialType, PrintedWords
<1>3. \A x \in Own \ {"host"} : Partial(b)[<<2, x>>] = <<SNAPPTIX_FILL>>
  BY DEF Partial, Field, Own, Unit
<1>4. \A l \in 1 .. 7 : Len(file[l]) = Len(SNAPPTIXCONF[l])
  BY <1>1, Lines DEF Whole
<1> HIDE DEF file
<1>5. /\ Len(file[1]) = 3 /\ Len(file[2]) = 3 /\ Len(file[3]) = 2
      /\ \A l \in 4 .. 7 : Len(file[l]) = 2
  <2>1. 1 \in 1 .. 7 /\ 2 \in 1 .. 7 /\ 3 \in 1 .. 7 /\ \A l \in 4 .. 7 : l \in 1 .. 7
    OBVIOUS
  <2> QED
    BY <1>4, <2>1, LineLengths, Zenon
<1>6. file[2][2] = SNAPPTIX_FILL /\ file[2][3] = SNAPPTIX_FILL
  <2>1. <<file[2][2]>> = Partial(b)[<<2, "ip">>] /\ <<file[2][3]>> = Partial(b)[<<2, "dev">>]
    <3>1. /\ 2 \in 1 .. 7 /\ 2 \in DOMAIN SNAPPTIXCONF[2] /\ 3 \in DOMAIN SNAPPTIXCONF[2]
          /\ SNAPPTIXCONF[2][2] = <<2, "ip">> /\ SNAPPTIXCONF[2][3] = <<2, "dev">>
      BY Lines
    <3>2. /\ <<file[2][2]>> = Partial(b)[SNAPPTIXCONF[2][2]]
          /\ <<file[2][3]>> = Partial(b)[SNAPPTIXCONF[2][3]]
      BY <1>2, <3>1, Zenon
    <3> QED
      BY <3>1, <3>2, Zenon
  <2>2. /\ Partial(b)[<<2, "ip">>] = <<SNAPPTIX_FILL>>
        /\ Partial(b)[<<2, "dev">>] = <<SNAPPTIX_FILL>>
    BY <1>3 DEF Own
  <2> QED
    BY <2>1, <2>2
<1>7. \A l \in 4 .. 6 : file[l][2] = SNAPPTIX_FILL
  <2>1. \A l \in 4 .. 7 : \E x \in NotGiven :
           /\ SNAPPTIXCONF[l] = <<<<1, x>>, <<2, x>>>>
           /\ 2 \in DOMAIN SNAPPTIXCONF[l] /\ SNAPPTIXCONF[l][2] = <<2, x>>
    BY Lines DEF NotGiven
  <2> SUFFICES ASSUME NEW l \in 4 .. 6
               PROVE  file[l][2] = SNAPPTIX_FILL
    OBVIOUS
  <2>2. PICK x \in NotGiven : 2 \in DOMAIN SNAPPTIXCONF[l] /\ SNAPPTIXCONF[l][2] = <<2, x>>
    BY <2>1
  <2>3. <<file[l][2]>> = Partial(b)[<<2, x>>]
    <3>1. l \in 1 .. 7
      OBVIOUS
    <3> QED
      BY <1>2, <2>2, <3>1, Zenon
  <2>4. Partial(b)[<<2, x>>] = <<SNAPPTIX_FILL>>
    BY <1>3 DEF NotGiven, Own
  <2> QED
    BY <2>3, <2>4
<1>8. file # Empty
  BY <1>1 DEF Whole
<1> QED
  BY <1>5, <1>6, <1>7, <1>8, Len(<<>>) = 0 DEF Scans, file

\* The alpha's file if nothing was left blank.
LEMMA PartialShows ==
    Shows(Partial({})) /\ Given(Partial({}))
<1>1. ASSUME NEW x \in Address
      PROVE  /\ Partial({})[<<1, x>>] = <<<<1, x>>>>
             /\ Partial({})[<<2, x>>] = <<SNAPPTIX_FILL>>
  BY DEF Partial, Entered, Field, Own, Unit, Address
<1>2. Partial({})[<<0, "ip">>] = <<<<0, "ip">>>>
  BY DEF Partial, Field
<1>3. \A x \in Address : IsAddress(<<<<1, x>>>>)
  BY DEF IsAddress, NullWord, Address, Own
<1>4. IsAddress(<<SNAPPTIX_FILL>>) /\ IsAddress(<<<<0, "ip">>>>)
  BY DEF IsAddress, SNAPPTIX_FILL, NullWord, Address, Own
<1>5. Shows(Partial({}))
  <2>1. ASSUME NEW f \in AddressField
        PROVE  f = <<0, "ip">> \/ \E x \in Address : f = <<1, x>> \/ f = <<2, x>>
    BY DEF AddressField, Unit
  <2>2. \A f \in AddressField : IsAddress(Partial({})[f])
    BY <1>1, <1>2, <1>3, <1>4, <2>1, Zenon
  <2> QED
    BY <2>2 DEF Shows
<1>6. Given(Partial({}))
  <2>1. \A x \in NotGiven : x \in Address /\ <<<<1, x>>>> # <<SNAPPTIX_FILL>>
    BY DEF NotGiven, Address, Own, SNAPPTIX_FILL
  <2> QED
    BY <1>1, <2>1 DEF Given
<1> QED
  BY <1>5, <1>6

\* The beta's file, after a file that was scanned.
LEMMA FullType ==
  ASSUME NEW file \in File, NEW b \in SUBSET Optional
  PROVE  Full(file, b) \in Values
<1> SUFFICES ASSUME NEW f \in Field
             PROVE  Full(file, b)[f] \in Seq(Word)
  BY DEF Values, Full
<1>1. f \in Word /\ SNAPPTIX_FILL \in Word
  BY DEF Word
<1>2. Load(file)[f] \in Seq(Word) /\ <<>> \in Seq(Word)
  BY LoadType DEF Values
<1>3. Scanned(file, f) \in Seq(Word)
  BY <1>2 DEF Scanned
<1>4. CASE f = <<0, "name">>
  BY <1>1, <1>4 DEF Full
<1>5. CASE f[1] = 2 /\ f # <<2, "host">>
  <2>1. f = <<2, f[2]>>
    BY <1>5 DEF Field
  <2>2. Full(file, b)[f] = Entered(2, f[2], b)
    BY <1>5 DEF Full
  <2> QED
    BY <1>1, <2>1, <2>2 DEF Entered
<1>6. CASE f # <<0, "name">> /\ ~(f[1] = 2 /\ f # <<2, "host">>)
  <2>1. Full(file, b)[f] = Scanned(file, f)
    BY <1>6 DEF Full
  <2> QED
    BY <1>3, <2>1
<1> QED
  BY <1>4, <1>5, <1>6

\* A file that fscanf() takes, and that has all the addresses: only the beta's own
\* settings change.
LEMMA FullIs ==
  ASSUME NEW file \in File, Given(Load(file)), NEW b \in SUBSET Optional, NEW f \in Field
  PROVE  Full(file, b)[f] = IF f = <<0, "name">> THEN <<SNAPPTIX_FILL>>
                            ELSE IF f[1] = 2 /\ f # <<2, "host">> THEN Entered(2, f[2], b)
                            ELSE Load(file)[f]
<1>1. CASE f = <<0, "name">>
  BY <1>1 DEF Full
<1>2. CASE f # <<0, "name">> /\ f[1] = 2 /\ f # <<2, "host">>
  BY <1>2 DEF Full
<1>3. CASE f # <<0, "name">> /\ ~(f[1] = 2 /\ f # <<2, "host">>)
  <2>1. Full(file, b)[f] = Scanned(file, f)
    BY <1>3 DEF Full
  <2>2. f = <<2, "host">> \/ f = <<0, "ip">> \/ \E x \in Own : f = <<1, x>>
    BY <1>3 DEF Field, Unit
  <2>3. f[2] \in NotGiven => Load(file)[f] # <<SNAPPTIX_FILL>>
    BY <2>2 DEF Given, NotGiven
  <2> QED
    BY <1>3, <2>1, <2>3 DEF Scanned, NotGiven
<1> QED
  BY <1>1, <1>2, <1>3

LEMMA FullShows ==
  ASSUME NEW file \in File, Shows(Load(file)), Given(Load(file)), NEW b \in SUBSET Optional
  PROVE  OneWord(Full(file, b)) /\ Shows(Full(file, b)) /\ Given(Full(file, b))
<1>1. OneWord(Full(file, b))
  <2> SUFFICES ASSUME NEW f \in Field
               PROVE  Len(Full(file, b)[f]) = 1
    BY DEF OneWord
  <2>1. Len(Load(file)[f]) = 1
    BY LoadOneWord DEF OneWord
  <2>2. Len(Entered(2, f[2], b)) = 1 /\ Len(<<SNAPPTIX_FILL>>) = 1
    BY DEF Entered
  <2> QED
    BY <2>1, <2>2, FullIs
<1>2. Shows(Full(file, b))
  <2> SUFFICES ASSUME NEW f \in AddressField
               PROVE  IsAddress(Full(file, b)[f])
    BY DEF Shows
  <2>1. f \in Field /\ f # <<0, "name">>
    BY DEF AddressField, Field, Address, Unit
  <2>2. IsAddress(Load(file)[f])
    BY DEF Shows
  <2>3. ASSUME f[1] = 2
        PROVE  IsAddress(Entered(2, f[2], b))
    <3>1. f[2] \in Address
      BY <2>3 DEF AddressField
    <3>2. IsAddress(<<<<2, f[2]>>>>) /\ IsAddress(<<SNAPPTIX_FILL>>)
      BY <3>1 DEF IsAddress, SNAPPTIX_FILL, NullWord, Address
    <3> QED
      BY <3>2 DEF Entered
  <2> QED
    BY <2>1, <2>2, <2>3, FullIs
<1>3. Given(Full(file, b))
  <2> SUFFICES ASSUME NEW x \in NotGiven
               PROVE  Full(file, b)[<<1, x>>] # <<SNAPPTIX_FILL>>
    BY DEF Given
  <2>1. <<1, x>> \in Field
    BY FieldNames DEF NotGiven
  <2>2. Full(file, b)[<<1, x>>] = Load(file)[<<1, x>>]
    BY <2>1, FullIs
  <2> QED
    BY <2>2 DEF Given
<1> QED
  BY <1>1, <1>2, <1>3

-----------------------------------------------------------------------------
\* The two files of a cluster whose alpha left nothing blank.
First == Printed(Partial({}))

LEMMA FirstFacts ==
    /\ First \in File /\ First # Empty /\ Whole(First) /\ Scans(First)
    /\ Load(First) = Partial({})
    /\ Shaped(First) /\ GivenIn(First)
<1>1. {} \in SUBSET Optional
  OBVIOUS
<1>2. Partial({}) \in Values /\ OneWord(Partial({})) /\ OnlyNamesOdd(Partial({}))
  BY <1>1, PartialType DEF OneWord, OnlyNamesOdd
<1> QED
  BY <1>1, <1>2, PartialShows, PartialScans, PrintedType, LoadPrinted, PrintedShaped, PrintedGiven
  DEF First

LEMMA SecondFacts ==
  ASSUME NEW b \in SUBSET Optional
  PROVE  /\ ~Scans(Printed(Full(First, b)))
         /\ Load(Printed(Full(First, b))) = Full(First, b)
<1> DEFINE v == Full(First, b)
<1>1. v \in Values /\ OneWord(v)
  BY FirstFacts, PartialShows, FullType, FullShows
<1>2. Load(Printed(v)) = v
  BY <1>1, LoadPrinted
<1>3. v[<<2, "ip">>] = <<<<2, "ip">>>>
  <2>1. <<2, "ip">> \in Field /\ "ip" \notin b
    BY FieldNames DEF Optional
  <2> QED
    BY <2>1, FirstFacts, PartialShows, FullIs DEF Entered
<1> HIDE DEF v
<1>4. <<Printed(v)[2][2]>> = <<<<2, "ip">>>>
  <2>1. 2 \in 1 .. 7 /\ 2 \in DOMAIN SNAPPTIXCONF[2] /\ SNAPPTIXCONF[2][2] = <<2, "ip">>
    BY Lines
  <2>2. <<Printed(v)[2][2]>> = v[SNAPPTIXCONF[2][2]]
    BY <1>1, <2>1, PrintedWords
  <2> QED
    BY <1>3, <2>1, <2>2, Zenon
<1>5. ~Scans(Printed(v))
  BY <1>4 DEF Scans, SNAPPTIX_FILL
<1> QED
  BY <1>2, <1>5 DEF v

LEMMA SecondIs ==
  ASSUME NEW b \in SUBSET Optional, NEW f \in Field
  PROVE  Full(First, b)[f] = IF f[1] = 0 THEN Partial({})[f]
                             ELSE Entered(f[1], f[2], IF f[1] = 1 THEN {} ELSE b)
<1>1. CASE f[1] = 0
  <2>1. f = <<0, "name">> \/ f = <<0, "ip">>
    BY <1>1 DEF Field, Unit
  <2>2. Partial({})[<<0, "name">>] = <<SNAPPTIX_FILL>>
    BY FieldNames DEF Partial
  <2> QED
    BY <1>1, <2>1, <2>2, FirstFacts, PartialShows, FullIs
<1>2. CASE f[1] = 1
  <2>1. Partial({})[f] = Entered(1, f[2], {})
    BY <1>2 DEF Partial
  <2> QED
    BY <1>2, <2>1, FirstFacts, PartialShows, FullIs
<1>3. CASE f[1] = 2 /\ f # <<2, "host">>
  BY <1>3, FirstFacts, PartialShows, FullIs
<1>4. CASE f = <<2, "host">>
  <2>1. Partial({})[f] = <<f>>
    BY <1>4 DEF Partial
  <2>2. Entered(2, "host", b) = <<<<2, "host">>>>
    BY DEF Entered, Optional
  <2> QED
    BY <1>4, <2>1, <2>2, FirstFacts, PartialShows, FullIs
<1>5. f[1] = 0 \/ f[1] = 1 \/ f[1] = 2
  BY DEF Field, Unit
<1> QED
  BY <1>1, <1>2, <1>3, <1>4, <1>5

-----------------------------------------------------------------------------
\* The type invariant.

GuiType == [up : {"off", "up", "broken"}, mem : Values, tab : Values,
            save : {"no", "open", "lost"}]

LEMMA EmptyType == Empty \in File /\ Off \in GuiType
<1>1. Empty \in File
  BY Len(<<>>) = 0 DEF File, Empty
<1>2. Load(Empty) \in Values
  BY <1>1, LoadType
<1> QED
  BY <1>1, <1>2 DEF Off, GuiType

LEMMA TypeInit == Init => TypeOK
<1> SUFFICES ASSUME Init
             PROVE  TypeOK
  OBVIOUS
<1>1. SyncTypeOK
  BY SyncInvInit DEF SyncInv
<1>2. conf \in [Unit -> File] /\ gui \in [Unit -> GuiType]
  BY EmptyType DEF Init
<1>3. /\ stage \in [Unit -> {"install", "network", "final", "done", "up"}]
      /\ numbered \in [Unit -> SUBSET Unit]
      /\ link \in [Unit -> {0} \cup Unit]
      /\ blank \in [Unit -> SUBSET Address]
  BY DEF Init
<1>4. /\ edits \in 0 .. MaxEdits
      /\ applies \in Nat /\ restarts \in Nat /\ applies + restarts <= MaxEvents
  BY BoundAssumption DEF Init
<1> QED
  BY <1>1, <1>2, <1>3, <1>4 DEF Init, TypeOK, GuiType

LEMMA SavedType ==
  ASSUME NEW u \in Unit, NEW tab \in Values
  PROVE  Saved(u, tab) \in Values
<1>1. <<u, "gateway">> \in Field
  BY FieldNames DEF Unit
<1> QED
  BY <1>1 DEF Values, Saved

\* What the steps do to the types, one variable after the other.
LEMMA ConfType ==
  ASSUME TypeOK, [Next]_vars
  PROVE  conf' \in [Unit -> File]
<1>1. conf \in [Unit -> File] /\ \A u \in Unit : gui[u].mem \in Values
  BY DEF TypeOK
<1>2. \A b \in Blanks : b \in SUBSET Optional
  BY BlankAssumption
<1>3. CASE InstallAlpha
  <2>1. PICK b \in Blanks : SetupConfigs(1, b, Printed(Partial(b)))
    BY <1>3 DEF InstallAlpha
  <2>2. Printed(Partial(b)) \in File
    BY <1>2, PartialType, PrintedType
  <2> QED
    BY <1>1, <2>1, <2>2 DEF SetupConfigs
<1>4. CASE ConfigureBeta
  <2>1. PICK b \in Blanks : SetupConfigs(2, b, Printed(Full(conf[2], b)))
    BY <1>4 DEF ConfigureBeta
  <2>2. Printed(Full(conf[2], b)) \in File
    BY <1>1, <1>2, FullType, PrintedType DEF Unit
  <2> QED
    BY <1>1, <2>1, <2>2 DEF SetupConfigs
<1>5. CASE Script
  BY <1>1, <1>5 DEF Script, Copied, clusterVars, unitVars, Unit
<1>6. CASE Sync \/ Reaped \/ GivenUp \/ BootBeta \/ UNCHANGED vars
  BY <1>1, <1>6 DEF Sync, Reaped, GivenUp, BootBeta, vars, clusterVars, unitVars
<1>7. CASE FinalSync
  BY <1>1, <1>7 DEF FinalSync, Unit
<1>8. CASE Restart
  BY <1>1, <1>8, EmptyType DEF Restart
<1>9. CASE Gui
  <2>1. PICK u \in Unit :
           GuiStart(u) \/ GuiStop(u) \/ Edit(u) \/ Cancel(u) \/ Apply(u) \/ Write(u)
    BY <1>9 DEF Gui
  <2>2. CASE Apply(u)
    BY <1>1, <2>2, EmptyType DEF Apply
  <2>3. CASE Write(u)
    <3>1. Printed(gui[u].mem) \in File
      BY <1>1, PrintedType
    <3> QED
      BY <1>1, <2>3, <3>1 DEF Write
  <2> QED
    BY <1>1, <2>1, <2>2, <2>3 DEF GuiStart, GuiStop, Edit, Cancel, unitVars
<1> QED
  BY <1>3, <1>4, <1>5, <1>6, <1>7, <1>8, <1>9 DEF Next, Installer

LEMMA GuiTyped ==
  ASSUME TypeOK, [Next]_vars
  PROVE  gui' \in [Unit -> GuiType]
<1>1. gui \in [Unit -> GuiType] /\ conf \in [Unit -> File]
  BY DEF TypeOK, GuiType
<1>2. CASE UNCHANGED gui
  BY <1>1, <1>2
<1>3. CASE FinalSync
  <2>1. \A g \in GuiType : Replaced(g) \in GuiType
    BY DEF Replaced, GuiType
  <2> QED
    BY <1>1, <1>3, <2>1 DEF FinalSync, Unit
<1>4. CASE Restart
  BY <1>1, <1>4, EmptyType DEF Restart
<1>5. ASSUME NEW u \in Unit, NEW g \in GuiType, SetGui(u, g)
      PROVE  gui' \in [Unit -> GuiType]
  BY <1>1, <1>5 DEF SetGui
<1>6. ASSUME NEW u \in Unit, GuiStart(u)
      PROVE  gui' \in [Unit -> GuiType]
  <2>1. Load(conf[u]) \in Values
    BY <1>1, LoadType
  <2>2. [up |-> IF Shows(Load(conf[u])) THEN "up" ELSE "broken",
         mem |-> Load(conf[u]), tab |-> Load(conf[u]), save |-> "no"] \in GuiType
    BY <2>1 DEF GuiType
  <2> QED
    BY <1>5, <1>6, <2>2 DEF GuiStart
<1>7. ASSUME NEW u \in Unit, GuiStop(u)
      PROVE  gui' \in [Unit -> GuiType]
  BY <1>5, <1>7, EmptyType DEF GuiStop
<1>8. ASSUME NEW u \in Unit, Edit(u)
      PROVE  gui' \in [Unit -> GuiType]
  <2>1. PICK e \in Edits(u) : SetGui(u, [gui[u] EXCEPT !.tab[e[1]] = e[2]])
    BY <1>8 DEF Edit
  <2>2. e[1] \in Field /\ e[2] \in Seq(Word)
    BY EditAssumption DEF AddressField, NameField, Field, Address, Own
  <2>3. [gui[u].tab EXCEPT ![e[1]] = e[2]] \in Values
    BY <1>1, <2>2 DEF GuiType, Values
  <2>4. [gui[u] EXCEPT !.tab[e[1]] = e[2]] \in GuiType
    BY <1>1, <2>3 DEF GuiType
  <2> QED
    BY <1>5, <2>1, <2>4
<1>9. ASSUME NEW u \in Unit, Cancel(u)
      PROVE  gui' \in [Unit -> GuiType]
  <2>1. [gui[u] EXCEPT !.tab = gui[u].mem] \in GuiType
    BY <1>1 DEF GuiType
  <2> QED
    BY <1>5, <1>9, <2>1 DEF Cancel
<1>10. ASSUME NEW u \in Unit, Apply(u)
       PROVE  gui' \in [Unit -> GuiType]
  <2> DEFINE mem == IF Distinct(gui[u].tab) THEN Saved(u, gui[u].tab) ELSE gui[u].mem
  <2>1. mem \in Values
    BY <1>1, SavedType DEF GuiType
  <2> HIDE DEF mem
  <2>2. [gui[u] EXCEPT !.mem = mem, !.save = "open"] \in GuiType
    BY <1>1, <2>1 DEF GuiType
  <2> USE DEF mem
  <2> QED
    BY <1>5, <1>10, <2>2 DEF Apply
<1>11. ASSUME NEW u \in Unit, Write(u)
       PROVE  gui' \in [Unit -> GuiType]
  <2>1. [gui[u] EXCEPT !.save = "no"] \in GuiType
    BY <1>1 DEF GuiType
  <2> QED
    BY <1>5, <1>11, <2>1 DEF Write
<1>12. CASE Gui
  BY <1>6, <1>7, <1>8, <1>9, <1>10, <1>11, <1>12 DEF Gui
<1>13. CASE Script \/ UNCHANGED vars
  BY <1>2, <1>13 DEF Script, Copied, vars, clusterVars, guiVars
<1>14. CASE InstallAlpha \/ Sync \/ Reaped \/ GivenUp \/ ConfigureBeta \/ BootBeta
  BY <1>2, <1>14
  DEF InstallAlpha, Sync, Reaped, GivenUp, ConfigureBeta, BootBeta, clusterVars, guiVars
<1> QED
  BY <1>3, <1>4, <1>12, <1>13, <1>14 DEF Next, Installer

LEMMA UnitsTyped ==
  ASSUME TypeOK, [Next]_vars
  PROVE  /\ stage' \in [Unit -> {"install", "network", "final", "done", "up"}]
         /\ numbered' \in [Unit -> SUBSET Unit]
         /\ link' \in [Unit -> {0} \cup Unit]
         /\ blank' \in [Unit -> SUBSET Address]
<1>1. /\ stage \in [Unit -> {"install", "network", "final", "done", "up"}]
      /\ numbered \in [Unit -> SUBSET Unit]
      /\ link \in [Unit -> {0} \cup Unit]
      /\ blank \in [Unit -> SUBSET Address]
  BY DEF TypeOK
<1>2. CASE UNCHANGED <<stage, numbered, link, blank>>
  BY <1>1, <1>2
<1>3. ASSUME NEW u \in Unit, NEW b \in Blanks, NEW file, SetupConfigs(u, b, file)
      PROVE  /\ numbered' \in [Unit -> SUBSET Unit]
             /\ link' \in [Unit -> {0} \cup Unit]
             /\ blank' \in [Unit -> SUBSET Address]
  <2>1. b \subseteq Address
    BY BlankAssumption DEF Optional, Address, Own
  <2> QED
    BY <1>1, <1>3, <2>1 DEF SetupConfigs
<1>4. CASE InstallAlpha
  BY <1>1, <1>3, <1>4 DEF InstallAlpha, Unit
<1>5. CASE ConfigureBeta
  BY <1>1, <1>3, <1>5 DEF ConfigureBeta, Unit
<1>6. ASSUME NEW d \in Dev, Copied(d)
      PROVE  /\ UNCHANGED <<stage, blank>>
             /\ numbered' \in [Unit -> SUBSET Unit]
             /\ link' \in [Unit -> {0} \cup Unit]
  BY <1>1, <1>6 DEF Copied, Excluded, Unit
<1>7. CASE Script
  BY <1>1, <1>2, <1>6, <1>7 DEF Script, clusterVars, unitVars
<1>8. CASE Sync \/ GivenUp \/ UNCHANGED vars
  BY <1>2, <1>8 DEF Sync, GivenUp, vars, clusterVars, unitVars
<1>9. CASE Reaped \/ BootBeta
  BY <1>1, <1>9 DEF Reaped, BootBeta
<1>10. CASE FinalSync
  <2>1. stage' = [stage EXCEPT ![2] = "done"] /\ UNCHANGED blank
    BY <1>10 DEF FinalSync
  <2>2. numbered' \in [Unit -> SUBSET Unit] /\ link' \in [Unit -> {0} \cup Unit]
    BY <1>1, <1>10 DEF FinalSync, Excluded, Unit
  <2> QED
    BY <1>1, <2>1, <2>2
<1>11. CASE Restart
  BY <1>1, <1>11 DEF Restart
<1>12. ASSUME NEW u \in Unit, Apply(u)
       PROVE  /\ UNCHANGED <<stage, numbered, link>>
              /\ blank' \in [Unit -> SUBSET Address]
  <2>1. UNCHANGED <<stage, numbered, link>>
    BY <1>12 DEF Apply
  <2>2. PICK empty \in SUBSET NotGiven : blank' = [blank EXCEPT ![u] = @ \cup empty]
    BY <1>12 DEF Apply
  <2>3. empty \subseteq Address
    BY DEF NotGiven, Address, Own
  <2> QED
    BY <1>1, <2>1, <2>2, <2>3
<1>13. CASE Gui
  BY <1>1, <1>2, <1>12, <1>13 DEF Gui, GuiStart, GuiStop, Edit, Cancel, Write, unitVars
<1> QED
  BY <1>4, <1>5, <1>7, <1>8, <1>9, <1>10, <1>11, <1>13 DEF Next, Installer

LEMMA CountsTyped ==
  ASSUME TypeOK, [Next]_vars
  PROVE  /\ edits' \in 0 .. MaxEdits
         /\ applies' \in Nat /\ restarts' \in Nat /\ applies' + restarts' <= MaxEvents
<1>1. /\ edits \in 0 .. MaxEdits
      /\ applies \in Nat /\ restarts \in Nat /\ applies + restarts <= MaxEvents
      /\ MaxEdits \in Nat /\ MaxEvents \in Nat
  BY BoundAssumption DEF TypeOK
<1>2. CASE UNCHANGED <<edits, applies, restarts>>
  BY <1>1, <1>2
<1>3. CASE Restart
  BY <1>1, <1>3 DEF Restart
<1>4. ASSUME NEW u \in Unit, Apply(u)
      PROVE  /\ UNCHANGED <<edits, restarts>>
             /\ applies' \in Nat /\ applies' + restarts' <= MaxEvents
  BY <1>1, <1>4 DEF Apply
<1>5. ASSUME NEW u \in Unit, Edit(u)
      PROVE  UNCHANGED <<applies, restarts>> /\ edits' \in 0 .. MaxEdits
  BY <1>1, <1>5 DEF Edit
<1>6. CASE Gui
  BY <1>1, <1>2, <1>4, <1>5, <1>6 DEF Gui, GuiStart, GuiStop, Cancel, Write
<1>7. CASE Script \/ UNCHANGED vars
  BY <1>2, <1>7 DEF Script, Copied, vars, clusterVars, guiVars
<1>8. CASE Installer
  BY <1>2, <1>8
  DEF Installer, InstallAlpha, Sync, Reaped, GivenUp, ConfigureBeta, FinalSync, BootBeta,
      clusterVars, guiVars
<1> QED
  BY <1>3, <1>6, <1>7, <1>8 DEF Next

LEMMA HistoryTyped ==
  ASSUME TypeOK, [Next]_vars
  PROVE  /\ told' \in BOOLEAN
         /\ stale' \subseteq Unit /\ torn' \subseteq Unit /\ odd' \subseteq Unit
<1>1. told \in BOOLEAN /\ stale \subseteq Unit /\ torn \subseteq Unit /\ odd \subseteq Unit
  BY DEF TypeOK
<1>2. CASE UNCHANGED historyVars
  BY <1>1, <1>2 DEF historyVars
<1>3. CASE FinalSync
  <2>1. told' \in BOOLEAN
    BY <1>3 DEF FinalSync
  <2>2. stale' \subseteq Unit
    BY <1>1, <1>3 DEF FinalSync, Unit
  <2> QED
    BY <1>1, <1>3, <2>1, <2>2 DEF FinalSync
<1>4. CASE Restart
  BY <1>1, <1>4 DEF Restart
<1>5. CASE Gui
  <2>1. PICK u \in Unit :
           GuiStart(u) \/ GuiStop(u) \/ Edit(u) \/ Cancel(u) \/ Apply(u) \/ Write(u)
    BY <1>5 DEF Gui
  <2>2. CASE GuiStart(u) \/ GuiStop(u)
    BY <1>1, <2>2 DEF GuiStart, GuiStop
  <2>3. CASE Apply(u)
    BY <1>1, <2>3 DEF Apply
  <2> QED
    BY <1>2, <2>1, <2>2, <2>3 DEF Edit, Cancel, Write
<1>6. CASE Script \/ UNCHANGED vars
  BY <1>2, <1>6 DEF Script, Copied, vars, clusterVars
<1>7. CASE InstallAlpha \/ Sync \/ Reaped \/ GivenUp \/ ConfigureBeta \/ BootBeta
  BY <1>2, <1>7
  DEF InstallAlpha, Sync, Reaped, GivenUp, ConfigureBeta, BootBeta, clusterVars
<1> QED
  BY <1>3, <1>4, <1>5, <1>6, <1>7 DEF Next, Installer

LEMMA TypeNext ==
  ASSUME SyncInv, TypeOK, [Next]_vars
  PROVE  TypeOK'
<1>1. SyncTypeOK'
  <2>1. SyncInv'
    BY ClusterStep, SyncInvNext, SyncInvStutter
  <2> QED
    BY <2>1 DEF SyncInv
<1> QED
  BY <1>1, ConfType, GuiTyped, UnitsTyped, CountsTyped, HistoryTyped DEF TypeOK, GuiType

-----------------------------------------------------------------------------
\* How far the units are, and what may run on them then: GUIs only on installed units,
\* a worker only before the network page, one unit told of the other only after a sync.
InOrder ==
    /\ stage[1] \in {"install", "up"}
    /\ stage[1] = "install" => stage[2] = "install" /\ worker = "none" /\ ~told
    /\ worker = "running" => stage[2] = "install"
    /\ \A u \in Unit : /\ gui[u].up # "off" => stage[u] = "up"
                       /\ gui[u].save # "no" => gui[u].up = "up"
                       /\ gui[u].save = "lost" => u \in stale
                       /\ u \in torn \cup odd => stage[u] = "up"
    /\ stale \subseteq {1}
    /\ 1 \in stale => told
    /\ applies = 0 => odd = {} /\ torn = {} /\ \A u \in Unit : gui[u].save = "no"

Base == SyncInv /\ TypeOK /\ InOrder

LEMMA BaseInit == Init => Base
<1> SUFFICES ASSUME Init
             PROVE  Base
  OBVIOUS
<1>1. SyncInv /\ TypeOK
  BY SyncInvInit, TypeInit
<1>2. InOrder
  BY DEF Init, SyncInit, InOrder, Off, Unit
<1> QED
  BY <1>1, <1>2 DEF Base

\* A step of the GUI changes neither the stages nor the worker.
LEMMA GuiOrder ==
  ASSUME Base, NEW u \in Unit,
         GuiStart(u) \/ GuiStop(u) \/ Edit(u) \/ Cancel(u) \/ Apply(u) \/ Write(u)
  PROVE  InOrder'
<1>1. /\ gui \in [Unit -> GuiType] /\ applies \in Nat
      /\ stale \subseteq Unit /\ torn \subseteq Unit /\ odd \subseteq Unit
  BY DEF Base, TypeOK, GuiType
<1>2. UNCHANGED <<stage, worker, told>>
  BY DEF GuiStart, GuiStop, Edit, Cancel, Apply, Write, unitVars, syncVars, workerVars,
         historyVars
<1>3. InOrder
  BY DEF Base
<1>4. CASE GuiStart(u)
  <2>1. PICK mem : gui' = [gui EXCEPT ![u] =
           [up |-> IF Shows(mem) THEN "up" ELSE "broken", mem |-> mem, tab |-> mem,
            save |-> "no"]]
    BY <1>4 DEF GuiStart, SetGui
  <2>2. /\ stage[u] = "up" /\ stale' = stale \ {u}
        /\ torn' = torn /\ odd' = odd /\ applies' = applies
        /\ gui[u].up = "off"
    BY <1>4 DEF GuiStart
  <2> QED
    BY <1>1, <1>2, <1>3, <2>1, <2>2 DEF InOrder
<1>5. CASE GuiStop(u)
  <2>1. /\ gui' = [gui EXCEPT ![u] = Off] /\ gui[u].up # "off"
        /\ torn' = torn \cup IF gui[u].save = "open" THEN {u} ELSE {}
        /\ stale' = stale /\ odd' = odd /\ applies' = applies
    BY <1>5 DEF GuiStop, SetGui
  <2> QED
    BY <1>1, <1>2, <1>3, <2>1 DEF InOrder, Off
<1>6. CASE Edit(u) \/ Cancel(u)
  <2>1. /\ \A n \in Unit : gui'[n].up = gui[n].up /\ gui'[n].save = gui[n].save
        /\ stale' = stale /\ odd' = odd /\ torn' = torn /\ applies' = applies
    BY <1>1, <1>6 DEF Edit, Cancel, SetGui, GuiType, historyVars
  <2> QED
    BY <1>2, <1>3, <2>1 DEF InOrder
<1>7. CASE Apply(u)
  <2>1. /\ gui[u].up = "up" /\ applies' = applies + 1
        /\ \A n \in Unit : /\ gui'[n].up = gui[n].up
                           /\ gui'[n].save = IF n = u THEN "open" ELSE gui[n].save
        /\ stale' = stale /\ torn' = torn /\ odd' \subseteq odd \cup {u}
    BY <1>1, <1>7 DEF Apply, Running, SetGui, GuiType
  <2> QED
    BY <1>1, <1>2, <1>3, <2>1 DEF InOrder
<1>8. CASE Write(u)
  <2>1. /\ \A n \in Unit : /\ gui'[n].up = gui[n].up
                           /\ gui'[n].save = IF n = u THEN "no" ELSE gui[n].save
        /\ stale' = stale /\ odd' = odd /\ torn' = torn /\ applies' = applies
    BY <1>1, <1>8 DEF Write, SetGui, GuiType, historyVars
  <2> QED
    BY <1>2, <1>3, <2>1 DEF InOrder
<1> QED
  BY <1>4, <1>5, <1>6, <1>7, <1>8

LEMMA OrderNext ==
  ASSUME Base, [Next]_vars
  PROVE  InOrder'
<1>1. /\ gui \in [Unit -> GuiType] /\ applies \in Nat
      /\ stage \in [Unit -> {"install", "network", "final", "done", "up"}]
      /\ stale \subseteq Unit /\ torn \subseteq Unit /\ odd \subseteq Unit
  BY DEF Base, TypeOK, GuiType
<1>2. InOrder
  BY DEF Base
<1>3. CASE Gui
  BY <1>3, GuiOrder DEF Gui
<1>4. CASE UNCHANGED <<stage, worker, gui, applies, told, stale, torn, odd>>
  BY <1>2, <1>4 DEF InOrder
<1>5. CASE Script
  <2>1. UNCHANGED <<stage, gui, applies, told, stale, torn, odd>>
    BY <1>5 DEF Script, Copied, clusterVars, unitVars, guiVars, historyVars
  <2>2. UNCHANGED worker
    BY <1>5
    DEF Script, Copied, Fetched, SyncScript, Up, Ping, Fetch, FetchFails, Prepare, DrbdStarted,
        Poll, Stop, BrokenPipe, workerVars
  <2> QED
    BY <1>4, <2>1, <2>2
<1>6. CASE UNCHANGED vars
  BY <1>4, <1>6 DEF vars, clusterVars, unitVars, guiVars, historyVars, syncVars, workerVars
<1>7. CASE InstallAlpha
  <2>1. /\ stage[1] = "install" /\ stage' = [stage EXCEPT ![1] = "up"]
        /\ UNCHANGED <<worker, gui, applies, told, stale, torn, odd>>
    BY <1>7 DEF InstallAlpha, syncVars, workerVars, guiVars, historyVars
  <2> QED
    BY <1>1, <1>2, <2>1 DEF InOrder, Unit
<1>8. CASE Sync \/ GivenUp
  <2>1. /\ UNCHANGED <<stage, gui, applies, told, stale, torn, odd>>
        /\ stage[1] = "up" /\ stage[2] = "install"
    BY <1>2, <1>8 DEF Sync, GivenUp, LineTooLong, InOrder, clusterVars, unitVars, guiVars, historyVars
  <2> QED
    BY <1>2, <2>1 DEF InOrder
<1>9. CASE Reaped
  <2>1. /\ UNCHANGED <<gui, applies, told, stale, torn, odd>>
        /\ stage[1] = "up" /\ stage[2] = "install"
    BY <1>2, <1>9 DEF Reaped, Waitpid, InOrder, guiVars, historyVars
  <2>2. stage' = [stage EXCEPT ![2] = IF worker' = "success" THEN "network" ELSE @]
    BY <1>9 DEF Reaped
  <2> QED
    BY <1>1, <1>2, <2>1, <2>2 DEF InOrder, Unit
<1>10. CASE ConfigureBeta
  <2>1. /\ stage[2] = "network" /\ stage' = [stage EXCEPT ![2] = "final"]
        /\ UNCHANGED <<worker, gui, applies, told, stale, torn, odd>>
    BY <1>10 DEF ConfigureBeta, syncVars, workerVars, guiVars, historyVars
  <2> QED
    BY <1>1, <1>2, <2>1 DEF InOrder, Unit
<1>11. CASE FinalSync
  <2>1. /\ stage[2] = "final" /\ stage' = [stage EXCEPT ![2] = "done"]
        /\ UNCHANGED <<worker, applies, torn, odd>>
    BY <1>11 DEF FinalSync, syncVars, workerVars
  <2>2. \/ UNCHANGED gui /\ stale' = stale /\ told' = told
        \/ /\ gui' = [gui EXCEPT ![1] = Replaced(@)]
           /\ stale' = stale \cup IF gui[1].up # "off" THEN {1} ELSE {}
           /\ told' = TRUE
    <3>1. PICK sent \in SUBSET {"conf", "numbered", "link"} :
             /\ gui' = IF "conf" \in sent THEN [gui EXCEPT ![1] = Replaced(@)] ELSE gui
             /\ stale' = stale \cup IF "conf" \in sent /\ gui[1].up # "off" THEN {1} ELSE {}
             /\ told' = (told \/ "conf" \in sent)
      BY <1>11 DEF FinalSync
    <3>2. told \in BOOLEAN
      BY DEF Base, TypeOK
    <3>3. CASE "conf" \in sent
      BY <3>1, <3>3
    <3>4. CASE "conf" \notin sent
      <4>1. told' = told
        BY <3>1, <3>2, <3>4
      <4>2. gui' = gui /\ stale' = stale
        BY <3>1, <3>4
      <4> QED
        BY <4>1, <4>2
    <3> QED
      BY <3>3, <3>4
  <2>3. CASE UNCHANGED gui /\ stale' = stale /\ told' = told
    BY <1>1, <1>2, <2>1, <2>3 DEF InOrder, Unit
  <2>4. CASE /\ gui' = [gui EXCEPT ![1] = Replaced(@)]
             /\ stale' = stale \cup IF gui[1].up # "off" THEN {1} ELSE {}
             /\ told' = TRUE
    <3>1. /\ \A n \in Unit : gui'[n].up = gui[n].up
          /\ gui'[2] = gui[2]
          /\ gui'[1].save = IF gui[1].save = "open" THEN "lost" ELSE gui[1].save
      BY <1>1, <2>4 DEF Replaced, GuiType, Unit
    <3> QED
      BY <1>1, <1>2, <2>1, <2>4, <3>1 DEF InOrder, Unit
  <2> QED
    BY <2>2, <2>3, <2>4
<1>12. CASE BootBeta
  <2>1. /\ stage[2] = "done" /\ stage' = [stage EXCEPT ![2] = "up"] /\ worker' = "none"
        /\ UNCHANGED <<gui, applies, told, stale, torn, odd>>
    BY <1>12 DEF BootBeta, SyncReboot, guiVars, historyVars
  <2> QED
    BY <1>1, <1>2, <2>1 DEF InOrder, Unit
<1>13. CASE Restart
  <2>1. /\ stage[1] = "up" /\ stage' = [stage EXCEPT ![2] = "install"] /\ worker' = "none"
        /\ gui' = [gui EXCEPT ![2] = Off]
        /\ stale' = stale \ {2} /\ torn' = torn \ {2} /\ odd' = odd \ {2}
        /\ UNCHANGED <<applies, told>>
    BY <1>2, <1>13 DEF Restart, SyncRestart, SyncReboot, InOrder
  <2> QED
    BY <1>1, <1>2, <2>1 DEF InOrder, Unit, Off
<1> QED
  BY <1>3, <1>5, <1>6, <1>7, <1>8, <1>9, <1>10, <1>11, <1>12, <1>13 DEF Next, Installer

LEMMA BaseNext ==
  ASSUME Base, [Next]_vars
  PROVE  Base'
<1>1. SyncInv'
  BY ClusterStep, SyncInvNext, SyncInvStutter DEF Base
<1>2. TypeOK'
  BY TypeNext DEF Base
<1> QED
  BY <1>1, <1>2, OrderNext DEF Base

-----------------------------------------------------------------------------
\* The file the beta finds.

\* The script the worker listens to has copied the alpha's files.
HasCopied(d) == Piped(d) /\ script[d] \in {"prepare", "poll", "stop", "success"}

\* What setup_configs() may have written on the alpha.
AlphaFiles == {Printed(Partial(b)) : b \in Blanks}

\* While nobody has clicked Apply and no beta has written itself to the alpha, that is
\* what is on the alpha, and what was copied from there.
FirstFile ==
    /\ applies = 0 /\ ~told =>
          /\ stage[1] = "up" => conf[1] \in AlphaFiles
          /\ \A d \in Dev : HasCopied(d) => conf[2] \in AlphaFiles
    /\ worker = "failure" /\ device \in Dev => applies > 0 \/ told

\* The script the worker listens to has copied the files in this step or before.
LEMMA CopiedOrNow ==
  ASSUME Base, [Next]_vars, NEW d \in Dev, HasCopied(d)'
  PROVE  Copied(d) \/ (HasCopied(d) /\ UNCHANGED <<worker, device>>)
<1> USE DEF HasCopied, Piped
<1>1. script \in [Dev -> Exited \cup {"up", "ping", "rsync", "prepare", "poll", "stop"}]
  BY DEF Base, TypeOK, SyncTypeOK
<1>2. CASE UNCHANGED <<worker, device, script>>
  BY <1>2
<1>3. ASSUME NEW e, TurnTo(e)
      PROVE  FALSE
  BY <1>1, <1>3 DEF TurnTo
<1>4. CASE Script
  <2>1. PICK c \in Dev : Copied(c) \/ (SyncScript(c) /\ UNCHANGED clusterVars)
    BY <1>4 DEF Script
  <2>2. CASE Copied(c)
    BY <1>1, <2>2 DEF Copied, Fetched, Goes, workerVars
  <2>3. CASE SyncScript(c)
    <3>1. UNCHANGED <<worker, device>>
      BY <2>3 DEF SyncScript, Up, Ping, Fetch, FetchFails, Prepare, DrbdStarted, Poll, Stop,
                  BrokenPipe, workerVars
    <3>2. CASE d # c
      BY <1>1, <2>3, <3>1, <3>2
      DEF SyncScript, Up, Ping, Fetch, FetchFails, Prepare, DrbdStarted, Poll, Stop,
          BrokenPipe, Goes
    <3>3. CASE d = c
      BY <1>1, <2>3, <3>1, <3>3
      DEF SyncScript, Up, Ping, Fetch, FetchFails, Prepare, DrbdStarted, Poll, Stop,
          BrokenPipe, Goes
    <3> QED
      BY <3>2, <3>3
  <2> QED
    BY <2>1, <2>2, <2>3
<1>5. CASE Sync \/ GivenUp
  BY <1>3, <1>5 DEF Sync, SyncStart, GivenUp, LineTooLong
<1>6. CASE Reaped
  BY <1>3, <1>6 DEF Reaped, Waitpid
<1>7. CASE BootBeta \/ Restart
  BY <1>7 DEF BootBeta, Restart, SyncRestart, SyncReboot
<1>8. CASE InstallAlpha \/ ConfigureBeta \/ FinalSync \/ Gui \/ UNCHANGED vars
  BY <1>2, <1>8
  DEF InstallAlpha, ConfigureBeta, FinalSync, Gui, GuiStart, GuiStop, Edit, Cancel, Apply, Write,
      vars, syncVars, workerVars, scriptVars
<1> QED
  BY <1>4, <1>5, <1>6, <1>7, <1>8 DEF Next, Installer

\* Which steps change a file while nobody clicks Apply.
LEMMA QuietStep ==
  ASSUME Base, [Next]_vars, applies' = 0
  PROVE  /\ applies = 0
         /\ told => told'
         /\ \/ InstallAlpha \/ (\E d \in Dev : Copied(d)) \/ ConfigureBeta \/ FinalSync
            \/ Restart \/ UNCHANGED conf
<1>1. applies \in Nat /\ told \in BOOLEAN /\ (applies = 0 => \A u \in Unit : gui[u].save = "no")
  BY DEF Base, TypeOK, InOrder
<1>2. CASE Gui
  <2>1. PICK u \in Unit :
           GuiStart(u) \/ GuiStop(u) \/ Edit(u) \/ Cancel(u) \/ Apply(u) \/ Write(u)
    BY <1>2 DEF Gui
  <2>2. ~Apply(u)
    BY <1>1 DEF Apply
  <2>3. applies = 0
    BY <2>1, <2>2 DEF GuiStart, GuiStop, Edit, Cancel, Write
  <2>4. ~Write(u)
    BY <1>1, <2>3 DEF Write
  <2> QED
    BY <2>1, <2>2, <2>3, <2>4 DEF GuiStart, GuiStop, Edit, Cancel, unitVars, historyVars
<1>3. CASE Script
  BY <1>3 DEF Script, Copied, clusterVars, unitVars, guiVars, historyVars
<1>4. CASE InstallAlpha \/ Sync \/ Reaped \/ GivenUp \/ ConfigureBeta \/ BootBeta
  BY <1>4
  DEF InstallAlpha, Sync, Reaped, GivenUp, ConfigureBeta, BootBeta, clusterVars, unitVars,
      guiVars, historyVars
<1>5. CASE FinalSync
  <2>1. applies' = applies
    BY <1>5 DEF FinalSync
  <2>2. told => told'
    BY <1>1, <1>5 DEF FinalSync
  <2> QED
    BY <1>5, <2>1, <2>2
<1>6. CASE Restart
  BY <1>6 DEF Restart
<1>7. CASE UNCHANGED vars
  BY <1>7 DEF vars, clusterVars, unitVars, guiVars, historyVars
<1> QED
  BY <1>2, <1>3, <1>4, <1>5, <1>6, <1>7 DEF Next, Installer

LEMMA FirstFileInit == Init => FirstFile
<1> SUFFICES ASSUME Init
             PROVE  FirstFile
  OBVIOUS
<1>1. stage[1] = "install" /\ worker = "none"
  BY DEF Init, SyncInit, Unit
<1> QED
  BY <1>1 DEF FirstFile, HasCopied, Piped

LEMMA AlphaFilesScan == \A file \in AlphaFiles : Scans(file)
  BY BlankAssumption, PartialScans DEF AlphaFiles

\* The files of both units, and where they have been copied to.
LEMMA FirstFileNext ==
  ASSUME Base, FirstFile, [Next]_vars
  PROVE  FirstFile'
<1>1. Base' /\ applies \in Nat /\ applies' \in Nat /\ told \in BOOLEAN /\ told' \in BOOLEAN
  BY BaseNext DEF Base, TypeOK
<1>2. conf \in [Unit -> File]
  BY DEF Base, TypeOK
<1>3. ASSUME applies' = 0, ~told'
      PROVE  applies = 0 /\ ~told
  BY <1>3, QuietStep
<1>4. ASSUME applies' = 0, ~told', stage'[1] = "up"
      PROVE  conf'[1] \in AlphaFiles
  <2>1. applies = 0 /\ ~told
    BY <1>3, <1>4
  <2>2. CASE InstallAlpha
    BY <1>2, <2>2 DEF InstallAlpha, SetupConfigs, AlphaFiles, Unit
  <2>3. CASE ~InstallAlpha
    <3>1. stage[1] = "up"
      <4>1. stage \in [Unit -> {"install", "network", "final", "done", "up"}]
        BY DEF Base, TypeOK
      <4>2. CASE Reaped \/ ConfigureBeta \/ FinalSync \/ BootBeta \/ Restart
        BY <1>4, <4>1, <4>2 DEF Reaped, ConfigureBeta, FinalSync, BootBeta, Restart, Unit
      <4>3. CASE Gui
        BY <1>4, <4>3
        DEF Gui, GuiStart, GuiStop, Edit, Cancel, Apply, Write, unitVars
      <4> QED
        BY <1>4, <2>3, <4>2, <4>3
        DEF Next, Script, Copied, Installer, Sync, GivenUp, vars,
            clusterVars, unitVars, Unit
    <3>2. conf'[1] = conf[1]
      <4>1. ASSUME FinalSync
            PROVE  conf' = conf
        BY <1>1, <1>4, <4>1 DEF FinalSync
      <4> QED
        BY <1>2, <1>4, <2>3, <4>1, QuietStep
        DEF Copied, ConfigureBeta, SetupConfigs, Restart, Unit
    <3> QED
      BY <2>1, <3>1, <3>2 DEF FirstFile
  <2> QED
    BY <2>2, <2>3
<1>5. ASSUME applies' = 0, ~told', NEW d \in Dev, HasCopied(d)'
      PROVE  conf'[2] \in AlphaFiles
  <2>1. applies = 0 /\ ~told
    BY <1>3, <1>5
  <2>2. CASE Copied(d)
    <3>1. stage[1] = "up"
      BY <2>2 DEF Copied, Fetched, Piped, Base, InOrder
    <3>2. conf'[2] = conf[1]
      BY <1>2, <2>2 DEF Copied, Unit
    <3> QED
      BY <2>1, <3>1, <3>2 DEF FirstFile
  <2>3. CASE HasCopied(d) /\ UNCHANGED <<worker, device>> /\ ~Copied(d)
    <3>1. stage[2] = "install" /\ stage[1] = "up"
      BY <2>3 DEF HasCopied, Piped, Base, InOrder
    <3>2. conf'[2] = conf[2]
      <4>1. \A c \in Dev : ~Copied(c)
        BY <2>3 DEF HasCopied, Copied, Fetched, Piped
      <4>2. ~InstallAlpha /\ ~ConfigureBeta /\ ~FinalSync
        BY <3>1 DEF InstallAlpha, ConfigureBeta, FinalSync
      <4>3. ~Restart
        BY <2>3 DEF HasCopied, Piped, Restart, SyncRestart, SyncReboot
      <4> QED
        BY <1>5, <4>1, <4>2, <4>3, QuietStep
    <3> QED
      BY <2>1, <2>3, <3>2 DEF FirstFile
  <2> QED
    BY <1>5, <2>2, <2>3, CopiedOrNow
<1>6. ASSUME worker' = "failure", device' \in Dev, applies' = 0, ~told'
      PROVE  FALSE
  <2>1. applies = 0 /\ ~told
    BY <1>3, <1>6
  <2>2. ~(worker = "failure" /\ device \in Dev)
    BY <2>1 DEF FirstFile
  <2>3. ASSUME NEW e, TurnTo(e)
        PROVE  FALSE
    BY <1>6, <2>3 DEF TurnTo
  <2>4. Reaped
    <3>1. ~UNCHANGED <<worker, device>>
      BY <1>6, <2>2
    <3>2. ~Sync /\ ~GivenUp
      BY <2>3 DEF Sync, SyncStart, GivenUp, LineTooLong
    <3>3. ~BootBeta /\ ~Restart
      BY <1>6 DEF BootBeta, Restart, SyncRestart, SyncReboot
    <3>4. ~Script
      BY <3>1
      DEF Script, Copied, Fetched, SyncScript, Up, Ping, Fetch, FetchFails, Prepare, DrbdStarted,
          Poll, Stop, BrokenPipe, workerVars
    <3>5. ~InstallAlpha /\ ~ConfigureBeta /\ ~FinalSync /\ ~Gui /\ ~UNCHANGED vars
      BY <3>1
      DEF InstallAlpha, ConfigureBeta, FinalSync, Gui, GuiStart, GuiStop, Edit, Cancel, Apply,
          Write, vars, syncVars, workerVars
    <3> QED
      BY <3>2, <3>3, <3>4, <3>5 DEF Next, Installer
  <2>5. /\ worker = "running" /\ script[device] = "success" /\ device' = device
        /\ ~Scans(conf[2])
    BY <1>6, <2>3, <2>4 DEF Reaped, Waitpid
  <2>6. HasCopied(device)
    BY <2>5 DEF HasCopied, Piped
  <2>7. conf[2] \in AlphaFiles
    BY <1>6, <2>1, <2>5, <2>6 DEF FirstFile
  <2> QED
    BY <2>5, <2>7, AlphaFilesScan
<1>7. applies' > 0 \/ applies' = 0
  BY <1>1
<1> QED
  BY <1>4, <1>5, <1>6, <1>7 DEF FirstFile
\* The type invariant of the two units, their files, GUIs and of the synchronization
\* (TypeOK): a file is empty or has seven lines, and no GUI ever holds anything but
\* sequences of words.
THEOREM ClusterTypes == Spec => []TypeOK
<1>1. Base => TypeOK
  BY DEF Base
<1> QED
  BY BaseInit, BaseNext, <1>1, PTL DEF Spec

\* sync_with_alpha() refuses a file it has copied only after a click on Apply, or when
\* another beta was installed before (RefusedOnlyIf): whatever the alpha's user left
\* blank, setup_configs() writes a file that scan_alpha_configs() takes.
THEOREM RefusedOnly == Spec => []RefusedOnlyIf
<1>1. FirstFile => RefusedOnlyIf
  BY DEF FirstFile, RefusedOnlyIf
<1> QED
  BY BaseInit, BaseNext, FirstFileInit, FirstFileNext, <1>1, PTL DEF Spec

-----------------------------------------------------------------------------
\* One step of a GUI.

GuiStep(u) == GuiStart(u) \/ GuiStop(u) \/ Edit(u) \/ Cancel(u) \/ Apply(u) \/ Write(u)

\* A step of one unit's GUI leaves the other unit alone.
LEMMA GuiElsewhere ==
  ASSUME Base, NEW u \in Unit, GuiStep(u), NEW n \in Unit, n # u
  PROVE  /\ gui'[n] = gui[n] /\ conf'[n] = conf[n] /\ blank'[n] = blank[n]
         /\ n \in odd' <=> n \in odd
         /\ n \in stale' <=> n \in stale
         /\ n \in torn' <=> n \in torn
<1>1. /\ gui \in [Unit -> GuiType] /\ conf \in [Unit -> File] /\ blank \in [Unit -> SUBSET Address]
      /\ stale \subseteq Unit /\ torn \subseteq Unit /\ odd \subseteq Unit
  BY DEF Base, TypeOK, GuiType
<1>2. gui'[n] = gui[n]
  BY <1>1
  DEF GuiStep, GuiStart, GuiStop, Edit, Cancel, Apply, Write, SetGui
<1>3. conf'[n] = conf[n] /\ blank'[n] = blank[n]
  BY <1>1
  DEF GuiStep, GuiStart, GuiStop, Edit, Cancel, Apply, Write, unitVars
<1>4. /\ n \in odd' <=> n \in odd
      /\ n \in stale' <=> n \in stale
      /\ n \in torn' <=> n \in torn
  BY <1>1
  DEF GuiStep, GuiStart, GuiStop, Edit, Cancel, Apply, Write, historyVars
<1> QED
  BY <1>2, <1>3, <1>4

\* And what it makes of its own.
LEMMA GuiHere ==
  ASSUME Base, NEW u \in Unit
  PROVE  /\ GuiStart(u) =>
               /\ stage[u] = "up" /\ conf' = conf /\ blank' = blank /\ torn' = torn /\ odd' = odd
               /\ gui'[u].up = (IF Shows(Load(conf[u])) THEN "up" ELSE "broken")
               /\ gui'[u].mem = Load(conf[u]) /\ gui'[u].tab = Load(conf[u])
               /\ gui'[u].save = "no"
               /\ u \notin stale'
         /\ GuiStop(u) =>
               /\ gui'[u].up = "off"
               /\ conf' = conf /\ blank' = blank /\ odd' = odd
               /\ torn' = torn \cup IF gui[u].save = "open" THEN {u} ELSE {}
         /\ Cancel(u) =>
               /\ conf' = conf /\ blank' = blank /\ UNCHANGED <<stale, torn, odd>>
               /\ gui[u].up = "up" /\ gui'[u].up = "up"
               /\ gui'[u].mem = gui[u].mem /\ gui'[u].tab = gui[u].mem
               /\ gui'[u].save = gui[u].save
         /\ Write(u) =>
               /\ gui'[u].up = gui[u].up /\ gui'[u].mem = gui[u].mem /\ gui'[u].tab = gui[u].tab
               /\ gui'[u].save = "no" /\ gui[u].save # "no"
               /\ conf'[u] = IF gui[u].save = "open" THEN Printed(gui[u].mem) ELSE conf[u]
               /\ blank' = blank /\ UNCHANGED <<stale, torn, odd>>
<1>1. /\ gui \in [Unit -> GuiType] /\ conf \in [Unit -> File]
      /\ stale \subseteq Unit
  BY DEF Base, TypeOK, GuiType
<1>2. ASSUME GuiStart(u)
      PROVE  /\ stage[u] = "up" /\ conf' = conf /\ blank' = blank /\ torn' = torn /\ odd' = odd
             /\ gui'[u].up = (IF Shows(Load(conf[u])) THEN "up" ELSE "broken")
             /\ gui'[u].mem = Load(conf[u]) /\ gui'[u].tab = Load(conf[u])
             /\ gui'[u].save = "no"
             /\ u \notin stale'
  BY <1>1, <1>2 DEF GuiStart, SetGui, unitVars
<1>3. ASSUME GuiStop(u)
      PROVE  /\ gui'[u].up = "off"
             /\ conf' = conf /\ blank' = blank /\ odd' = odd
             /\ torn' = torn \cup IF gui[u].save = "open" THEN {u} ELSE {}
  BY <1>1, <1>3 DEF GuiStop, SetGui, Off, unitVars
<1>4. ASSUME Cancel(u)
      PROVE  /\ conf' = conf /\ blank' = blank /\ UNCHANGED <<stale, torn, odd>>
             /\ gui[u].up = "up" /\ gui'[u].up = "up"
             /\ gui'[u].mem = gui[u].mem /\ gui'[u].tab = gui[u].mem
             /\ gui'[u].save = gui[u].save
  BY <1>1, <1>4 DEF Cancel, Running, SetGui, unitVars, historyVars, GuiType
<1>5. ASSUME Write(u)
      PROVE  /\ gui'[u].up = gui[u].up /\ gui'[u].mem = gui[u].mem /\ gui'[u].tab = gui[u].tab
             /\ gui'[u].save = "no" /\ gui[u].save # "no"
             /\ conf'[u] = IF gui[u].save = "open" THEN Printed(gui[u].mem) ELSE conf[u]
             /\ blank' = blank /\ UNCHANGED <<stale, torn, odd>>
  BY <1>1, <1>5 DEF Write, SetGui, historyVars, GuiType
<1> QED
  BY <1>2, <1>3, <1>4, <1>5

\* What Edit types in a field.
LEMMA EditHere ==
  ASSUME Base, NEW u \in Unit, Edit(u)
  PROVE  /\ \E e \in Edits(u) : gui'[u].tab = [gui[u].tab EXCEPT ![e[1]] = e[2]]
         /\ conf' = conf /\ blank' = blank /\ UNCHANGED <<stale, torn, odd>>
         /\ gui[u].up = "up" /\ gui'[u].up = "up" /\ gui'[u].mem = gui[u].mem
         /\ gui'[u].save = gui[u].save
<1>1. gui \in [Unit -> GuiType]
  BY DEF Base, TypeOK, GuiType
<1>2. PICK e \in Edits(u) : SetGui(u, [gui[u] EXCEPT !.tab[e[1]] = e[2]])
  BY DEF Edit
<1>3. /\ gui'[u].tab = [gui[u].tab EXCEPT ![e[1]] = e[2]]
      /\ gui'[u].up = gui[u].up /\ gui'[u].mem = gui[u].mem /\ gui'[u].save = gui[u].save
  BY <1>1, <1>2 DEF SetGui, GuiType
<1> QED
  BY <1>3 DEF Edit, Running, unitVars, historyVars

\* What Apply takes from the tab.
LEMMA ApplyHere ==
  ASSUME Base, NEW u \in Unit, Apply(u)
  PROVE  /\ gui'[u].mem = IF Distinct(gui[u].tab) THEN Saved(u, gui[u].tab) ELSE gui[u].mem
         /\ gui'[u].tab = gui[u].tab /\ gui'[u].save = "open"
         /\ gui[u].up = "up" /\ gui'[u].up = "up" /\ gui[u].save = "no"
         /\ conf'[u] = Empty
         /\ odd' = odd \cup IF \E f \in NameField : Len(gui'[u].mem[f]) # 1 THEN {u} ELSE {}
         /\ blank'[u] = blank[u] \cup
                        {x \in NotGiven : gui'[u].mem[<<u, x>>] = <<SNAPPTIX_FILL>>}
         /\ UNCHANGED <<stale, torn>>
<1>1. gui \in [Unit -> GuiType] /\ conf \in [Unit -> File] /\ blank \in [Unit -> SUBSET Address]
  BY DEF Base, TypeOK, GuiType
<1> DEFINE mem == IF Distinct(gui[u].tab) THEN Saved(u, gui[u].tab) ELSE gui[u].mem
<1>2. /\ SetGui(u, [gui[u] EXCEPT !.mem = mem, !.save = "open"])
      /\ odd' = odd \cup IF \E f \in NameField : Len(mem[f]) # 1 THEN {u} ELSE {}
      /\ blank' = [blank EXCEPT ![u] =
                     @ \cup {x \in NotGiven : mem[<<u, x>>] = <<SNAPPTIX_FILL>>}]
      /\ conf' = [conf EXCEPT ![u] = Empty]
      /\ UNCHANGED <<stale, torn>>
      /\ gui[u].up = "up" /\ gui[u].save = "no"
  BY DEF Apply, Running
<1> HIDE DEF mem
<1>3. /\ gui'[u].mem = mem /\ gui'[u].tab = gui[u].tab /\ gui'[u].save = "open"
      /\ gui'[u].up = gui[u].up
  BY <1>1, <1>2 DEF SetGui, GuiType
<1>4. conf'[u] = Empty
  BY <1>1, <1>2
<1>5. blank'[u] = blank[u] \cup {x \in NotGiven : mem[<<u, x>>] = <<SNAPPTIX_FILL>>}
  BY <1>1, <1>2
<1>6. /\ odd' = odd \cup IF \E f \in NameField : Len(gui'[u].mem[f]) # 1 THEN {u} ELSE {}
      /\ blank'[u] = blank[u] \cup
                        {x \in NotGiven : gui'[u].mem[<<u, x>>] = <<SNAPPTIX_FILL>>}
  BY <1>2, <1>3, <1>5
<1> QED
  BY <1>2, <1>3, <1>4, <1>6 DEF mem

\* Saved() takes each field from one field of the tab.
LEMMA SavedIs ==
  ASSUME NEW u \in Unit, NEW tab \in Values, NEW f \in Field
  PROVE  /\ f # <<Other(u), "gateway">> => Saved(u, tab)[f] = tab[f]
         /\ f = <<Other(u), "gateway">> => Saved(u, tab)[f] = tab[<<u, "gateway">>]
  BY DEF Saved, Values

LEMMA SavedNamesOdd ==
  ASSUME NEW u \in Unit, NEW tab \in Values, OnlyNamesOdd(tab)
  PROVE  OnlyNamesOdd(Saved(u, tab))
<1>1. <<u, "gateway">> \in Field \ NameField
  BY DEF Field, NameField, Own, Unit
<1> QED
  BY <1>1, SavedIs DEF OnlyNamesOdd

-----------------------------------------------------------------------------
\* What a GUI has in memory is what is in the file, and there is one word in each field
\* but for the names; in the names too if no odd one was applied.
MemIs(u) ==
    gui[u].up # "off" =>
        /\ OnlyNamesOdd(gui[u].mem) /\ OnlyNamesOdd(gui[u].tab)
        /\ u \notin odd => OneWord(gui[u].mem)
        /\ u \notin odd \cup stale /\ gui[u].save = "no" => gui[u].mem = Load(conf[u])

MemIsFile == \A u \in Unit : MemIs(u)

LEMMA MemSame ==
  ASSUME NEW u \in Unit, MemIs(u),
         gui'[u] = gui[u], conf'[u] = conf[u],
         u \in odd' <=> u \in odd,
         u \in stale' <=> u \in stale
  PROVE  MemIs(u)'
  BY DEF MemIs

LEMMA EditedNamesOdd ==
  ASSUME NEW tab \in Values, OnlyNamesOdd(tab), NEW u \in Unit, NEW e \in Edits(u)
  PROVE  OnlyNamesOdd([tab EXCEPT ![e[1]] = e[2]])
<1>1. e[1] \in NameField \/ Len(e[2]) = 1
  BY EditAssumption DEF IsAddress
<1> QED
  BY <1>1 DEF OnlyNamesOdd, Values

LEMMA MemGui ==
  ASSUME Base, NEW u \in Unit, MemIs(u), GuiStep(u)
  PROVE  MemIs(u)'
<1>1. /\ gui \in [Unit -> GuiType] /\ conf \in [Unit -> File] /\ odd \subseteq Unit
      /\ gui[u].mem \in Values /\ gui[u].tab \in Values
      /\ gui[u].save \in {"no", "open", "lost"}
  BY DEF Base, TypeOK, GuiType
<1>2. CASE GuiStart(u)
  <2>1. OneWord(Load(conf[u]))
    BY LoadOneWord
  <2>2. OnlyNamesOdd(Load(conf[u]))
    BY <2>1 DEF OneWord, OnlyNamesOdd
  <2> QED
    BY <1>2, <2>1, <2>2, GuiHere DEF MemIs
<1>3. CASE GuiStop(u)
  BY <1>3, GuiHere DEF MemIs
<1>4. CASE Edit(u)
  <2>1. PICK e \in Edits(u) : gui'[u].tab = [gui[u].tab EXCEPT ![e[1]] = e[2]]
    BY <1>4, EditHere
  <2>2. /\ conf' = conf /\ UNCHANGED <<stale, odd>>
        /\ gui[u].up = "up" /\ gui'[u].mem = gui[u].mem /\ gui'[u].save = gui[u].save
    BY <1>4, EditHere
  <2>3. OnlyNamesOdd(gui[u].tab)
    BY <2>2 DEF MemIs
  <2>4. OnlyNamesOdd([gui[u].tab EXCEPT ![e[1]] = e[2]])
    BY <1>1, <2>3, EditedNamesOdd
  <2>5. OnlyNamesOdd(gui'[u].tab)
    BY <2>1, <2>4
  <2> QED
    BY <2>2, <2>5 DEF MemIs
<1>5. CASE Cancel(u)
  BY <1>5, GuiHere DEF MemIs
<1>6. CASE Apply(u)
  <2>1. /\ gui'[u].mem = IF Distinct(gui[u].tab) THEN Saved(u, gui[u].tab) ELSE gui[u].mem
        /\ gui'[u].tab = gui[u].tab /\ gui'[u].save = "open" /\ gui[u].up = "up"
        /\ odd' = odd \cup IF \E f \in NameField : Len(gui'[u].mem[f]) # 1 THEN {u} ELSE {}
    BY <1>6, ApplyHere
  <2>2. OnlyNamesOdd(gui[u].mem) /\ OnlyNamesOdd(gui[u].tab)
    BY <2>1 DEF MemIs
  <2>3. OnlyNamesOdd(gui'[u].mem)
    BY <1>1, <2>1, <2>2, SavedNamesOdd
  <2>4. u \notin odd' => OneWord(gui'[u].mem)
    BY <2>1, <2>3 DEF OneWord, OnlyNamesOdd
  <2> QED
    BY <2>1, <2>2, <2>3, <2>4 DEF MemIs
<1>7. CASE Write(u)
  <2>1. /\ gui'[u].up = gui[u].up /\ gui'[u].mem = gui[u].mem /\ gui'[u].tab = gui[u].tab
        /\ gui'[u].save = "no" /\ gui[u].save # "no"
        /\ conf'[u] = IF gui[u].save = "open" THEN Printed(gui[u].mem) ELSE conf[u]
        /\ UNCHANGED <<stale, odd>>
    BY <1>7, GuiHere
  <2>2. ASSUME gui[u].up # "off", u \notin odd \cup stale
        PROVE  gui'[u].mem = Load(conf'[u])
    <3>1. gui[u].save = "open"
      BY <1>1, <2>1, <2>2 DEF Base, InOrder
    <3>2. OneWord(gui[u].mem)
      BY <2>2 DEF MemIs
    <3> QED
      BY <1>1, <2>1, <3>1, <3>2, LoadPrinted
  <2> QED
    BY <2>1, <2>2 DEF MemIs
<1> QED
  BY <1>2, <1>3, <1>4, <1>5, <1>6, <1>7 DEF GuiStep

\* The steps that are not a GUI's, and what they leave of the files of the units.
LEMMA Elsewhere ==
  ASSUME Base, [Next]_vars, ~Gui
  PROVE  \/ InstallAlpha \/ (\E d \in Dev : Copied(d)) \/ ConfigureBeta \/ FinalSync \/ Restart
         \/ /\ UNCHANGED <<gui, conf, blank, stale, torn, odd, told, applies>>
            /\ Sync \/ Reaped \/ GivenUp \/ BootBeta \/ Script \/ UNCHANGED vars
<1>1. CASE Script
  BY <1>1 DEF Script, clusterVars, unitVars, guiVars, historyVars
<1>2. CASE Sync \/ Reaped \/ GivenUp \/ BootBeta
  BY <1>2 DEF Sync, Reaped, GivenUp, BootBeta, clusterVars, unitVars, guiVars, historyVars
<1>3. CASE UNCHANGED vars
  BY <1>3 DEF vars, clusterVars, unitVars, guiVars, historyVars
<1> QED
  BY <1>1, <1>2, <1>3 DEF Next, Installer

LEMMA MemNext ==
  ASSUME Base, MemIsFile, [Next]_vars
  PROVE  MemIsFile'
<1>1. /\ gui \in [Unit -> GuiType] /\ conf \in [Unit -> File] /\ odd \subseteq Unit
      /\ InOrder
  BY DEF Base, TypeOK, GuiType
<1>2. \A u \in Unit : MemIs(u)
  BY DEF MemIsFile
<1>3. SUFFICES ASSUME NEW u \in Unit
               PROVE  MemIs(u)'
  BY DEF MemIsFile
<1>4. u = 1 \/ u = 2
  BY DEF Unit
<1>5. CASE Gui
  <2>1. PICK n \in Unit : GuiStep(n)
    BY <1>5 DEF Gui, GuiStep
  <2>2. CASE n = u
    BY <1>2, <2>1, <2>2, MemGui
  <2>3. CASE n # u
    BY <1>2, <2>1, <2>3, GuiElsewhere, MemSame
  <2> QED
    BY <2>2, <2>3
<1>6. CASE InstallAlpha
  <2>1. /\ gui' = gui /\ odd' = odd /\ stale' = stale /\ stage[1] = "install"
        /\ conf'[2] = conf[2]
    BY <1>1, <1>6 DEF InstallAlpha, SetupConfigs, guiVars, historyVars, Unit
  <2>2. gui[1].up = "off"
    BY <1>1, <2>1 DEF InOrder, Unit
  <2>3. CASE u = 1
    BY <2>1, <2>2, <2>3 DEF MemIs
  <2>4. CASE u = 2
    BY <1>2, <2>1, <2>4, MemSame
  <2> QED
    BY <1>4, <2>3, <2>4
<1>7. ASSUME NEW d \in Dev, Copied(d)
      PROVE  MemIs(u)'
  <2>1. /\ gui' = gui /\ odd' = odd /\ stale' = stale /\ worker = "running"
        /\ conf'[1] = conf[1]
    BY <1>1, <1>7 DEF Copied, Fetched, Piped, guiVars, historyVars, Unit
  <2>2. gui[2].up = "off"
    BY <1>1, <2>1 DEF InOrder, Unit
  <2>3. CASE u = 2
    BY <2>1, <2>2, <2>3 DEF MemIs
  <2>4. CASE u = 1
    BY <1>2, <2>1, <2>4, MemSame
  <2> QED
    BY <1>4, <2>3, <2>4
<1>8. CASE ConfigureBeta
  <2>1. /\ gui' = gui /\ odd' = odd /\ stale' = stale /\ stage[2] = "network"
        /\ conf'[1] = conf[1]
    BY <1>1, <1>8 DEF ConfigureBeta, SetupConfigs, guiVars, historyVars, Unit
  <2>2. gui[2].up = "off"
    BY <1>1, <2>1 DEF InOrder, Unit
  <2>3. CASE u = 2
    BY <2>1, <2>2, <2>3 DEF MemIs
  <2>4. CASE u = 1
    BY <1>2, <2>1, <2>4, MemSame
  <2> QED
    BY <1>4, <2>3, <2>4
<1>9. CASE FinalSync
  <2>1. /\ odd' = odd /\ stage[2] = "final"
        /\ \/ gui' = gui /\ conf' = conf /\ stale' = stale
           \/ /\ gui' = [gui EXCEPT ![1] = Replaced(@)]
              /\ conf' = [conf EXCEPT ![1] = conf[2]]
              /\ stale' = stale \cup IF gui[1].up # "off" THEN {1} ELSE {}
    BY <1>9 DEF FinalSync
  <2>2. gui[2].up = "off"
    BY <1>1, <2>1 DEF InOrder, Unit
  <2>3. gui'[2] = gui[2]
    BY <1>1, <2>1 DEF Unit
  <2>4. CASE u = 2
    BY <2>2, <2>3, <2>4 DEF MemIs
  <2>5. CASE u = 1
    <3>1. /\ gui'[1].up = gui[1].up /\ gui'[1].mem = gui[1].mem /\ gui'[1].tab = gui[1].tab
          /\ \/ gui'[1].save = gui[1].save /\ conf'[1] = conf[1] /\ stale' = stale
             \/ gui[1].up # "off" => 1 \in stale'
      BY <1>1, <2>1 DEF Unit, Replaced, GuiType
    <3> QED
      BY <1>2, <2>1, <2>5, <3>1 DEF MemIs
  <2> QED
    BY <1>4, <2>4, <2>5
<1>10. CASE Restart
  <2>1. /\ gui'[2].up = "off" /\ gui'[1] = gui[1] /\ conf'[1] = conf[1]
        /\ odd' = odd \ {2} /\ stale' = stale \ {2}
    BY <1>1, <1>10 DEF Restart, Off, Unit
  <2>2. CASE u = 2
    BY <2>1, <2>2 DEF MemIs
  <2>3. CASE u = 1
    BY <1>2, <2>1, <2>3, MemSame
  <2> QED
    BY <1>4, <2>2, <2>3
<1>11. CASE UNCHANGED <<gui, conf, blank, stale, torn, odd, told, applies>>
  BY <1>2, <1>11, MemSame
<1> QED
  BY <1>5, <1>6, <1>7, <1>8, <1>9, <1>10, <1>11, Elsewhere

LEMMA MemInit == Init => MemIsFile
  BY DEF Init, MemIsFile, MemIs, Off

\* Apply changes a value that its user has not changed only where it is known to
\* (AppliesWhatWasTyped): what save() writes and load() reads are the same, and with
\* it what is in memory and in the file, as long as every name is one word and nobody
\* else writes the file.
THEOREM AppliesOnly == Spec => AppliesWhatWasTyped
<1>1. ASSUME Base, MemIsFile, [Next]_vars
      PROVE  [\A u \in Unit : /\ applies' > applies /\ gui'[u].save # gui[u].save
                             /\ u \notin stale \cup odd =>
                 \A f \in Field \ {<<Other(u), "gateway">>} :
                     \/ gui'[u].mem[f] = Load(conf[u])[f]
                     \/ gui[u].tab[f] # gui[u].mem[f]]_vars
  <2> SUFFICES ASSUME Next, NEW u \in Unit,
                      applies' > applies, gui'[u].save # gui[u].save, u \notin stale \cup odd,
                      NEW f \in Field \ {<<Other(u), "gateway">>},
                      gui[u].tab[f] = gui[u].mem[f]
               PROVE  gui'[u].mem[f] = Load(conf[u])[f]
    BY <1>1
  <2>1. applies \in Nat /\ gui[u].mem \in Values /\ gui[u].tab \in Values
    BY <1>1 DEF Base, TypeOK
  <2>2. PICK n \in Unit : Apply(n)
    <3>1. applies' # applies
      BY <2>1
    <3> QED
      BY <3>1
      DEF Next, Script, Copied, Installer, InstallAlpha, Sync, Reaped, GivenUp, ConfigureBeta,
          FinalSync, BootBeta, Restart, Gui, GuiStart, GuiStop, Edit, Cancel, Write, clusterVars,
          guiVars
  <2>3. GuiStep(n)
    BY <2>2 DEF GuiStep
  <2>4. n = u
    BY <1>1, <2>3, GuiElsewhere
  <2>5. /\ gui'[u].mem = IF Distinct(gui[u].tab) THEN Saved(u, gui[u].tab) ELSE gui[u].mem
        /\ gui[u].up = "up" /\ gui[u].save = "no"
    BY <1>1, <2>2, <2>4, ApplyHere
  <2>6. gui[u].mem = Load(conf[u])
    BY <1>1, <2>5 DEF MemIsFile, MemIs
  <2>7. Saved(u, gui[u].tab)[f] = gui[u].tab[f]
    BY <2>1, SavedIs
  <2> QED
    BY <2>5, <2>6, <2>7
<1>2. Base /\ MemIsFile /\ [Next]_vars => Base' /\ MemIsFile'
  BY BaseNext, MemNext
<1>3. Init => Base /\ MemIsFile
  BY BaseInit, MemInit
<1> QED
  BY <1>1, <1>2, <1>3, PTL DEF Spec, AppliesWhatWasTyped

-----------------------------------------------------------------------------
\* A unit's file, from which its GUI comes up, and what the GUI shows.
UnitShows(u) ==
    /\ gui[u].up = "up" => Shows(gui[u].mem) /\ Shows(gui[u].tab)
    /\ Shaped(conf[u])
    /\ u = 1 \/ stage[u] # "up" => GivenIn(conf[u])
    /\ stage[u] \in {"final", "done", "up"} /\ u \notin torn \cup odd /\ gui[u].save # "open"
       => Whole(conf[u])
    /\ gui[u].up # "off" => u \in torn \cup odd \/ gui[u].up = "up"

\* If the alpha's user left nothing blank, both GUIs find addresses in their files, and
\* the copy that was scanned is the one the beta's file is made from.
FilesShow ==
    /\ stage[1] = "install" => blank[1] = {}
    /\ blank[1] = {} =>
          /\ UnitShows(1) /\ UnitShows(2)
          /\ gui[1].up = "up" => Given(gui[1].mem)
          /\ stage[2] = "network" => Scans(conf[2])

LEMMA EmptyShows == Shaped(Empty) /\ GivenIn(Empty)
  BY DEF Shaped, GivenIn

LEMMA FilesShowInit == Init => FilesShow
<1> SUFFICES ASSUME Init
             PROVE  FilesShow
  OBVIOUS
<1>1. /\ stage = [u \in Unit |-> "install"] /\ conf = [u \in Unit |-> Empty]
      /\ gui = [u \in Unit |-> Off] /\ blank = [u \in Unit |-> {}]
  BY DEF Init
<1>2. 1 \in Unit /\ 2 \in Unit
  BY DEF Unit
<1>3. \A u \in Unit : stage[u] = "install" /\ conf[u] = Empty /\ gui[u].up = "off"
  BY <1>1 DEF Off
<1>4. blank[1] = {}
  BY <1>1, <1>2
<1>5. \A u \in Unit : UnitShows(u)
  BY <1>3, EmptyShows DEF UnitShows
<1> QED
  BY <1>2, <1>3, <1>4, <1>5 DEF FilesShow

LEMMA EditedShows ==
  ASSUME NEW tab \in Values, Shows(tab), NEW u \in Unit, NEW e \in Edits(u)
  PROVE  Shows([tab EXCEPT ![e[1]] = e[2]])
<1>1. e[1] \in AddressField => IsAddress(e[2])
  BY EditAssumption
<1>2. \A f \in AddressField : f \in Field
  BY DEF AddressField, Field, Address, Own
<1> QED
  BY <1>1, <1>2 DEF Shows, Values

LEMMA SavedShows ==
  ASSUME NEW tab \in Values, Shows(tab), NEW u \in Unit
  PROVE  Shows(Saved(u, tab))
<1>1. \A f \in AddressField : f \in Field
  BY DEF AddressField, Field, Address, Own
<1>2. <<u, "gateway">> \in AddressField
  BY DEF AddressField, Address, Own
<1> QED
  BY <1>1, <1>2, SavedIs DEF Shows

\* The steps of the GUI.
LEMMA ShowsGui ==
  ASSUME Base, MemIsFile, NEW u \in Unit, GuiStep(u), UnitShows(u),
         u = 1 /\ gui[1].up = "up" => Given(gui[1].mem),
         blank'[1] = {}
  PROVE  /\ UnitShows(u)'
         /\ u = 1 /\ gui'[1].up = "up" => Given(gui'[1].mem)
<1>1. /\ gui \in [Unit -> GuiType] /\ conf \in [Unit -> File] /\ conf[u] \in File
      /\ gui[u].mem \in Values /\ gui[u].tab \in Values
      /\ gui[u].up \in {"off", "up", "broken"}
      /\ odd \subseteq Unit /\ torn \subseteq Unit /\ InOrder
  BY DEF Base, TypeOK, GuiType
<1>2. stage' = stage
  BY DEF GuiStep, GuiStart, GuiStop, Edit, Cancel, Apply, Write, unitVars
<1>3. /\ gui[u].up = "off" => gui[u].save = "no"
      /\ gui[u].save # "no" => gui[u].up = "up" /\ stage[u] = "up"
  BY <1>1 DEF InOrder
<1>4. CASE GuiStart(u)
  <2>1. /\ stage[u] = "up" /\ conf' = conf /\ torn' = torn /\ odd' = odd
        /\ gui'[u].up = (IF Shows(Load(conf[u])) THEN "up" ELSE "broken")
        /\ gui'[u].mem = Load(conf[u]) /\ gui'[u].tab = Load(conf[u])
        /\ gui'[u].save = "no"
    BY <1>4, GuiHere
  <2>2. gui[u].save = "no"
    BY <1>3, <1>4 DEF GuiStart
  <2>3. u \in torn \cup odd \/ gui'[u].up = "up"
    BY <2>1, <2>2 DEF UnitShows, Shaped, Whole
  <2>4. UnitShows(u)'
    BY <1>2, <2>1, <2>2, <2>3 DEF UnitShows
  <2>5. u = 1 /\ gui'[1].up = "up" => Given(gui'[1].mem)
    BY <1>1, <2>1, ShownGiven DEF UnitShows
  <2> QED
    BY <2>4, <2>5
<1>5. CASE GuiStop(u)
  <2>1. /\ gui'[u].up = "off" /\ conf' = conf /\ odd' = odd
        /\ torn' = torn \cup IF gui[u].save = "open" THEN {u} ELSE {}
    BY <1>5, GuiHere
  <2>2. u \notin torn' \cup odd' => u \notin torn \cup odd /\ gui[u].save # "open"
    BY <2>1
  <2> QED
    BY <1>2, <2>1, <2>2 DEF UnitShows
<1>6. CASE Edit(u)
  <2>1. PICK e \in Edits(u) : gui'[u].tab = [gui[u].tab EXCEPT ![e[1]] = e[2]]
    BY <1>6, EditHere
  <2>2. /\ conf' = conf /\ UNCHANGED <<torn, odd>>
        /\ gui[u].up = "up" /\ gui'[u].up = "up" /\ gui'[u].mem = gui[u].mem
        /\ gui'[u].save = gui[u].save
    BY <1>6, EditHere
  <2>3. Shows(gui'[u].tab)
    BY <1>1, <2>1, <2>2, EditedShows DEF UnitShows
  <2> QED
    BY <1>2, <2>2, <2>3 DEF UnitShows
<1>7. CASE Cancel(u)
  <2>1. /\ conf' = conf /\ UNCHANGED <<torn, odd>>
        /\ gui[u].up = "up" /\ gui'[u].up = "up"
        /\ gui'[u].mem = gui[u].mem /\ gui'[u].tab = gui[u].mem
        /\ gui'[u].save = gui[u].save
    BY <1>7, GuiHere
  <2> QED
    BY <1>2, <2>1 DEF UnitShows
<1>8. CASE Apply(u)
  <2>1. /\ gui'[u].mem = IF Distinct(gui[u].tab) THEN Saved(u, gui[u].tab) ELSE gui[u].mem
        /\ gui'[u].tab = gui[u].tab /\ gui'[u].save = "open"
        /\ gui[u].up = "up" /\ gui'[u].up = "up"
        /\ conf'[u] = Empty
        /\ blank'[u] = blank[u] \cup
                       {x \in NotGiven : gui'[u].mem[<<u, x>>] = <<SNAPPTIX_FILL>>}
    BY <1>8, ApplyHere
  <2>2. Shows(gui'[u].mem) /\ Shows(gui'[u].tab)
    BY <1>1, <2>1, SavedShows DEF UnitShows
  <2>3. UnitShows(u)'
    BY <1>2, <2>1, <2>2, EmptyShows DEF UnitShows
  <2>4. u = 1 => Given(gui'[1].mem)
    BY <2>1 DEF Given
  <2> QED
    BY <2>3, <2>4
<1>9. CASE Write(u)
  <2>1. /\ gui'[u].up = gui[u].up /\ gui'[u].mem = gui[u].mem /\ gui'[u].tab = gui[u].tab
        /\ gui'[u].save = "no" /\ gui[u].save # "no"
        /\ conf'[u] = IF gui[u].save = "open" THEN Printed(gui[u].mem) ELSE conf[u]
        /\ UNCHANGED <<torn, odd>>
    BY <1>9, GuiHere
  <2>2. /\ gui[u].up = "up" /\ stage[u] = "up" /\ OnlyNamesOdd(gui[u].mem)
        /\ u \notin odd => OneWord(gui[u].mem)
        /\ Shows(gui[u].mem)
    BY <1>3, <2>1 DEF MemIsFile, MemIs, UnitShows
  <2>3. /\ Shaped(Printed(gui[u].mem))
        /\ u = 1 => GivenIn(Printed(gui[u].mem))
        /\ u \notin odd => Whole(Printed(gui[u].mem))
    BY <1>1, <2>2, PrintedShaped, PrintedGiven, LoadPrinted
  <2>4. /\ Shaped(conf'[u])
        /\ u = 1 => GivenIn(conf'[u])
        /\ u \notin torn \cup odd => Whole(conf'[u])
    BY <2>1, <2>2, <2>3 DEF UnitShows
  <2> QED
    BY <1>2, <2>1, <2>2, <2>4 DEF UnitShows
<1> QED
  BY <1>4, <1>5, <1>6, <1>7, <1>8, <1>9 DEF GuiStep

LEMMA ShowsSame ==
  ASSUME NEW u \in Unit, UnitShows(u),
         gui'[u] = gui[u], conf'[u] = conf[u], stage'[u] = stage[u],
         u \in odd' <=> u \in odd,
         u \in torn' <=> u \in torn
  PROVE  UnitShows(u)'
  BY DEF UnitShows

\* What the user of the alpha has left blank stays so.
LEMMA BlankStays ==
  ASSUME Base, FilesShow, [Next]_vars, blank'[1] = {}
  PROVE  blank[1] = {}
<1>1. blank \in [Unit -> SUBSET Address] /\ 1 \in Unit /\ 2 \in Unit
  BY DEF Base, TypeOK, Unit
<1>2. ASSUME NEW n \in Unit, GuiStep(n)
      PROVE  blank[1] = {}
  <2>1. CASE n = 1
    <3>1. blank[1] \subseteq blank'[1]
      BY <1>1, <1>2, <2>1, GuiHere, EditHere, ApplyHere DEF GuiStep
    <3> QED
      BY <3>1
  <2>2. CASE n # 1
    BY <1>1, <1>2, <2>2, GuiElsewhere
  <2> QED
    BY <2>1, <2>2
<1>3. CASE Gui
  BY <1>2, <1>3 DEF Gui, GuiStep
<1>4. CASE InstallAlpha
  BY <1>4 DEF InstallAlpha, FilesShow
<1>5. CASE ConfigureBeta
  BY <1>1, <1>5 DEF ConfigureBeta, SetupConfigs
<1>6. ASSUME NEW d \in Dev, Copied(d)
      PROVE  blank[1] = {}
  BY <1>6 DEF Copied
<1>7. CASE FinalSync
  BY <1>7 DEF FinalSync
<1>8. CASE Restart
  BY <1>8 DEF Restart
<1>9. CASE UNCHANGED blank
  BY <1>9
<1> QED
  BY <1>3, <1>4, <1>5, <1>6, <1>7, <1>8, <1>9, Elsewhere

\* The alpha's stage is never "install" again.
LEMMA InstalledOnce ==
  ASSUME Base, [Next]_vars, stage'[1] = "install"
  PROVE  stage[1] = "install" /\ stage[2] = "install" /\ ~InstallAlpha
<1>1. /\ stage \in [Unit -> {"install", "network", "final", "done", "up"}] /\ InOrder
      /\ 1 \in Unit /\ 2 \in Unit
  BY DEF Base, TypeOK, Unit
<1>2. ~InstallAlpha
  BY <1>1 DEF InstallAlpha
<1>3. stage'[1] = stage[1]
  <2>1. CASE UNCHANGED stage
    BY <2>1
  <2>2. CASE Reaped \/ ConfigureBeta \/ FinalSync \/ BootBeta \/ Restart
    BY <1>1, <2>2 DEF Reaped, ConfigureBeta, FinalSync, BootBeta, Restart
  <2>3. CASE Script \/ Sync \/ GivenUp \/ UNCHANGED vars
    BY <2>1, <2>3 DEF Script, Copied, Sync, GivenUp, vars, clusterVars, unitVars
  <2>4. CASE Gui
    BY <2>1, <2>4
    DEF Gui, GuiStart, GuiStop, Edit, Cancel, Apply, Write, unitVars
  <2> QED
    BY <1>2, <2>2, <2>3, <2>4 DEF Next, Installer
<1> QED
  BY <1>1, <1>2, <1>3 DEF InOrder

\* setup_configs() on the beta: what it takes from the copy can be shown.
LEMMA SecondFile ==
  ASSUME NEW file \in File, Scans(file), Shaped(file), GivenIn(file), NEW b \in SUBSET Optional
  PROVE  /\ Shaped(Printed(Full(file, b))) /\ GivenIn(Printed(Full(file, b)))
         /\ Whole(Printed(Full(file, b)))
<1>1. Whole(file)
  BY ScansWhole
<1>2. Shows(Load(file)) /\ Given(Load(file))
  BY <1>1, ShownGiven DEF Shaped, Whole
<1>3. /\ Full(file, b) \in Values
      /\ OneWord(Full(file, b)) /\ Shows(Full(file, b)) /\ Given(Full(file, b))
  BY <1>2, FullType, FullShows
<1>4. OnlyNamesOdd(Full(file, b))
  BY <1>3 DEF OneWord, OnlyNamesOdd
<1> QED
  BY <1>3, <1>4, PrintedShaped, PrintedGiven, LoadPrinted

LEMMA FilesShowNext ==
  ASSUME Base, MemIsFile, FilesShow, [Next]_vars
  PROVE  FilesShow'
<1>1. /\ gui \in [Unit -> GuiType] /\ conf \in [Unit -> File] /\ blank \in [Unit -> SUBSET Address]
      /\ stage \in [Unit -> {"install", "network", "final", "done", "up"}]
      /\ InOrder /\ InOrder'
  BY BaseNext DEF Base, TypeOK, GuiType
<1>2. 1 \in Unit /\ 2 \in Unit /\ Unit = {1, 2}
  BY DEF Unit
<1>3. ASSUME stage'[1] = "install"
      PROVE  blank'[1] = {}
  <2>1. stage[1] = "install" /\ stage[2] = "install" /\ ~InstallAlpha
    BY <1>3, InstalledOnce
  <2>2. CASE Gui
    <3>1. PICK n \in Unit : GuiStep(n)
      BY <2>2 DEF Gui, GuiStep
    <3>2. CASE n = 1
      <4>1. gui[1].up = "off"
        BY <1>1, <1>2, <2>1 DEF InOrder
      <4>2. GuiStart(1) \/ GuiStop(1) \/ Cancel(1) \/ Edit(1) \/ Write(1)
        BY <3>1, <3>2, <4>1 DEF GuiStep, Apply, Running
      <4> QED
        BY <1>2, <2>1, <4>2, GuiHere, EditHere DEF FilesShow
    <3>3. CASE n # 1
      BY <1>2, <2>1, <3>1, <3>3, GuiElsewhere DEF FilesShow
    <3> QED
      BY <3>2, <3>3
  <2>3. ~ConfigureBeta /\ ~FinalSync
    BY <2>1 DEF ConfigureBeta, FinalSync
  <2>4. CASE (\E d \in Dev : Copied(d)) \/ Restart \/ UNCHANGED blank
    BY <2>1, <2>4 DEF Copied, Restart, FilesShow
  <2> QED
    BY <2>1, <2>2, <2>3, <2>4, Elsewhere
<1>4. SUFFICES ASSUME blank'[1] = {}
               PROVE  /\ UnitShows(1)' /\ UnitShows(2)'
                      /\ gui'[1].up = "up" => Given(gui'[1].mem)
                      /\ stage'[2] = "network" => Scans(conf'[2])
  BY <1>3 DEF FilesShow
<1>5. /\ UnitShows(1) /\ UnitShows(2)
      /\ gui[1].up = "up" => Given(gui[1].mem)
      /\ stage[2] = "network" => Scans(conf[2])
  BY <1>4, BlankStays DEF FilesShow
<1>6. CASE Gui
  <2>1. PICK n \in Unit : GuiStep(n)
    BY <1>6 DEF Gui, GuiStep
  <2>2. stage' = stage
    BY <1>6 DEF Gui, GuiStart, GuiStop, Edit, Cancel, Apply, Write, unitVars
  <2>3. UnitShows(n)' /\ (n = 1 /\ gui'[1].up = "up" => Given(gui'[1].mem))
    BY <1>2, <1>4, <1>5, <2>1, ShowsGui
  <2>4. ASSUME NEW u \in Unit, u # n
        PROVE  UnitShows(u)' /\ gui'[u] = gui[u] /\ conf'[u] = conf[u]
    BY <1>2, <1>5, <2>1, <2>2, <2>4, GuiElsewhere, ShowsSame
  <2>5. stage[2] = "network" => conf'[2] = conf[2]
    <3>1. CASE n = 2
      <4>1. stage[2] = "network" => GuiStop(2) \/ Cancel(2) \/ Edit(2)
        BY <1>1, <1>2, <2>1, <3>1
        DEF InOrder, GuiStep, GuiStart, Apply, Running, Write
      <4> QED
        BY <1>2, <4>1, GuiHere, EditHere
    <3>2. CASE n = 1
      BY <1>2, <2>4, <3>2
    <3> QED
      BY <1>2, <3>1, <3>2
  <2>6. UnitShows(1)' /\ UnitShows(2)' /\ (gui'[1].up = "up" => Given(gui'[1].mem))
    BY <1>2, <1>5, <2>3, <2>4
  <2> QED
    BY <1>5, <2>2, <2>5, <2>6
<1>7. CASE InstallAlpha
  <2>1. PICK b \in Blanks : SetupConfigs(1, b, Printed(Partial(b)))
    BY <1>7 DEF InstallAlpha
  <2>2. /\ gui' = gui /\ odd' = odd /\ torn' = torn /\ stage[1] = "install"
        /\ conf' = [conf EXCEPT ![1] = Printed(Partial(b))] /\ blank'[1] = b
        /\ stage' = [stage EXCEPT ![1] = "up"]
    BY <1>1, <1>2, <1>7, <2>1 DEF InstallAlpha, SetupConfigs, guiVars, historyVars
  <2>3. conf'[1] = First /\ conf'[2] = conf[2] /\ stage'[2] = stage[2]
    BY <1>1, <1>2, <1>4, <2>2 DEF First
  <2>4. gui[1].up = "off"
    BY <1>1, <1>2, <2>2 DEF InOrder
  <2>5. UnitShows(1)'
    BY <2>2, <2>3, <2>4, FirstFacts DEF UnitShows
  <2>6. UnitShows(2)'
    BY <1>2, <1>5, <2>2, <2>3, ShowsSame
  <2> QED
    BY <1>5, <2>2, <2>3, <2>4, <2>5, <2>6
<1>8. ASSUME NEW d \in Dev, Copied(d)
      PROVE  /\ UnitShows(1)' /\ UnitShows(2)'
             /\ gui'[1].up = "up" => Given(gui'[1].mem)
             /\ stage'[2] = "network" => Scans(conf'[2])
  <2>1. /\ gui' = gui /\ odd' = odd /\ torn' = torn /\ stage' = stage /\ worker = "running"
        /\ conf'[1] = conf[1] /\ conf'[2] = conf[1]
    BY <1>1, <1>2, <1>8 DEF Copied, Fetched, Piped, guiVars, historyVars
  <2>2. stage[2] = "install" /\ gui[2].up = "off"
    BY <1>1, <1>2, <2>1 DEF InOrder
  <2>3. UnitShows(2)'
    BY <1>5, <2>1, <2>2 DEF UnitShows
  <2>4. UnitShows(1)'
    BY <1>2, <1>5, <2>1, ShowsSame
  <2> QED
    BY <1>5, <2>1, <2>2, <2>3, <2>4
<1>9. CASE ConfigureBeta
  <2>1. PICK b \in Blanks : SetupConfigs(2, b, Printed(Full(conf[2], b)))
    BY <1>9 DEF ConfigureBeta
  <2>2. /\ gui' = gui /\ odd' = odd /\ torn' = torn /\ stage[2] = "network"
        /\ conf'[1] = conf[1] /\ conf'[2] = Printed(Full(conf[2], b))
        /\ stage'[2] = "final" /\ stage'[1] = stage[1]
    BY <1>1, <1>2, <1>9, <2>1 DEF ConfigureBeta, SetupConfigs, guiVars, historyVars
  <2>3. b \in SUBSET Optional
    BY BlankAssumption
  <2>4. Scans(conf[2]) /\ Shaped(conf[2]) /\ GivenIn(conf[2])
    BY <1>5, <2>2 DEF UnitShows
  <2>5. Shaped(conf'[2]) /\ GivenIn(conf'[2]) /\ Whole(conf'[2])
    BY <1>1, <1>2, <2>2, <2>3, <2>4, SecondFile
  <2>6. gui[2].up = "off"
    BY <1>1, <1>2, <2>2 DEF InOrder
  <2>7. UnitShows(2)'
    BY <2>2, <2>5, <2>6 DEF UnitShows
  <2>8. UnitShows(1)'
    BY <1>2, <1>5, <2>2, ShowsSame
  <2> QED
    BY <1>5, <2>2, <2>7, <2>8
<1>10. CASE FinalSync
  <2>1. /\ odd' = odd /\ torn' = torn /\ stage[2] = "final"
        /\ stage'[2] = "done" /\ stage'[1] = stage[1]
        /\ \/ gui' = gui /\ conf' = conf
           \/ /\ gui' = [gui EXCEPT ![1] = Replaced(@)]
              /\ conf' = [conf EXCEPT ![1] = conf[2]]
    BY <1>1, <1>2, <1>10 DEF FinalSync
  <2>2. gui'[2] = gui[2] /\ conf'[2] = conf[2]
    BY <1>1, <1>2, <2>1
  <2>3. gui[2].up = "off" /\ gui[2].save = "no" /\ 2 \notin torn \cup odd
    BY <1>1, <1>2, <2>1 DEF InOrder, GuiType
  <2>4. UnitShows(2)'
    BY <1>5, <2>1, <2>2, <2>3 DEF UnitShows
  <2>5. Whole(conf[2]) /\ Shaped(conf[2]) /\ GivenIn(conf[2])
    BY <1>5, <2>1, <2>3 DEF UnitShows
  <2>6. /\ gui'[1].up = gui[1].up /\ gui'[1].mem = gui[1].mem /\ gui'[1].tab = gui[1].tab
        /\ \/ gui'[1].save = gui[1].save /\ conf'[1] = conf[1]
           \/ conf'[1] = conf[2]
    BY <1>1, <1>2, <2>1 DEF Replaced, GuiType
  <2>7. UnitShows(1)'
    BY <1>5, <2>1, <2>5, <2>6 DEF UnitShows
  <2> QED
    BY <1>5, <2>1, <2>4, <2>6, <2>7
<1>11. CASE Restart
  <2>1. /\ gui'[2].up = "off" /\ gui'[1] = gui[1] /\ conf'[1] = conf[1] /\ conf'[2] = Empty
        /\ odd' = odd \ {2} /\ torn' = torn \ {2}
        /\ stage'[2] = "install" /\ stage'[1] = stage[1]
    BY <1>1, <1>2, <1>11 DEF Restart, Off
  <2>2. UnitShows(2)'
    BY <2>1, EmptyShows DEF UnitShows
  <2>3. UnitShows(1)'
    BY <1>2, <1>5, <2>1, ShowsSame
  <2> QED
    BY <1>5, <2>1, <2>2, <2>3
<1>12. CASE /\ UNCHANGED <<gui, conf, blank, stale, torn, odd, told, applies>>
            /\ Sync \/ Reaped \/ GivenUp \/ BootBeta \/ Script \/ UNCHANGED vars
  <2>1. CASE Reaped
    <3>1. /\ worker = "running" /\ stage'[1] = stage[1]
          /\ stage'[2] = (IF worker' = "success" THEN "network" ELSE stage[2])
          /\ worker' = "success" => Scans(conf[2])
      BY <1>1, <1>2, <2>1 DEF Reaped, Waitpid, TurnTo
    <3>2. stage[2] = "install" /\ gui[2].up = "off"
      BY <1>1, <1>2, <3>1 DEF InOrder
    <3>3. UnitShows(2)'
      BY <1>5, <1>12, <3>1, <3>2 DEF UnitShows
    <3>4. UnitShows(1)'
      BY <1>2, <1>5, <1>12, <3>1, ShowsSame
    <3> QED
      BY <1>5, <1>12, <3>1, <3>2, <3>3, <3>4
  <2>2. CASE BootBeta
    <3>1. /\ stage[2] = "done" /\ stage'[2] = "up" /\ stage'[1] = stage[1]
      BY <1>1, <1>2, <2>2 DEF BootBeta
    <3>2. UnitShows(2)'
      BY <1>5, <1>12, <3>1 DEF UnitShows
    <3>3. UnitShows(1)'
      BY <1>2, <1>5, <1>12, <3>1, ShowsSame
    <3> QED
      BY <1>5, <1>12, <3>1, <3>2, <3>3
  <2>3. CASE Sync \/ GivenUp \/ Script \/ UNCHANGED vars
    <3>1. stage' = stage
      BY <2>3 DEF Sync, GivenUp, Script, Copied, vars, clusterVars, unitVars
    <3>2. UnitShows(1)' /\ UnitShows(2)'
      BY <1>2, <1>5, <1>12, <3>1, ShowsSame
    <3> QED
      BY <1>5, <1>12, <3>1, <3>2
  <2> QED
    BY <1>12, <2>1, <2>2, <2>3
<1> QED
  BY <1>6, <1>7, <1>8, <1>9, <1>10, <1>11, <1>12, Elsewhere

-----------------------------------------------------------------------------
\* The file the beta writes, and later the alpha has from it.
Second == Printed(Full(First, blank[2]))

\* As long as nobody clicks Apply each file is what an installer wrote, and a GUI from
\* before the last sync shows the first file.
AsEntered ==
    applies = 0 =>
        /\ \A u \in Unit : blank[u] \subseteq Optional
        /\ blank[1] = {} =>
              /\ stage[1] = "up" => conf[1] = IF told THEN Second ELSE First
              /\ \A d \in Dev : HasCopied(d) => conf[2] = conf[1]
              /\ stage[2] = "network" => conf[2] = First /\ ~told
              /\ stage[2] = "final" => ~told
              /\ stage[2] \in {"final", "done", "up"} => conf[2] = Second
              /\ gui[1].up # "off" /\ 1 \in stale => gui[1].mem = Partial({})

LEMMA AsEnteredInit == Init => AsEntered
<1> SUFFICES ASSUME Init
             PROVE  AsEntered
  OBVIOUS
<1>1. /\ stage = [u \in Unit |-> "install"] /\ gui = [u \in Unit |-> Off]
      /\ blank = [u \in Unit |-> {}] /\ worker = "none" /\ stale = {}
  BY DEF Init, SyncInit
<1>2. \A u \in Unit : stage[u] = "install" /\ blank[u] = {}
  BY <1>1
<1> QED
  BY <1>1, <1>2 DEF AsEntered, HasCopied, Piped, Unit

\* As long as nobody clicks Apply, a step is one of the installers', or shows at most
\* what is in memory.
LEMMA QuietGui ==
  ASSUME Base, [Next]_vars, applies' = 0, Gui
  PROVE  /\ UNCHANGED <<stage, conf, blank, told, worker, device, script>>
         /\ 1 \in stale' => 1 \in stale /\ (gui'[1].up # "off" => /\ gui[1].up # "off"
                                                                /\ gui'[1].mem = gui[1].mem)
<1>1. PICK u \in Unit : GuiStep(u)
  BY DEF Gui, GuiStep
<1>2. applies \in Nat /\ applies = 0 /\ gui[u].save = "no" /\ stale \subseteq Unit
  BY QuietStep DEF Base, TypeOK, InOrder
<1>3. ~Apply(u) /\ ~Write(u)
  BY <1>2 DEF Apply, Write
<1>4. UNCHANGED <<stage, conf, blank, told, worker, device, script>>
  BY <1>1, <1>3
  DEF GuiStep, GuiStart, GuiStop, Edit, Cancel, unitVars, historyVars, syncVars, workerVars,
      scriptVars
<1>5. CASE u # 1
  BY <1>1, <1>4, <1>5, GuiElsewhere DEF Unit
<1>6. CASE u = 1
  <2>1. CASE GuiStart(1)
    BY <1>4, <1>6, <2>1, GuiHere
  <2>2. CASE GuiStop(1)
    BY <1>4, <1>6, <2>2, GuiHere DEF GuiStop
  <2>3. CASE Edit(1) \/ Cancel(1)
    BY <1>4, <1>6, <2>3, GuiHere, EditHere
  <2> QED
    BY <1>1, <1>3, <1>6, <2>1, <2>2, <2>3 DEF GuiStep
<1> QED
  BY <1>5, <1>6

LEMMA AsEnteredNext ==
  ASSUME Base, MemIsFile, FilesShow, AsEntered, [Next]_vars
  PROVE  AsEntered'
<1>1. /\ gui \in [Unit -> GuiType] /\ conf \in [Unit -> File] /\ blank \in [Unit -> SUBSET Address]
      /\ stage \in [Unit -> {"install", "network", "final", "done", "up"}]
      /\ script \in [Dev -> Exited \cup {"up", "ping", "rsync", "prepare", "poll", "stop"}]
      /\ InOrder /\ InOrder' /\ told \in BOOLEAN
  BY BaseNext DEF Base, TypeOK, GuiType, SyncTypeOK
<1>2. 1 \in Unit /\ 2 \in Unit /\ Unit = {1, 2}
  BY DEF Unit
<1>3. SUFFICES ASSUME applies' = 0
               PROVE  AsEntered'
  BY DEF AsEntered
<1>4. applies = 0 /\ \A u \in Unit : blank[u] \subseteq Optional
  BY <1>3, QuietStep DEF AsEntered
<1>5. \A u \in Unit : blank'[u] \subseteq Optional
  <2>1. CASE Gui
    BY <1>3, <1>4, <2>1, QuietGui
  <2>2. CASE InstallAlpha \/ ConfigureBeta
    BY <1>1, <1>4, <2>2, BlankAssumption DEF InstallAlpha, ConfigureBeta, SetupConfigs
  <2>3. CASE (\E d \in Dev : Copied(d)) \/ FinalSync \/ Restart \/ UNCHANGED blank
    BY <1>4, <2>3 DEF Copied, FinalSync, Restart
  <2> QED
    BY <2>1, <2>2, <2>3, Elsewhere
<1>6. SUFFICES ASSUME blank'[1] = {}
               PROVE  /\ stage'[1] = "up" => conf'[1] = IF told' THEN Second' ELSE First
                      /\ \A d \in Dev : HasCopied(d)' => conf'[2] = conf'[1]
                      /\ stage'[2] = "network" => conf'[2] = First /\ ~told'
                      /\ stage'[2] = "final" => ~told'
                      /\ stage'[2] \in {"final", "done", "up"} => conf'[2] = Second'
                      /\ gui'[1].up # "off" /\ 1 \in stale' => gui'[1].mem = Partial({})
  BY <1>5 DEF AsEntered, First
<1>7. /\ stage[1] = "up" => conf[1] = IF told THEN Second ELSE First
      /\ \A d \in Dev : HasCopied(d) => conf[2] = conf[1]
      /\ stage[2] = "network" => conf[2] = First /\ ~told
      /\ stage[2] = "final" => ~told
      /\ stage[2] \in {"final", "done", "up"} => conf[2] = Second
      /\ gui[1].up # "off" /\ 1 \in stale => gui[1].mem = Partial({})
  BY <1>4, <1>6, BlankStays DEF AsEntered
\* The script that has copied has done so before, but for Copied.
<1>8. ASSUME \A d \in Dev : ~Copied(d), UNCHANGED conf
      PROVE  \A d \in Dev : HasCopied(d)' => conf'[2] = conf'[1]
  BY <1>7, <1>8, CopiedOrNow DEF HasCopied, Piped
<1>9. ASSUME stage[2] # "install"
      PROVE  \A d \in Dev : ~HasCopied(d) /\ ~Copied(d)
  BY <1>1, <1>9 DEF InOrder, HasCopied, Piped, Copied, Fetched
<1>10. ASSUME stage'[2] # "install"
       PROVE  \A d \in Dev : ~HasCopied(d)'
  BY <1>1, <1>10 DEF InOrder, HasCopied, Piped
<1>11. CASE Gui
  <2>1. /\ UNCHANGED <<stage, conf, blank, told, worker, device, script>>
        /\ 1 \in stale' => 1 \in stale /\ (gui'[1].up # "off" => /\ gui[1].up # "off"
                                                               /\ gui'[1].mem = gui[1].mem)
    BY <1>3, <1>11, QuietGui
  <2>2. Second' = Second
    BY <2>1 DEF Second, First
  <2>3. \A d \in Dev : HasCopied(d)' => HasCopied(d)
    BY <2>1 DEF HasCopied, Piped
  <2> QED
    BY <1>7, <2>1, <2>2, <2>3
<1>12. CASE InstallAlpha
  <2>1. PICK b \in Blanks : SetupConfigs(1, b, Printed(Partial(b)))
    BY <1>12 DEF InstallAlpha
  <2>2. /\ gui' = gui /\ stale' = stale /\ told' = told /\ stage[1] = "install"
        /\ conf' = [conf EXCEPT ![1] = Printed(Partial(b))] /\ blank'[1] = b
        /\ stage' = [stage EXCEPT ![1] = "up"] /\ worker' = worker
    BY <1>1, <1>2, <1>12, <2>1
    DEF InstallAlpha, SetupConfigs, guiVars, historyVars, syncVars, workerVars
  <2>3. conf'[1] = First /\ stage'[2] = stage[2]
    BY <1>1, <1>2, <1>6, <2>2 DEF First
  <2>4. stage[2] = "install" /\ worker = "none" /\ ~told /\ 1 \notin stale
    BY <1>1, <2>2 DEF InOrder
  <2> QED
    BY <2>2, <2>3, <2>4 DEF HasCopied, Piped
<1>13. ASSUME NEW d \in Dev, Copied(d)
       PROVE  /\ stage'[1] = "up" => conf'[1] = IF told' THEN Second' ELSE First
              /\ \A c \in Dev : HasCopied(c)' => conf'[2] = conf'[1]
              /\ stage'[2] = "network" => conf'[2] = First /\ ~told'
              /\ stage'[2] = "final" => ~told'
              /\ stage'[2] \in {"final", "done", "up"} => conf'[2] = Second'
              /\ gui'[1].up # "off" /\ 1 \in stale' => gui'[1].mem = Partial({})
  <2>1. /\ gui' = gui /\ stale' = stale /\ told' = told /\ stage' = stage /\ worker = "running"
        /\ conf'[1] = conf[1] /\ conf'[2] = conf[1] /\ blank' = blank
    BY <1>1, <1>2, <1>13 DEF Copied, Fetched, Piped, guiVars, historyVars
  <2>2. stage[2] = "install"
    BY <1>1, <2>1 DEF InOrder
  <2>3. Second' = Second
    BY <2>1 DEF Second, First
  <2> QED
    BY <1>7, <2>1, <2>2, <2>3
<1>14. CASE ConfigureBeta
  <2>1. PICK b \in Blanks : SetupConfigs(2, b, Printed(Full(conf[2], b)))
    BY <1>14 DEF ConfigureBeta
  <2>2. /\ gui' = gui /\ stale' = stale /\ told' = told /\ stage[2] = "network"
        /\ conf'[1] = conf[1] /\ conf'[2] = Printed(Full(conf[2], b)) /\ blank'[2] = b
        /\ stage'[2] = "final" /\ stage'[1] = stage[1]
    BY <1>1, <1>2, <1>14, <2>1 DEF ConfigureBeta, SetupConfigs, guiVars, historyVars
  <2>3. conf[2] = First /\ ~told
    BY <1>7, <2>2
  <2>4. conf'[2] = Second'
    BY <2>2, <2>3 DEF Second, First
  <2> QED
    BY <1>7, <1>10, <2>2, <2>3, <2>4
<1>15. CASE FinalSync
  <2>1. /\ stage[2] = "final" /\ stage'[2] = "done" /\ stage'[1] = stage[1] /\ blank' = blank
        /\ \/ gui' = gui /\ conf' = conf /\ told' = told /\ stale' = stale
           \/ /\ gui' = [gui EXCEPT ![1] = Replaced(@)]
              /\ conf' = [conf EXCEPT ![1] = conf[2]]
              /\ told' = TRUE
    <3>1. PICK sent \in SUBSET {"conf", "numbered", "link"} :
             /\ conf' = IF "conf" \in sent THEN [conf EXCEPT ![1] = conf[2]] ELSE conf
             /\ gui' = IF "conf" \in sent THEN [gui EXCEPT ![1] = Replaced(@)] ELSE gui
             /\ stale' = stale \cup IF "conf" \in sent /\ gui[1].up # "off" THEN {1} ELSE {}
             /\ told' = (told \/ "conf" \in sent)
      BY <1>15 DEF FinalSync
    <3>2. /\ stage[2] = "final" /\ stage'[2] = "done" /\ stage'[1] = stage[1] /\ blank' = blank
      BY <1>1, <1>2, <1>15 DEF FinalSync
    <3>3. CASE "conf" \in sent
      BY <3>1, <3>2, <3>3
    <3>4. CASE "conf" \notin sent
      <4>1. told' = told
        BY <1>1, <3>1, <3>4
      <4>2. gui' = gui /\ conf' = conf /\ stale' = stale
        BY <3>1, <3>4
      <4> QED
        BY <3>2, <4>1, <4>2
    <3> QED
      BY <3>3, <3>4
  <2>2. ~told /\ conf[2] = Second /\ Second' = Second
    BY <1>7, <2>1 DEF Second, First
  <2>3. conf'[2] = Second'
    BY <1>1, <1>2, <2>1, <2>2
  <2>4. stage'[1] = "up" => conf'[1] = IF told' THEN Second' ELSE First
    BY <1>1, <1>2, <1>7, <2>1, <2>2
  <2>5. gui'[1].up = gui[1].up /\ gui'[1].mem = gui[1].mem
    BY <1>1, <1>2, <2>1 DEF Replaced, GuiType
  <2>6. gui[1].up # "off" => gui[1].mem = Partial({})
    <3>1. 1 \notin odd \cup stale /\ gui[1].save = "no"
      BY <1>1, <1>2, <1>4, <2>2 DEF InOrder
    <3>2. gui[1].up # "off" => stage[1] = "up"
      BY <1>1, <1>2 DEF InOrder
    <3>3. stage[1] = "up" => Load(conf[1]) = Partial({})
      BY <1>7, <2>2, FirstFacts
    <3> QED
      BY <1>2, <3>1, <3>2, <3>3 DEF MemIsFile, MemIs
  <2> QED
    BY <1>10, <2>1, <2>3, <2>4, <2>5, <2>6
<1>16. CASE Restart
  <2>1. /\ gui'[1] = gui[1] /\ conf'[1] = conf[1] /\ told' = told /\ blank' = blank
        /\ stale' = stale \ {2} /\ stage'[2] = "install" /\ stage'[1] = stage[1]
        /\ worker' = "none"
    BY <1>1, <1>2, <1>16 DEF Restart, SyncRestart, SyncReboot
  <2>2. Second' = Second
    BY <2>1 DEF Second, First
  <2> QED
    BY <1>7, <2>1, <2>2 DEF HasCopied, Piped
<1>17. CASE /\ UNCHANGED <<gui, conf, blank, stale, torn, odd, told, applies>>
            /\ Sync \/ Reaped \/ GivenUp \/ BootBeta \/ (Script /\ UNCHANGED conf)
               \/ UNCHANGED vars
  <2>1. Second' = Second
    BY <1>17 DEF Second, First
  <2>2. ASSUME stage' = stage, \A d \in Dev : HasCopied(d)' => conf'[2] = conf'[1]
        PROVE  /\ stage'[1] = "up" => conf'[1] = IF told' THEN Second' ELSE First
               /\ \A d \in Dev : HasCopied(d)' => conf'[2] = conf'[1]
               /\ stage'[2] = "network" => conf'[2] = First /\ ~told'
               /\ stage'[2] = "final" => ~told'
               /\ stage'[2] \in {"final", "done", "up"} => conf'[2] = Second'
               /\ gui'[1].up # "off" /\ 1 \in stale' => gui'[1].mem = Partial({})
    BY <1>7, <1>17, <2>1, <2>2
  <2>3. CASE \E d \in Dev : Copied(d)
    BY <1>13, <2>3
  <2>4. CASE \A d \in Dev : ~Copied(d)
    <3>1. \A d \in Dev : HasCopied(d)' => conf'[2] = conf'[1]
      BY <1>8, <1>17, <2>4
    <3>2. CASE Reaped
      <4>1. /\ worker = "running" /\ stage'[1] = stage[1]
            /\ stage'[2] = (IF worker' = "success" THEN "network" ELSE stage[2])
            /\ worker' = "success" => Scans(conf[2]) /\ script[device] = "success"
        BY <1>1, <1>2, <3>2 DEF Reaped, Waitpid, TurnTo
      <4>2. stage[2] = "install" /\ stage[1] = "up"
        BY <1>1, <4>1 DEF InOrder
      <4>3. ASSUME worker' = "success"
            PROVE  conf[2] = First /\ ~told
        <5>1. device \in Dev /\ HasCopied(device)
          BY <4>1, <4>3 DEF Base, SyncInv, DeviceExists, HasCopied, Piped
        <5>2. conf[2] = IF told THEN Second ELSE First
          BY <1>7, <4>2, <5>1
        <5>3. ~Scans(Second)
          BY <1>2, <1>4, SecondFacts DEF Second
        <5> QED
          BY <4>1, <4>3, <5>2, <5>3
      <4> QED
        BY <1>7, <1>17, <2>1, <3>1, <4>1, <4>2, <4>3
    <3>3. CASE BootBeta
      <4>1. stage[2] = "done" /\ stage'[2] = "up" /\ stage'[1] = stage[1]
        BY <1>1, <1>2, <3>3 DEF BootBeta
      <4> QED
        BY <1>7, <1>17, <2>1, <3>1, <4>1
    <3>4. CASE Sync \/ GivenUp \/ Script \/ UNCHANGED vars
      <4>1. stage' = stage
        BY <3>4 DEF Sync, GivenUp, Script, Copied, vars, clusterVars, unitVars
      <4> QED
        BY <2>2, <3>1, <4>1
    <3> QED
      BY <1>17, <3>2, <3>3, <3>4
  <2> QED
    BY <2>3, <2>4
<1> QED
  BY <1>11, <1>12, <1>13, <1>14, <1>15, <1>16, <1>17, Elsewhere

LEMMA ComesUp ==
  ASSUME Base, MemIsFile, FilesShow, AsEntered
  PROVE  GuiComesUp
<1>1. InOrder /\ 1 \in Unit /\ 2 \in Unit /\ Unit = {1, 2}
  BY DEF Base, Unit
<1>2. SUFFICES ASSUME NEW u \in Unit, gui[u].up # "off", blank[1] = {}, u \notin torn \cup odd
               PROVE  /\ gui[u].up = "up"
                      /\ applies = 0 =>
                           \A f \in Field :
                              \/ gui[u].mem[f] = IF f[1] = 0 THEN Partial({})[f]
                                                 ELSE Entered(f[1], f[2], blank[f[1]])
                              \/ /\ u = 1 /\ f[1] = 2 /\ gui[u].mem[f] = <<SNAPPTIX_FILL>>
                                 /\ told => stale = {1}
  BY DEF GuiComesUp
<1>3. gui[u].up = "up"
  BY <1>1, <1>2 DEF FilesShow, UnitShows
<1>4. SUFFICES ASSUME applies = 0, NEW f \in Field
               PROVE  \/ gui[u].mem[f] = IF f[1] = 0 THEN Partial({})[f]
                                         ELSE Entered(f[1], f[2], blank[f[1]])
                      \/ /\ u = 1 /\ f[1] = 2 /\ gui[u].mem[f] = <<SNAPPTIX_FILL>>
                         /\ told => stale = {1}
  BY <1>3
<1>5. /\ blank[2] \subseteq Optional
      /\ stage[1] = "up" => conf[1] = IF told THEN Second ELSE First
      /\ stage[2] = "up" => conf[2] = Second
      /\ gui[1].up # "off" /\ 1 \in stale => gui[1].mem = Partial({})
  BY <1>1, <1>2, <1>4 DEF AsEntered
<1>6. /\ gui[u].save = "no" /\ stage[u] = "up" /\ u \notin odd
      /\ u \in stale => u = 1 /\ stale = {1}
  <2>1. gui[u].save = "no" /\ odd = {}
    BY <1>1, <1>4 DEF InOrder
  <2>2. stage[u] = "up" /\ stale \subseteq {1}
    BY <1>1, <1>2 DEF InOrder
  <2> QED
    BY <2>1, <2>2
<1>7. gui[u].mem = Partial({}) \/ gui[u].mem = Full(First, blank[2])
  <2>1. CASE u \in stale
    BY <1>2, <1>5, <1>6, <2>1
  <2>2. CASE u \notin stale
    <3>1. gui[u].mem = Load(conf[u])
      BY <1>2, <1>6, <2>2 DEF MemIsFile, MemIs
    <3>2. conf[u] = First \/ conf[u] = Second
      BY <1>1, <1>5, <1>6
    <3> QED
      BY <1>5, <3>1, <3>2, FirstFacts, SecondFacts DEF Second
  <2> QED
    BY <2>1, <2>2
<1>8. gui[u].mem = Full(First, blank[2]) \/ (u = 1 /\ (told => stale = {1}))
  <2>1. CASE u \in stale
    BY <1>6, <2>1
  <2>2. CASE u \notin stale /\ (u = 2 \/ told)
    <3>1. gui[u].mem = Load(conf[u])
      BY <1>2, <1>6, <2>2 DEF MemIsFile, MemIs
    <3>2. conf[u] = Second
      BY <1>1, <1>5, <1>6, <2>2
    <3> QED
      BY <1>5, <3>1, <3>2, SecondFacts DEF Second
  <2> QED
    BY <1>1, <2>1, <2>2
<1>9. f[1] \in {0, 1, 2}
  <2>1. CASE f \in Unit \X Own
    BY <1>1, <2>1
  <2>2. CASE f = <<0, "name">> \/ f = <<0, "ip">>
    BY <2>2
  <2> QED
    BY <2>1, <2>2 DEF Field
<1>10. CASE gui[u].mem = Full(First, blank[2])
  <2>1. gui[u].mem[f] = IF f[1] = 0 THEN Partial({})[f]
                        ELSE Entered(f[1], f[2], IF f[1] = 1 THEN {} ELSE blank[2])
    BY <1>5, <1>10, SecondIs
  <2>2. CASE f[1] = 0
    BY <2>1, <2>2
  <2>3. CASE f[1] = 1
    BY <1>2, <2>1, <2>3
  <2>4. CASE f[1] = 2
    BY <2>1, <2>4
  <2> QED
    BY <1>9, <2>2, <2>3, <2>4
<1>11. CASE gui[u].mem = Partial({}) /\ u = 1 /\ (told => stale = {1})
  <2>1. CASE f[1] = 2 /\ f # <<2, "host">>
    <3>1. Partial({})[f] = <<SNAPPTIX_FILL>>
      BY <2>1 DEF Partial
    <3> QED
      BY <1>11, <2>1, <3>1
  <2>2. CASE f = <<2, "host">>
    <3>1. Partial({})[f] = <<<<2, "host">>>>
      BY <2>2 DEF Partial
    <3>2. "host" \notin blank[2]
      BY <1>5 DEF Optional
    <3> QED
      BY <1>11, <2>2, <3>1, <3>2 DEF Entered
  <2>3. CASE f[1] = 1
    <3>1. Partial({})[f] = Entered(1, f[2], {})
      BY <2>3 DEF Partial
    <3> QED
      BY <1>2, <1>11, <2>3, <3>1
  <2>4. CASE f[1] = 0
    BY <1>11, <2>4
  <2> QED
    BY <1>9, <2>1, <2>2, <2>3, <2>4
<1> QED
  BY <1>7, <1>8, <1>10, <1>11

\* A GUI comes up with all of its tabs, and until somebody clicks Apply it shows what
\* was entered at the installations of the two units (GuiComesUp), whichever of them
\* starts first, however often a beta is installed, and whatever fails of a final sync.
THEOREM ComesUpAsEntered == Spec => []GuiComesUp
<1> DEFINE Inv == Base /\ MemIsFile /\ FilesShow /\ AsEntered
<1>1. Init => Inv
  BY BaseInit, MemInit, FilesShowInit, AsEnteredInit
<1>2. Inv /\ [Next]_vars => Inv'
  BY BaseNext, MemNext, FilesShowNext, AsEnteredNext
<1>3. Inv => GuiComesUp
  BY ComesUp
<1> HIDE DEF Inv
<1> QED
  BY <1>1, <1>2, <1>3, PTL DEF Spec
=============================================================================
