--------------------------- MODULE ClusterInstall ---------------------------
(***************************************************************************)
(* How the two units of a cluster come to know each other.  The alpha is   *)
(* installed first and writes what its user entered for both             *)
(* (setup_configs(), src/unix-packages/CONFIGS.C).  The beta's installer   *)
(* copies the alpha (SyncNode), reads the alpha's half of                  *)
(* /etc/snapptix.conf from the copy, writes the file anew with its own     *)
(* half, and in final_sync() (NETWORK.C, SYNC_OTH.SH) copies itself back.  *)
(* All that time the alpha is up, with its GUI: the network tab of         *)
(* src/gui-java/Snapptix_frontend/AppFrame.java loads the file when the    *)
(* GUI starts and overwrites it whenever Apply is clicked.                 *)
(*                                                                         *)
(* Each unit keeps its other network files under its own number, rc.conf.1 *)
(* and so on, and links rc.conf to it; the links are on the list of what   *)
(* rsync leaves out.  Four such files are one here.                        *)
(***************************************************************************)
EXTENDS SnapptixConf, SyncNode

CONSTANTS
    Blanks,      \* what the users of the installer may leave blank
    Edits(_),    \* what the user of a unit's GUI may type: field and value
    MaxEdits,    \* bound: how often anybody types something
    MaxEvents    \* bound: clicks on Apply, and installations of the beta after the first

ASSUME BlankAssumption == \A b \in Blanks : b \subseteq Optional
\* The devices are not on the tab, and the other unit's fields are never editable; four
\* octets make one address, whatever was typed in them.
ASSUME EditAssumption ==
    \A u \in Unit : \A e \in Edits(u) :
        /\ e[1] \in AddressField \cup NameField
        /\ e[1][1] \in {0, u}
        /\ e[2] \in Seq(Word)
        /\ e[1] \in AddressField => IsAddress(e[2])
ASSUME BoundAssumption == MaxEdits \in Nat /\ MaxEvents \in Nat

VARIABLES
    stage,      \* each unit's installation
    conf,       \* each unit's /etc/snapptix.conf
    numbered,   \* the numbers of the copies of rc.conf and the others it has
    link,       \* the one its rc.conf leads to, or 0
    gui,        \* each unit's GUI: NetworkSettings, the tab, and save()
    blank,      \* what each user left blank, or emptied later
    edits, applies, restarts,
    told,       \* history: has a beta written itself to the alpha?
    stale,      \* history: the units whose file was replaced under the GUI
    torn,       \* history: the units that went down in the middle of a save()
    odd         \* history: the units where a name of no or of two words was applied

unitVars == <<stage, conf, numbered, link, blank>>
guiVars == <<gui, edits, applies>>
historyVars == <<told, stale, torn, odd>>
clusterVars == <<unitVars, guiVars, restarts, historyVars>>
vars == <<syncVars, clusterVars>>

\* A GUI that is not running.
Off == [up |-> "off", mem |-> Load(Empty), tab |-> Load(Empty), save |-> "no"]

Values == [Field -> Seq(Word)]

\* A file is empty or has all its lines.
File == {file \in Seq(Seq(Word)) : Len(file) \in {0, 7}}

\* The type invariant.
TypeOK ==
    /\ SyncTypeOK
    /\ stage \in [Unit -> {"install", "network", "final", "done", "up"}]
    /\ conf \in [Unit -> File]
    /\ numbered \in [Unit -> SUBSET Unit]
    /\ link \in [Unit -> {0} \cup Unit]
    /\ gui \in [Unit -> [up : {"off", "up", "broken"}, mem : Values, tab : Values,
                         save : {"no", "open", "lost"}]]
    /\ blank \in [Unit -> SUBSET Address]
    /\ edits \in 0 .. MaxEdits
    /\ applies \in Nat /\ restarts \in Nat /\ applies + restarts <= MaxEvents
    /\ told \in BOOLEAN
    /\ stale \subseteq Unit /\ torn \subseteq Unit /\ odd \subseteq Unit

\* Neither unit is installed.
Init ==
    /\ SyncInit
    /\ stage = [u \in Unit |-> "install"]
    /\ conf = [u \in Unit |-> Empty]
    /\ numbered = [u \in Unit |-> {}]
    /\ link = [u \in Unit |-> 0]
    /\ gui = [u \in Unit |-> Off]
    /\ blank = [u \in Unit |-> {}]
    /\ edits = 0 /\ applies = 0 /\ restarts = 0
    /\ told = FALSE
    /\ stale = {} /\ torn = {} /\ odd = {}

-----------------------------------------------------------------------------
\* The installers.

\* Mutant: rsync knows no exception.
ExcludedNothing(here, there) == there

\* The list of exceptions: the link stays what it is.
Excluded(here, there) == here

\* The user leaves b blank.  setup_configs(): the numbered copy, the link to it, which
\* must not be there yet, and snapptix.conf.
SetupConfigs(u, b, file) ==
    /\ link[u] = 0
    /\ blank' = [blank EXCEPT ![u] = b]
    /\ link' = [link EXCEPT ![u] = u]
    /\ numbered' = [numbered EXCEPT ![u] = @ \cup {u}]
    /\ conf' = [conf EXCEPT ![u] = file]

\* The alpha's installation comes to its end, and the computer boots.
InstallAlpha ==
    /\ stage[1] = "install"
    /\ \E b \in Blanks : SetupConfigs(1, b, Printed(Partial(b)))
    /\ stage' = [stage EXCEPT ![1] = "up"]
    /\ UNCHANGED <<syncVars, guiVars, restarts, historyVars>>

\* The beta's user clicks Next.
Sync ==
    /\ stage[1] = "up"
    /\ stage[2] = "install"
    /\ SyncStart
    /\ UNCHANGED clusterVars

\* The script ends its rsync: the beta has the alpha's files, but for the links.
Copied(d) ==
    /\ Fetched(d)
    /\ conf' = [conf EXCEPT ![2] = conf[1]]
    /\ numbered' = [numbered EXCEPT ![2] = @ \cup numbered[1]]
    /\ link' = [link EXCEPT ![2] = Excluded(@, link[1])]
    /\ UNCHANGED <<stage, blank, guiVars, restarts, historyVars>>

\* The worker ends, and the network page follows if the file could be scanned.
Reaped ==
    /\ Waitpid(Scans(conf[2]))
    /\ stage' = [stage EXCEPT ![2] = IF worker' = "success" THEN "network" ELSE @]
    /\ UNCHANGED <<conf, numbered, link, blank, guiVars, restarts, historyVars>>

GivenUp == LineTooLong /\ UNCHANGED clusterVars

\* The beta's user enters its settings, and the external device is found.  The
\* values scanned before are still those of the copy.
ConfigureBeta ==
    /\ stage[2] = "network"
    /\ \E b \in Blanks : SetupConfigs(2, b, Printed(Full(conf[2], b)))
    /\ stage' = [stage EXCEPT ![2] = "final"]
    /\ UNCHANGED <<syncVars, guiVars, restarts, historyVars>>

\* A file is replaced: what an open save() still writes goes to the old one.
Replaced(g) == IF g.save = "open" THEN [g EXCEPT !.save = "lost"] ELSE g

\* final_sync(): the script copies the beta's files to the alpha, but for the links;
\* it may fail at any of them, or before.
FinalSync ==
    /\ stage[2] = "final"
    /\ \E sent \in SUBSET {"conf", "numbered", "link"} :
          /\ conf' = IF "conf" \in sent THEN [conf EXCEPT ![1] = conf[2]] ELSE conf
          /\ gui' = IF "conf" \in sent THEN [gui EXCEPT ![1] = Replaced(@)] ELSE gui
          /\ stale' = stale \cup IF "conf" \in sent /\ gui[1].up # "off" THEN {1} ELSE {}
          /\ told' = (told \/ "conf" \in sent)
          /\ numbered' = IF "numbered" \in sent
                         THEN [numbered EXCEPT ![1] = @ \cup numbered[2]] ELSE numbered
          /\ link' = IF "link" \in sent
                     THEN [link EXCEPT ![1] = Excluded(@, link[2])] ELSE link
    /\ stage' = [stage EXCEPT ![2] = "done"]
    /\ UNCHANGED <<syncVars, blank, edits, applies, restarts, torn, odd>>

\* The beta boots from its own disc, which it does after a final sync that failed too.
BootBeta ==
    /\ stage[2] = "done"
    /\ SyncReboot
    /\ stage' = [stage EXCEPT ![2] = "up"]
    /\ UNCHANGED <<long, root, home, conf, numbered, link, blank, guiVars, restarts, historyVars>>

\* The beta is restarted from the installer's disc, at any time: the power fails, or
\* another computer takes its place.
Restart ==
    /\ applies + restarts < MaxEvents
    /\ restarts' = restarts + 1
    /\ worker # "none" \/ stage[2] = "up"
    /\ SyncRestart
    /\ stage' = [stage EXCEPT ![2] = "install"]
    /\ conf' = [conf EXCEPT ![2] = Empty]
    /\ numbered' = [numbered EXCEPT ![2] = {}]
    /\ link' = [link EXCEPT ![2] = 0]
    /\ gui' = [gui EXCEPT ![2] = Off]
    /\ stale' = stale \ {2}
    /\ torn' = torn \ {2}
    /\ odd' = odd \ {2}
    /\ UNCHANGED <<blank, edits, applies, told>>

-----------------------------------------------------------------------------
\* The GUI of a unit.

Running(u) == gui[u].up = "up"

SetGui(u, g) == gui' = [gui EXCEPT ![u] = g]

\* Building the network tab throws on the first address that is none, and the window
\* stays without its tabs.
Shows(mem) == \A f \in AddressField : IsAddress(mem[f])

\* API() loads the file, and AppFrame() fills the tab from it.
GuiStart(u) ==
    /\ stage[u] = "up"
    /\ gui[u].up = "off"
    /\ LET mem == Load(conf[u])
       IN  SetGui(u, [up |-> IF Shows(mem) THEN "up" ELSE "broken",
                      mem |-> mem, tab |-> mem, save |-> "no"])
    /\ stale' = stale \ {u}
    /\ UNCHANGED <<syncVars, unitVars, edits, applies, restarts, told, torn, odd>>

\* The GUI ends, or the computer does; in the middle of a save() the file stays empty.
GuiStop(u) ==
    /\ gui[u].up # "off"
    /\ SetGui(u, Off)
    /\ torn' = torn \cup IF gui[u].save = "open" THEN {u} ELSE {}
    /\ UNCHANGED <<syncVars, unitVars, edits, applies, restarts, told, stale, odd>>

\* The user types something.
Edit(u) ==
    /\ Running(u)
    /\ gui[u].save = "no"
    /\ edits < MaxEdits
    /\ \E e \in Edits(u) :
          /\ gui[u].tab[e[1]] # e[2]
          /\ SetGui(u, [gui[u] EXCEPT !.tab[e[1]] = e[2]])
    /\ edits' = edits + 1
    /\ UNCHANGED <<syncVars, unitVars, applies, restarts, historyVars>>

\* Cancel: loadNetworkTab() shows again what is in memory.
Cancel(u) ==
    /\ Running(u)
    /\ gui[u].save = "no"
    /\ gui[u].tab # gui[u].mem
    /\ SetGui(u, [gui[u] EXCEPT !.tab = gui[u].mem])
    /\ UNCHANGED <<syncVars, unitVars, edits, applies, restarts, historyVars>>

\* saveNetworkTab() takes no names or addresses that two of the three share.
Distinct(tab) ==
    \A x \in {"host", "ip"} :
        Cardinality({tab[<<1, x>>], tab[<<2, x>>],
                     tab[<<0, IF x = "host" THEN "name" ELSE x>>]}) = 3

\* Mutant: the other unit's settings are taken from the fields of this one.
SavedSwapped(u, tab) ==
    [f \in Field |-> IF f[1] = Other(u) /\ f[2] \in Optional THEN tab[<<u, f[2]>>] ELSE tab[f]]

\* What it takes: the other unit's gateway is read from this unit's fields.
Saved(u, tab) == [tab EXCEPT ![<<Other(u), "gateway">>] = tab[<<u, "gateway">>]]

\* Apply: what saveNetworkTab() refuses it leaves alone, and save() follows in any
\* case.  It truncates the file first.
Apply(u) ==
    /\ Running(u)
    /\ gui[u].save = "no"
    /\ applies + restarts < MaxEvents
    /\ LET mem == IF Distinct(gui[u].tab) THEN Saved(u, gui[u].tab) ELSE gui[u].mem
       IN  /\ SetGui(u, [gui[u] EXCEPT !.mem = mem, !.save = "open"])
           /\ odd' = odd \cup IF \E f \in NameField : Len(mem[f]) # 1 THEN {u} ELSE {}
           /\ blank' = [blank EXCEPT ![u] =
                          @ \cup {x \in NotGiven : mem[<<u, x>>] = <<SNAPPTIX_FILL>>}]
    /\ conf' = [conf EXCEPT ![u] = Empty]
    /\ applies' = applies + 1
    /\ UNCHANGED <<syncVars, stage, numbered, link, edits, restarts, told, stale, torn>>

\* Then it is written.
Write(u) ==
    /\ gui[u].save # "no"
    /\ SetGui(u, [gui[u] EXCEPT !.save = "no"])
    /\ conf' = IF gui[u].save = "open" THEN [conf EXCEPT ![u] = Printed(gui[u].mem)] ELSE conf
    /\ UNCHANGED <<syncVars, stage, numbered, link, blank, edits, applies, restarts, historyVars>>

-----------------------------------------------------------------------------
Script == \E d \in Dev : Copied(d) \/ (SyncScript(d) /\ UNCHANGED clusterVars)

Installer == InstallAlpha \/ Sync \/ Reaped \/ GivenUp \/ ConfigureBeta \/ FinalSync \/ BootBeta

Gui == \E u \in Unit :
    GuiStart(u) \/ GuiStop(u) \/ Edit(u) \/ Cancel(u) \/ Apply(u) \/ Write(u)

Next == Script \/ Installer \/ Gui \/ Restart

\* The commands of the script and its drbd end, and the worker is scheduled.
Fairness ==
    /\ \A d \in Dev : WF_vars(Copied(d) \/ (SyncScript(d) /\ UNCHANGED clusterVars))
    /\ WF_vars(Reaped \/ GivenUp)

Spec == Init /\ [][Next]_vars /\ Fairness

-----------------------------------------------------------------------------
\* Properties.

\* The beta refuses the file of its alpha (NETWORK.C:221) only if the alpha's user
\* has clicked Apply, or another beta was installed before: what setup_configs()
\* writes on the one unit always scans on the other.
RefusedOnlyIf ==
    device \in Dev /\ script[device] = "success" /\ worker = "failure" => applies > 0 \/ told

\* A GUI that starts shows, as long as nobody has clicked Apply, what was entered at
\* the installations.  It comes up without its tabs only if the alpha's user left an
\* address blank, or emptied it and clicked Apply, if a unit went down in the middle
\* of a save(), or if a name of no or of two words was applied.
GuiComesUp ==
    \A u \in Unit :
        \/ gui[u].up = "off"
        \/ blank[1] # {}
        \/ u \in torn \cup odd
        \/ /\ gui[u].up = "up"
           /\ applies = 0 =>
                \A f \in Field :
                    \/ gui[u].mem[f] = IF f[1] = 0 THEN Partial({})[f]
                                       ELSE Entered(f[1], f[2], blank[f[1]])
                    \/ /\ u = 1 /\ f[1] = 2 /\ gui[u].mem[f] = <<SNAPPTIX_FILL>>
                       /\ told => stale = {1}

\* Apply changes a value in the file only if the user has typed another one, but for
\* the other unit's gateway, unless the file was replaced while the GUI was up, or a
\* name of no or of two words is in it: what follows such a name is read as another
\* field.
AppliesWhatWasTyped ==
    [][\A u \in Unit : /\ applies' > applies /\ gui'[u].save # gui[u].save
                      /\ u \notin stale \cup odd =>
          \A f \in Field \ {<<Other(u), "gateway">>} :
              \/ gui'[u].mem[f] = Load(conf[u])[f]
              \/ gui[u].tab[f] # gui[u].mem[f]]_vars

\* Each unit goes by its own number: no sync ever gives one unit the other's name
\* and addresses.
EachItsOwn == \A u \in Unit : link[u] \in {0, u} /\ (link[u] = u => u \in numbered[u])

\* A sync that was begun comes to an end, unless the computer is restarted.
SyncEnds == worker = "running" ~> worker # "running"
=============================================================================
