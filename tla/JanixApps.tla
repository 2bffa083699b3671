------------------------------ MODULE JanixApps ------------------------------
(***************************************************************************)
(* The APP requests of the Janix daemon (src/janix/Janix.c): install and   *)
(* uninstall an application, or ask whether it is installed.               *)
(*                                                                         *)
(* What is installed is known twice: to the package tools pkgadd and       *)
(* pkgrm, and to the list apps.log, a text file with one name per line     *)
(* that the daemon keeps itself.  Every request is handled by a child of   *)
(* its own; a child scans the list, runs a tool, then edits the list, and  *)
(* takes no lock.                                                          *)
(*                                                                         *)
(* The list is a sequence of names and newlines.  Names are atomic: that   *)
(* one name may begin or end with another is left out.                     *)
(***************************************************************************)
EXTENDS Naturals, Sequences, FiniteSets, SequencesExt

CONSTANTS
    Child,      \* the requests handled at the same time
    App,        \* the names of the applications
    Newline,    \* the byte after each of them
    Stale,      \* whether removeString()'s search[] starts with stale bytes
    MaxLength   \* bound: the length of the list

ASSUME AppAssumption == Newline \notin App /\ App # {}
ASSUME StaleAssumption == Stale \subseteq BOOLEAN /\ Stale # {}
ASSUME LengthAssumption == MaxLength \in Nat

VARIABLES
    installed,  \* what the package tools know to be installed
    list,       \* apps.log
    pc,         \* the next step of each child
    op, app,    \* its request
    offset,     \* how far it has scanned the list
    text,       \* what it has read of the list to remove a name
    answer      \* its reply: Y, N, S or F

vars == <<installed, list, pc, op, app, offset, text, answer>>

Step == {"idle", "scan", "pkgadd", "name", "newline",
         "pkgrm", "reread", "truncate", "rewrite", "reply"}

Text == Seq(App \cup {Newline})

\* The type invariant.
TypeOK ==
    /\ installed \subseteq App
    /\ list \in Text
    /\ Len(list) <= MaxLength
    /\ pc \in [Child -> Step]
    /\ op \in [Child -> {"install", "uninstall", "skip"}]
    /\ app \in [Child -> App]
    /\ offset \in [Child -> 0 .. MaxLength]
    /\ text \in [Child -> Text]
    /\ answer \in [Child -> {"none", "Y", "N", "S", "F"}]

\* Nothing is installed and the list, which no code creates, is there and empty.
Init ==
    /\ installed = {}
    /\ list = <<>>
    /\ pc = [c \in Child |-> "idle"]
    /\ op = [c \in Child |-> "skip"]
    /\ app = [c \in Child |-> CHOOSE a \in App : TRUE]
    /\ offset = [c \in Child |-> 0]
    /\ text = [c \in Child |-> <<>>]
    /\ answer = [c \in Child |-> "none"]

Request(c) ==
    /\ pc[c] = "idle"
    /\ \E o \in {"install", "uninstall", "skip"} : op' = [op EXCEPT ![c] = o]
    /\ \E a \in App : app' = [app EXCEPT ![c] = a]
    /\ pc' = [pc EXCEPT ![c] = "scan"]
    /\ UNCHANGED <<installed, list, offset, text, answer>>

Goto(c, step) == pc' = [pc EXCEPT ![c] = step]

\* The reply is settled.
Finish(c, a) ==
    /\ Goto(c, "reply")
    /\ answer' = [answer EXCEPT ![c] = a]

Reply(c) ==
    /\ pc[c] = "reply"
    /\ Goto(c, "idle")
    /\ answer' = [answer EXCEPT ![c] = "none"]
    /\ UNCHANGED <<installed, list, op, app, offset, text>>

-----------------------------------------------------------------------------
\* The scan of the list, a line at a time.

\* Mutant: the line is taken to end after its newline.
LineEndPast(s) ==
    IF Contains(s, Newline) THEN SelectInSeq(s, LAMBDA t : t = Newline) + 1 ELSE 0

\* The end of the first line of s, 0 if there is none.
LineEnd(s) == IF Contains(s, Newline) THEN SelectInSeq(s, LAMBDA t : t = Newline) ELSE 0

\* Mutant: an install of a listed application goes ahead.
DecideNoCheck(c, listed) ==
    /\ CASE op[c] = "skip"                -> Finish(c, IF listed THEN "Y" ELSE "N")
         [] op[c] = "install"             -> Goto(c, "pkgadd") /\ UNCHANGED answer
         [] op[c] = "uninstall" /\ listed -> Goto(c, "pkgrm") /\ UNCHANGED answer
         [] OTHER                         -> Finish(c, "F")
    /\ offset' = [offset EXCEPT ![c] = 0]

\* What the child does about a name that is listed, or is not.
Decide(c, listed) ==
    /\ CASE op[c] = "skip"                -> Finish(c, IF listed THEN "Y" ELSE "N")
         [] op[c] = "install" /\ ~listed  -> Goto(c, "pkgadd") /\ UNCHANGED answer
         [] op[c] = "uninstall" /\ listed -> Goto(c, "pkgrm") /\ UNCHANGED answer
         [] OTHER                         -> Finish(c, "F")
    /\ offset' = [offset EXCEPT ![c] = 0]

ScanLine(c) ==
    LET rest == SubSeq(list, offset[c] + 1, Len(list))
        end  == LineEnd(rest)
        line == SubSeq(rest, 1, end - 1)
    IN  /\ pc[c] = "scan"
        /\ \/ end = 0 /\ Decide(c, FALSE)
           \/ end # 0 /\ line = <<app[c]>> /\ Decide(c, TRUE)
           \/ /\ end # 0 /\ line # <<app[c]>>
              /\ offset' = [offset EXCEPT ![c] = @ + end]
              /\ UNCHANGED <<pc, answer>>
        /\ UNCHANGED <<installed, list, op, app, text>>

-----------------------------------------------------------------------------
\* INSTALL: pkgadd, then two appending writes.

PkgAdd(c) ==
    /\ pc[c] = "pkgadd"
    /\ app[c] \notin installed
    /\ installed' = installed \cup {app[c]}
    /\ Goto(c, "name")
    /\ UNCHANGED <<list, op, app, offset, text, answer>>

\* There is no such package, it is installed already, or pkgadd fails.
PkgAddFails(c) ==
    /\ pc[c] = "pkgadd"
    /\ Finish(c, "F")
    /\ UNCHANGED <<installed, list, op, app, offset, text>>

\* free() of the directory entry, which closedir() has freed: the child may die.
PkgAddCrashes(c) ==
    /\ pc[c] = "pkgadd"
    /\ Goto(c, "idle")
    /\ UNCHANGED <<installed, list, op, app, offset, text, answer>>

WriteName(c) ==
    /\ pc[c] = "name"
    /\ Len(list) + 2 <= MaxLength
    /\ list' = Append(list, app[c])
    /\ Goto(c, "newline")
    /\ UNCHANGED <<installed, op, app, offset, text, answer>>

WriteNewline(c) ==
    /\ pc[c] = "newline"
    /\ Len(list) < MaxLength
    /\ list' = Append(list, Newline)
    /\ Finish(c, "S")
    /\ UNCHANGED <<installed, op, app, offset, text>>

-----------------------------------------------------------------------------
\* UNINSTALL: pkgrm, then the list is read, cut and written again.

PkgRm(c) ==
    /\ pc[c] = "pkgrm"
    /\ app[c] \in installed
    /\ installed' = installed \ {app[c]}
    /\ Goto(c, "reread")
    /\ UNCHANGED <<list, op, app, offset, text, answer>>

\* Mutant: the exit status of pkgrm is not looked at.
PkgRmFailsUnnoticed(c) ==
    /\ pc[c] = "pkgrm"
    /\ Goto(c, "reread")
    /\ UNCHANGED <<installed, list, op, app, offset, text, answer>>

PkgRmFails(c) ==
    /\ pc[c] = "pkgrm"
    /\ Finish(c, "F")
    /\ UNCHANGED <<installed, list, op, app, offset, text>>

Reread(c) ==
    /\ pc[c] = "reread"
    /\ text' = [text EXCEPT ![c] = list]
    /\ Goto(c, "truncate")
    /\ UNCHANGED <<installed, list, op, app, offset, answer>>

Truncate(c) ==
    /\ pc[c] = "truncate"
    /\ list' = <<>>
    /\ Goto(c, "rewrite")
    /\ UNCHANGED <<installed, op, app, offset, text, answer>>

\* The first place in s where the name a and its newline stand, 0 if there is none.
Place(s, a) ==
    IF \E i \in 1 .. Len(s) - 1 : s[i] = a /\ s[i + 1] = Newline
    THEN CHOOSE i \in 1 .. Len(s) - 1 :
           /\ s[i] = a /\ s[i + 1] = Newline
           /\ \A j \in 1 .. i - 1 : ~(s[j] = a /\ s[j + 1] = Newline)
    ELSE 0

\* Mutant: one element too many is cut out.
removeStringTooLong(s, a, stale) ==
    IF stale \/ Place(s, a) = 0 THEN s
    ELSE SubSeq(s, 1, Place(s, a) - 1) \o SubSeq(s, Place(s, a) + 3, Len(s))

\* Stale bytes before the name in search[] match nothing.
removeString(s, a, stale) ==
    IF stale \/ Place(s, a) = 0 THEN s
    ELSE SubSeq(s, 1, Place(s, a) - 1) \o SubSeq(s, Place(s, a) + 2, Len(s))

\* The text is written from the start of the file, over what has been appended
\* to it since.
Rewrite(c) ==
    /\ pc[c] = "rewrite"
    /\ \E stale \in Stale :
         LET new == removeString(text[c], app[c], stale)
         IN  list' = new \o SubSeq(list, Len(new) + 1, Len(list))
    /\ text' = [text EXCEPT ![c] = <<>>]
    /\ Finish(c, "S")
    /\ UNCHANGED <<installed, op, app, offset>>

-----------------------------------------------------------------------------

Next == \E c \in Child :
    \/ Request(c) \/ ScanLine(c) \/ Reply(c)
    \/ PkgAdd(c) \/ PkgAddFails(c) \/ PkgAddCrashes(c) \/ WriteName(c) \/ WriteNewline(c)
    \/ PkgRm(c) \/ PkgRmFails(c) \/ Reread(c) \/ Truncate(c) \/ Rewrite(c)

Spec == Init /\ [][Next]_vars

-----------------------------------------------------------------------------
(***************************************************************************)
(* Properties.                                                             *)
(***************************************************************************)

\* The lines of s that hold the name a.
Lines(s, a) ==
    {i \in 1 .. Len(s) - 1 :
       s[i] = a /\ s[i + 1] = Newline /\ (i = 1 \/ s[i - 1] = Newline)}

\* No child is between running a tool and having edited the list.
Settled ==
    \A c \in Child :
        pc[c] \notin {"name", "newline", "reread", "truncate", "rewrite"}

\* What is installed is listed, through every sequence of requests that succeed,
\* fail half-way or crash before the tool: otherwise it could never be
\* uninstalled again.
InstalledIsListed ==
    Settled => \A a \in installed : Lines(list, a) # {}

\* The replies a client may rely on: S only when the tool and the list have done
\* their part, N only for what is not installed.
AnswersHold ==
    \A c \in Child : pc[c] = "reply" =>
        /\ op[c] = "install" /\ answer[c] = "S" =>
             app[c] \in installed /\ Lines(list, app[c]) # {}
        /\ op[c] = "uninstall" /\ answer[c] = "S" => app[c] \notin installed
        /\ op[c] = "skip" /\ answer[c] = "N" => app[c] \notin installed

\* Janix.c before it removes a name: "inv: program can be listed only once (fail
\* on multiple install)".
ListedOnce ==
    \A c \in Child : pc[c] \in {"truncate", "rewrite"} =>
        Cardinality(Lines(text[c], app[c])) <= 1

=============================================================================
