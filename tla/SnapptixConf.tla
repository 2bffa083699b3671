---------------------------- MODULE SnapptixConf ----------------------------
(***************************************************************************)
(* /etc/snapptix.conf, the file in which each unit keeps the network       *)
(* settings of both.  The installer writes it with fprintf() and reads it  *)
(* with fscanf() (src/unix-packages/CONFIGS.C, CONFIGS.H, NETWORK.C), the  *)
(* GUI writes it with toString() and reads it line by line with            *)
(* StringTokenizer (src/gui-java/Snapptix_backend/NetworkSettings.java).   *)
(*                                                                         *)
(* A field's value is the sequence of the words in it: a name or an        *)
(* address is one word, and an empty string leaves no word at all.  A file *)
(* is a sequence of lines, a line the sequence of the words after its      *)
(* label.  A word is a pair: who it belongs to, and what it is.            *)
(***************************************************************************)
EXTENDS Naturals, Sequences, FiniteSets

Unit == {1, 2}

Other(u) == 3 - u

\* A unit's settings, the ones that may be left blank, those that are addresses, and
\* those in which the beta's installer takes SNAPPTIX_FILL for "not given".
Own      == {"host", "ip", "dev", "subnet", "gateway", "dns1", "dns2"}
Optional == {"subnet", "gateway", "dns2"}
Address  == Own \ {"host", "dev"}
NotGiven == {"subnet", "gateway", "dns1", "dns2"}

Field == (Unit \X Own) \cup {<<0, "name">>, <<0, "ip">>}

\* What stands for an address nobody has given, and a null of Java.
SNAPPTIX_FILL == <<0, "fill">>
NullWord      == <<0, "null">>

Null == <<NullWord>>

\* The other words: what was entered for a field at the installation, a new address,
\* and a name's two words.
Word == Field \cup {SNAPPTIX_FILL, NullWord} \cup (Unit \X {"new", "two", "words"})

\* The lines 1, 2, P, S, G, DNS1 and DNS2.
SNAPPTIXCONF ==
    << <<<<1, "host">>, <<1, "ip">>, <<1, "dev">>>>,
       <<<<2, "host">>, <<2, "ip">>, <<2, "dev">>>>,
       <<<<0, "name">>, <<0, "ip">>>>,
       <<<<1, "subnet">>, <<2, "subnet">>>>,
       <<<<1, "gateway">>, <<2, "gateway">>>>,
       <<<<1, "dns1">>, <<2, "dns1">>>>,
       <<<<1, "dns2">>, <<2, "dns2">>>> >>

\* A file is written whole, or was truncated and is empty.
Line == DOMAIN SNAPPTIXCONF

Empty == <<>>

\* What is printed for the fields of a line: "%s" of an empty string prints nothing.
Words(v, fields) ==
    IF Len(fields) = 2 THEN v[fields[1]] \o v[fields[2]]
    ELSE v[fields[1]] \o v[fields[2]] \o v[fields[3]]

\* Mutant: the last line is forgotten.
PrintedShort(v) == [l \in Line \ {7} |-> Words(v, SNAPPTIXCONF[l])]

\* The file with the values v.
Printed(v) == [l \in Line |-> Words(v, SNAPPTIXCONF[l])]

\* Where a field is in the file: its line, and its place there.
Place == [f \in Field |->
    CHOOSE p \in Line \X (1 .. 3) :
        p[2] \in DOMAIN SNAPPTIXCONF[p[1]] /\ SNAPPTIXCONF[p[1]][p[2]] = f]

\* The words of the file that load() comes to: the first that is missing ends it with
\* an exception.
Reached(file, l, i) ==
    /\ file # Empty
    /\ i \in DOMAIN file[l]
    /\ \A k \in 1 .. l - 1 : Len(file[k]) >= Len(SNAPPTIXCONF[k])

\* NetworkSettings.load(): the fields it does not come to stay null.
Load(file) ==
    [f \in Field |-> IF Reached(file, Place[f][1], Place[f][2])
                     THEN <<file[Place[f][1]][Place[f][2]]>> ELSE Null]

\* What the user of the installer enters for a setting, with some left blank.
Entered(u, x, blank) == <<IF x \in blank THEN SNAPPTIX_FILL ELSE <<u, x>>>>

\* Mutant: nothing is printed for the other unit's subnet.
PartialUnfilled(blank) ==
    [f \in Field |-> CASE f[1] = 1 -> Entered(1, f[2], blank)
                       [] f \in {<<2, "host">>, <<0, "ip">>} -> <<f>>
                       [] f = <<2, "subnet">> -> <<>>
                       [] OTHER -> <<SNAPPTIX_FILL>>]

\* The values in the alpha's file: its user names both units and gives the cluster
\* its address.
Partial(blank) ==
    [f \in Field |-> CASE f[1] = 1 -> Entered(1, f[2], blank)
                       [] f \in {<<2, "host">>, <<0, "ip">>} -> <<f>>
                       [] OTHER -> <<SNAPPTIX_FILL>>]

\* fscanf() takes the alpha's file if each line ends as a partial one does.  Words
\* that are left over, or missing, fail with the next line's label; after the last
\* line there is none.
Scans(file) ==
    /\ file # Empty
    /\ Len(file[1]) = 3
    /\ Len(file[2]) = 3 /\ file[2][2] = SNAPPTIX_FILL /\ file[2][3] = SNAPPTIX_FILL
    /\ Len(file[3]) = 2
    /\ \A l \in 4 .. 6 : Len(file[l]) = 2 /\ file[l][2] = SNAPPTIX_FILL
    /\ file[7] # <<>>

\* The alpha's settings as the beta has them: an address not given is now "".
Scanned(file, f) ==
    LET value == Load(file)[f]
    IN  IF f[2] \in NotGiven /\ value = <<SNAPPTIX_FILL>>
        THEN <<>> ELSE value

\* Mutant: what the beta's user leaves blank is not filled in.
FullUnfilled(file, blank) ==
    [f \in Field |-> CASE f = <<0, "name">> -> <<SNAPPTIX_FILL>>
                       [] f[1] = 2 /\ f[2] \in blank -> <<>>
                       [] f[1] = 2 /\ f # <<2, "host">> -> Entered(2, f[2], blank)
                       [] OTHER -> Scanned(file, f)]

\* The values in the beta's file.
Full(file, blank) ==
    [f \in Field |-> CASE f = <<0, "name">> -> <<SNAPPTIX_FILL>>
                       [] f[1] = 2 /\ f # <<2, "host">> -> Entered(2, f[2], blank)
                       [] OTHER -> Scanned(file, f)]

\* The GUI splits an address into its four parts: any other word, or null, throws.
IsAddress(value) ==
    /\ Len(value) = 1
    /\ value[1] # NullWord
    /\ value[1][2] \in Address \cup {"fill", "new"}

\* Those fields of the GUI that hold addresses, and those that hold names.
AddressField == (Unit \X Address) \cup {<<0, "ip">>}
NameField    == (Unit \X {"host"}) \cup {<<0, "name">>}
=============================================================================
