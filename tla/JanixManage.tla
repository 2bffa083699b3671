----------------------------- MODULE JanixManage -----------------------------
(***************************************************************************)
(* The MANAGE requests of the Janix daemon (src/janix/Janix.c, utils.h):   *)
(* the root password, the removable discs, and the scripts that set up     *)
(* the network and send mail.                                              *)
(*                                                                         *)
(* The root password is in /etc/shadow.  A child reads the file piece by   *)
(* piece to check the old password, then truncates and writes it for the   *)
(* new one; nothing keeps another child out.  Every write draws a new      *)
(* salt: pieces of two different writes match no password.                 *)
(*                                                                         *)
(* A password is a sequence of words, one of which may be a "#".           *)
(***************************************************************************)
EXTENDS JanixRequest, FiniteSets, SequencesExt

CONSTANTS
    Hash,           \* the "#" between the old password and the new one
    FirstPassword,  \* the password root was given at the installation
    Device,         \* what can be mounted: "floppy", "cdrom"
    Behind          \* what may follow a "#" in the memory behind a request

ASSUME HashAssumption == Hash \in Atom
ASSUME FirstAssumption == FirstPassword \in Seq(Atom)
ASSUME DeviceAssumption == Device \subseteq Atom
ASSUME BehindAssumption == Behind \subseteq Seq(Atom)

VARIABLES
    shadow,     \* /etc/shadow: <<>> while it is empty, or one entry
    disk,       \* what it held when the machine booted
    salt,       \* the entry each child has read the salt of
    mounted,    \* the devices mounted
    seen        \* what the file has held since each child was forked

manageVars == <<shadow, disk, salt, mounted, seen>>

\* An entry: the password, and the child that wrote it, which stands for the
\* salt; 0 for what was there when the machine booted.
Entry == [password : Seq(Atom), writer : 0 .. MaxConn]

File == {f \in Seq(Entry) : Len(f) <= 1}

ManageTypeOK ==
    /\ shadow \in File
    /\ disk \in File
    /\ salt \in [Conn -> File]
    /\ mounted \subseteq Device
    /\ seen \in [Conn -> SUBSET File]

Installed == <<[password |-> FirstPassword, writer |-> 0]>>

ManageInit ==
    /\ shadow = Installed
    /\ disk = Installed
    /\ salt = Each(<<>>)
    /\ mounted = {}
    /\ seen = Each({})

-----------------------------------------------------------------------------
\* The text is split at its first "#"; 0 when it has none.
Split(k) == SelectInSeq(request[k].text, LAMBDA w : w = Hash)
OldPassword(k) == SubSeq(request[k].text, 1, Split(k) - 1)
NewPassword(k) == SubSeq(request[k].text, Split(k) + 1, Len(request[k].text))

\* The loop that looks for the "#" does not look for the end of the text.
\* Without one it runs on through the memory behind: to a "#" somewhere there,
\* and what follows that is the new password, or off the end of the memory,
\* and the child is killed.
RunOn(k) ==
    /\ At(k, "open") /\ Split(k) = 0
    /\ \/ /\ \E behind \in Behind :
               request' = [request EXCEPT ![k] =
                   [command |-> @.command, text |-> @.text \o <<Hash>> \o behind]]
          /\ UNCHANGED <<pc, answer, manageVars>>
       \/ /\ Proceed(k, "done")
          /\ seen' = [seen EXCEPT ![k] = {}]
          /\ UNCHANGED <<shadow, disk, salt, mounted>>

\* Mutant: an empty file is read like any other.
OpenAny(k) ==
    /\ At(k, "open") /\ Split(k) # 0
    /\ Proceed(k, "salt")
    /\ UNCHANGED manageVars

\* Mutant: without an entry for root any password will do.
OpenTrusting(k) ==
    /\ At(k, "open") /\ Split(k) # 0
    /\ \/ shadow = <<>> /\ Proceed(k, "truncate")
       \/ shadow # <<>> /\ Proceed(k, "salt")
    /\ UNCHANGED manageVars

\* isPassword: the eight bytes before the salt, which an empty file lacks.
Open(k) ==
    /\ At(k, "open") /\ Split(k) # 0
    /\ \/ shadow = <<>> /\ Finish(k, "F")
       \/ shadow # <<>> /\ Proceed(k, "salt")
    /\ UNCHANGED manageVars

\* It reads on to the end of the salt: at the end of the file it tries again,
\* until somebody has written more.
ReadSalt(k) ==
    /\ At(k, "salt")
    /\ shadow # <<>>
    /\ salt' = [salt EXCEPT ![k] = shadow]
    /\ Proceed(k, "hash")
    /\ UNCHANGED <<shadow, disk, mounted, seen>>

\* And in the same way to the end of the hash, to compare the password.
ReadHash(k) ==
    /\ At(k, "hash")
    /\ shadow # <<>>
    /\ IF salt[k] = shadow /\ shadow[1].password = OldPassword(k)
       THEN Proceed(k, "truncate")
       ELSE Finish(k, "F")
    /\ UNCHANGED manageVars

\* The children at work on the password see the new content.
PasswordChild(k) ==
    pc[k] \in {"open", "salt", "hash", "truncate", "write"}

ShadowBecomes(file) ==
    /\ shadow' = file
    /\ seen' = [k \in Conn |-> IF PasswordChild(k) THEN seen[k] \cup {file} ELSE seen[k]]

\* setPassword: fopen() empties the file,
Truncate(k) ==
    /\ At(k, "truncate")
    /\ ShadowBecomes(<<>>)
    /\ Proceed(k, "write")
    /\ UNCHANGED <<disk, salt, mounted>>

\* Mutant: the old password is written.
WriteOld(k) ==
    /\ At(k, "write")
    /\ ShadowBecomes(<<[password |-> OldPassword(k), writer |-> k]>>)
    /\ Finish(k, "S")
    /\ UNCHANGED <<disk, salt, mounted>>

\* and fclose() writes it.
Write(k) ==
    /\ At(k, "write")
    /\ ShadowBecomes(<<[password |-> NewPassword(k), writer |-> k]>>)
    /\ Finish(k, "S")
    /\ UNCHANGED <<disk, salt, mounted>>

\* After a boot there is what the file held at the boot before, or what it held
\* last, or the truncation alone has reached the disk.
ManageReboot ==
    /\ \E file \in {disk, shadow} \cup {f \in {<<>>} : shadow # disk} :
         shadow' = IF file = <<>> THEN file ELSE <<[file[1] EXCEPT !.writer = 0]>>
    /\ disk' = shadow'
    /\ salt' = Each(<<>>)
    /\ mounted' = {}
    /\ seen' = Each({})

-----------------------------------------------------------------------------
\* The device a child is asked to mount.
Asked(k) == Head(request[k].text)

\* mount() fails without a disc in the drive, and for what is mounted already.
Mount(k) ==
    /\ At(k, "mount")
    /\ \/ Finish(k, "F") /\ UNCHANGED mounted
       \/ /\ Asked(k) \in Device \ mounted
          /\ mounted' = mounted \cup {Asked(k)}
          /\ Finish(k, "S")
    /\ UNCHANGED <<shadow, disk, salt, seen>>

\* umount() fails while somebody uses the disc, and for what is not mounted.
Unmount(k) ==
    /\ At(k, "umount")
    /\ \/ Finish(k, "F") /\ UNCHANGED mounted
       \/ /\ Asked(k) \in Device \cap mounted
          /\ mounted' = mounted \ {Asked(k)}
          /\ Finish(k, "S")
    /\ UNCHANGED <<shadow, disk, salt, seen>>

\* setip.sh, email.sh or backup.sh ends, one way or the other.
Script(k) ==
    /\ At(k, "script")
    /\ Finish(k, "S") \/ Finish(k, "F")
    /\ UNCHANGED manageVars

ManageHandler(k) ==
    \/ RunOn(k) \/ Open(k) \/ ReadSalt(k) \/ ReadHash(k) \/ Truncate(k) \/ Write(k)
    \/ Mount(k) \/ Unmount(k) \/ Script(k)

-----------------------------------------------------------------------------
\* A password request that succeeds had the password of root at some moment
\* while it was handled, and put its new one into force; one that fails met a
\* file that another request changed, or one without its password.
PasswordAnswers ==
    \A k \in Conn : request[k].command = "MP" /\ At(k, "reply") =>
        LET right == {f \in seen[k] : f # <<>> /\ f[1].password = OldPassword(k)} IN
        IF answer[k] = "S"
        THEN /\ right # {}
             /\ <<[password |-> NewPassword(k), writer |-> k]>> \in seen[k]
        ELSE seen[k] # right \/ Cardinality(seen[k]) > 1

\* Nobody has the file open to write it.
Abandoned == shadow = <<>> /\ \A k \in Conn : ~At(k, "write")

\* A file that a crash has left empty stays empty: no password is right any
\* more.
EmptyIsForGood == [][Abandoned => Abandoned']_<<childVars, manageVars>>
=============================================================================
