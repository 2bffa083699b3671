---------------------------- MODULE JanixRequest ----------------------------
(***************************************************************************)
(* What every child of the Janix daemon has (src/janix/Janix.c): the       *)
(* connection it was forked for, the request it read from it and the reply *)
(* it builds.  A connection is numbered, and so is the child that serves   *)
(* it.  JanixProcess and JanixManage are the handlers, JanixConsole the    *)
(* server, its clients and the composition.                                *)
(*                                                                         *)
(* A request is a command of two letters and a text, a sequence of words;  *)
(* a word stands for several characters.                                   *)
(***************************************************************************)
EXTENDS Naturals, Sequences

CONSTANTS
    MaxConn,    \* bound: the connections made between two boots
    Atom        \* the words a text is made of

ASSUME ConnAssumption == MaxConn \in Nat

Conn == 1 .. MaxConn

VARIABLES
    pc,         \* where each child is
    request,    \* what it has read
    answer      \* its reply

childVars == <<pc, request, answer>>

\* The letters of the protocol: header and command.
Command == {"P-", "PK", "PR",               \* PROCESS: active? kill, restart
            "MP", "MM", "MU", "ME",         \* MANAGE: password, mounts, and ME for
                                            \* the scripts: ME, MN and MB
            "E-", "AK",                     \* ECHO, ALPHA
            "--"}                           \* something empty or too long

Request == [command : Command, text : Seq(Atom)]

\* YES, NO, SUCCEEDED, FAILED, the echo, and EMPTYRESPONSE, which is not sent.
Reply == {"Y", "N", "S", "F", "E", "-"}

ServerStep  == {"none", "receive", "reply", "done"}
ProcessStep == {"find", "active", "int", "quit", "kill", "hup"}
ManageStep  == {"open", "salt", "hash", "truncate", "write", "mount", "umount", "script"}

Empty == [command |-> "--", text |-> <<>>]

\* What a child has before it has read.
Unread == [command |-> "none", text |-> <<>>]

ChildTypeOK ==
    /\ pc \in [Conn -> ServerStep \cup ProcessStep \cup ManageStep]
    /\ request \in [Conn -> [command : Command \cup {"none"}, text : Seq(Atom)]]
    /\ answer \in [Conn -> Reply]

\* The same for every connection.
Each(x) == [k \in Conn |-> x]

ChildInit ==
    /\ pc = Each("none")
    /\ request = Each(Unread)
    /\ answer = Each("-")

\* After a boot no child is left.
ChildReboot ==
    /\ pc' = Each("none")
    /\ request' = Each(Unread)
    /\ answer' = Each("-")

\* The child is at a step, and goes on to another.
At(k, step) == pc[k] = step
Goto(k, step) == pc' = [pc EXCEPT ![k] = step]

\* The child goes to another step of its handler.
Proceed(k, step) == Goto(k, step) /\ UNCHANGED <<request, answer>>

\* The handler breaks off with its reply.
Finish(k, a) ==
    /\ Goto(k, "reply")
    /\ answer' = [answer EXCEPT ![k] = a]
    /\ UNCHANGED request
=============================================================================
