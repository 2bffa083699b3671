---------------------------- MODULE MCJanixConsole ----------------------------
(***************************************************************************)
(* JanixConsole on a machine with one program that has a pid file, one     *)
(* removable disc and one run of the command line client.                  *)
(***************************************************************************)
EXTENDS JanixConsole

CONSTANTS swing, monitor, client, web, floppy, p, q, hash, j, w, v

Words   == {web, floppy, p, q, hash, "Janix"}

\* A short pid keeps the last digits of the daemon's and becomes another.
Digits  == [c \in Content |-> CASE c = Blank -> j [] c = v -> w [] OTHER -> c]

Op(kind, first, second) == [kind |-> kind, first |-> first, second |-> second]

Threads == {swing, monitor, client}
Does(a, b, c) == [t \in Threads |-> CASE t = swing -> a [] t = monitor -> b [] t = client -> c]

Mail  == {Op("email", <<>>, <<>>)}

\* The password is changed, while the GUI sends mail,
Passwords == Does({Op("dialog", <<p>>, <<q>>)}, Mail, {})

\* or while the client changes it too, with a "#" between the passwords or without one.
Changes == Does({Op("dialog", <<p>>, <<q>>)},
                {}, {Op("change", <<p>>, <<q>>), Op("raw", <<p>>, <<>>)})

\* Some of what is checked has a "#" in it, or is too long for a message, and some requests
\* of the client are not answered.
Oddities == Does({Op("check", <<p, hash, q>>, <<>>), Op("check", <<q, q, q, q>>, <<>>)},
                 {}, {Op("alpha", <<>>, <<>>), Op("echo", <<q>>, <<>>),
                      Op("kill", <<"Janix">>, <<>>)})

\* The floppy disc is mounted and unmounted.
Discs == Does({Op("mount", <<floppy>>, <<>>), Op("unmount", <<floppy>>, <<>>)}, Mail, {})

\* A program is restarted, or killed, while it ends or starts.
Processes == Does({Op("restart", <<web>>, <<>>)}, {}, {Op("kill", <<web>>, <<>>)})

Buttons == {Passwords, Changes, Oddities, Discs, Processes}

Share   == Does(3, 1, 1)

Root    == <<p>>
Further == {<<q>>}
Either  == BOOLEAN
=============================================================================
