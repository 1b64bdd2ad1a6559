----------------------------- MODULE MCRequests -----------------------------
(* Small instance of Requests: one command that takes effect whenever it   *)
(* is carried out, and one that is stored once and may come from inside.   *)
EXTENDS Requests
Command(op, by, inside) == [op |-> op, by |-> by, inside |-> inside]
MCCommands == {Command("mint", "cli", FALSE), Command("send", "lib", TRUE)}
Clocks == {0, 2}
=============================================================================
