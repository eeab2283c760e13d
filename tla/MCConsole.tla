----------------------------- MODULE MCConsole -----------------------------
EXTENDS Console

\* GET /me, a list, a user who is created inline, and a resync, which lists clients.
MCMethodOf == [me |-> None, list |-> None, create |-> "POST", resync |-> "GET"]
=============================================================================
