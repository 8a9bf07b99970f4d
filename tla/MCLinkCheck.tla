---- MODULE MCLinkCheck ----
EXTENDS LinkCheck
CONSTANT c1
OneChecker == {c1}
====
