----------------------------- MODULE MCDevIdSync ------------------------------
EXTENDS DevIdSync

\* The first letters of "WILOC-MASTER".
Greeting == <<87, 73>>
====
