----------------------------- MODULE MCNotices -----------------------------
(***************************************************************************)
(* A small instance of Notices: a tab in which ann logs in and, when she is*)
(* gone, ben, with two tokens and three streams between them, a browser in *)
(* which either may log in elsewhere, and a notice for ann.                *)
(***************************************************************************)
EXTENDS Notices

CONSTANTS ann, ben, tab, sold

MCNoteOf == [k \in Notes |-> ann]
MCMaxLogins == [t \in Tabs |-> 2]
MCVisitors == [p \in Popovers |-> IF p[2] = 1 THEN {ann} ELSE {ben}]
MCMaxTokens == [t \in Tabs |-> 2]
MCMaxStreams == [p \in Popovers |-> IF p[2] = 1 THEN 2 ELSE 1]
MCMaxOpens == [t \in Tabs |-> 1]

=============================================================================
