------------------------------ MODULE IrXmppMC ------------------------------
(* Instances of IrXmpp for TLC.                                             *)
EXTENDS IrXmpp

\* A private file, one the group may read, and none at all.
MCModes == {{"IFREG", "IRUSR"}, {"IFREG", "IRUSR", "IRGRP"}, {}}

MCOptions == SUBSET Option
=============================================================================
