----------------------------- MODULE MCActivity -----------------------------
(***************************************************************************)
(* What MainActivity does with what the node brings it, texts and files,   *)
(* checked in one run: a behaviour is one of either.                       *)
(***************************************************************************)
EXTENDS MCChatSession, MCFileTransfer

VARIABLE part       \* what this behaviour is one of

chatVars == vars

ActivityInit == part \in {"chat", "files"} /\ Init /\ FilesInit

ActivityNext ==
    \/ part = "chat" /\ Next /\ UNCHANGED <<part, fileVars>>
    \/ part = "files" /\ FilesNext /\ UNCHANGED <<part, chatVars>>

ActivitySpec == ActivityInit /\ [][ActivityNext]_<<part, chatVars, fileVars>>

=============================================================================
