------------------------------ MODULE FlashStore ------------------------------
(***************************************************************************)
(* What a node's storage promises its firmware: a file changes only while  *)
(* it is being saved, from the opening for writing to the closing, and a   *)
(* node that ends, however it ends, leaves every other file as it was.     *)
(* FileStore implements it with stdio buffers on a host directory that     *)
(* other nodes' processes have beside it.                                  *)
(***************************************************************************)
EXTENDS Sequences

CONSTANTS Names, NoContent

VARIABLES
  files,     \* what each name holds, or NoContent
  saving     \* names being saved

vars == <<files, saving>>

Init == saving = {}

SameBut(changed) == \A n \in Names \ changed : files'[n] = files[n]

\* A save begins with the file empty, and whatever was there is gone.
Begin(n) == /\ files'[n] = << >> /\ SameBut({n})
            /\ saving' = saving \cup {n}

\* Bytes reach the file when the library likes.
Store(n) == /\ n \in saving
            /\ files'[n] # NoContent /\ SameBut({n})
            /\ UNCHANGED saving

Finish(n) == /\ n \in saving
             /\ files'[n] # NoContent /\ SameBut({n})
             /\ saving' \in {saving, saving \ {n}}

Delete(n) == /\ files'[n] = NoContent /\ SameBut({n})
             /\ saving' = saving \ {n}

\* The node ends: what was being saved stays as far as it got.
Stop == saving' = {} /\ UNCHANGED files

Next == Stop \/ \E n \in Names : Begin(n) \/ Store(n) \/ Finish(n) \/ Delete(n)

Spec == Init /\ [][Next]_vars
=============================================================================
