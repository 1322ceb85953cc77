---------------------------- MODULE FileDelivery ----------------------------
(***************************************************************************)
(* What a file transfer promises the person at the host's prompt: chunks   *)
(* arrive, and "done" is only said of a file that is whole and that        *)
(* nothing touches afterwards.  A failure may be announced at any time.    *)
(***************************************************************************)
EXTENDS Naturals, Sequences

CONSTANTS Chunk,      \* what a chunk can hold
          Source      \* the chunks of the file to transfer, in order

VARIABLES file,       \* what has been stored at the receiving end
          told        \* what the host said: "none", "ok" or "fail"

deliveryVars == <<file, told>>

DeliveryInit == file = << >> /\ told = "none"

Store(c) ==
    /\ told # "ok"
    /\ file' = Append(file, c)
    /\ UNCHANGED told

SayDone ==
    /\ told = "none"
    /\ file = Source
    /\ told' = "ok"
    /\ UNCHANGED file

SayFailed ==
    /\ told = "none"
    /\ told' = "fail"
    /\ UNCHANGED file

DeliveryNext == (\E c \in Chunk : Store(c)) \/ SayDone \/ SayFailed

DeliverySpec == DeliveryInit /\ [][DeliveryNext]_deliveryVars
=============================================================================
