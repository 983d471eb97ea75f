----------------------------- MODULE EventSender -----------------------------
(***************************************************************************)
(* src/components/EventSenderModal.tsx.  The component returns null while  *)
(* it is closed, but stays mounted: closing it keeps its state, and the    *)
(* answer to a request arrives whether it is open or not.  What is sent    *)
(* (service, level, message, number of records) decides only how the       *)
(* gateway answers, which is a choice of the gateway here.                 *)
(***************************************************************************)
EXTENDS Naturals

VARIABLES
    isOpen,
    loading,
    responseResult  \* "none", or how the response shown is painted

senderVars == <<isOpen, loading, responseResult>>

\* The endpoints; the selector can be set to either at any time.
Mode == {"single", "batch"}

SenderTypeOK ==
    /\ isOpen \in BOOLEAN /\ loading \in BOOLEAN
    /\ responseResult \in {"none", "green", "red"}

SenderInit == isOpen = FALSE /\ loading = FALSE /\ responseResult = "none"

OpenModal == ~isOpen /\ isOpen' = TRUE /\ UNCHANGED <<loading, responseResult>>

\* Mutant of CloseModal: the modal is unmounted, and its state lost, on closing.
CloseModal_Unmounts ==
    isOpen /\ isOpen' = FALSE /\ loading' = FALSE /\ responseResult' = "none"

CloseModal == isOpen /\ isOpen' = FALSE /\ UNCHANGED <<loading, responseResult>>

\* Up to the await.
Send ==
    /\ isOpen /\ ~loading
    /\ loading' = TRUE /\ responseResult' = "none"
    /\ UNCHANGED isOpen

\* After it: 200 and 202 are painted green, other answers red, and so is the
\* 500 the modal makes up when fetch throws.
SendEnds(colour) ==
    /\ responseResult' = colour /\ loading' = FALSE
    /\ UNCHANGED isOpen

\* How the gateway's status is painted: 202 if some of the events were taken, or
\* else 400, 429 or 503.
Status(taken) == IF taken > 0 THEN "green" ELSE "red"
=============================================================================
