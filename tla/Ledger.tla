------------------------------- MODULE Ledger -------------------------------
(***************************************************************************)
(* What the service as a whole promises the clients that post events, with *)
(* no queue, worker or batch in sight.  An event the service told its      *)
(* client it refused is never stored; one it told its client it accepted   *)
(* has been taken in; an event taken in leaves once, for the store or not. *)
(***************************************************************************)
CONSTANT Event

VARIABLES
    told,       \* [Event -> what the client was told: "none", "accepted",
                \*           "counted" (only how many of its batch), "refused"]
    inside,     \* events taken in and not yet written or lost
    stored,     \* events written to the store
    lost        \* events taken in and lost

ledgerVars == <<told, inside, stored, lost>>

Taken == inside \cup stored \cup lost

LedgerInit ==
    /\ told = [e \in Event |-> "none"]
    /\ inside = {} /\ stored = {} /\ lost = {}

\* An event is taken in at most once, and before its client is told.
TakeIn(e) ==
    /\ told[e] = "none" /\ e \notin Taken
    /\ inside' = inside \cup {e}
    /\ UNCHANGED <<told, stored, lost>>

\* One reply speaks of all events of a request.
Tell(events, what) ==
    /\ \A e \in events : told[e] = "none"
    /\ what = "accepted" => events \subseteq Taken
    /\ what = "refused" => events \cap Taken = {}
    /\ told' = [e \in Event |-> IF e \in events THEN what ELSE told[e]]
    /\ UNCHANGED <<inside, stored, lost>>

Store(events) ==
    /\ events \subseteq inside
    /\ inside' = inside \ events
    /\ stored' = stored \cup events
    /\ UNCHANGED <<told, lost>>

Lose(events) ==
    /\ events \subseteq inside
    /\ inside' = inside \ events
    /\ lost' = lost \cup events
    /\ UNCHANGED <<told, stored>>

LedgerNext ==
    \/ \E e \in Event : TakeIn(e)
    \/ \E events \in SUBSET Event :
         \/ \E what \in {"accepted", "counted", "refused"} : Tell(events, what)
         \/ Store(events) \/ Lose(events)

LedgerSpec == LedgerInit /\ [][LedgerNext]_ledgerVars
=============================================================================
