------------------------------ MODULE Metering ------------------------------
(***************************************************************************)
(* What the rate limiter promises: a meter for each client and a ceiling   *)
(* for all of them, full at the start.  Time fills them all, each draw     *)
(* takes one token or is refused, and nothing else moves them.             *)
(***************************************************************************)
EXTENDS Naturals

CONSTANTS
    Key,                        \* the clients
    KeyCapacity, KeyRate,       \* of each client's meter
    GlobalCapacity, GlobalRate, \* of the ceiling
    Unit                        \* the parts of one token

VARIABLES
    ceiling,        \* the level of the ceiling
    level,          \* [Key -> the level of the client's meter]
    last            \* [who, ok]: whose meter answered last, and what

meterVars == <<ceiling, level, last>>

MeteringInit ==
    /\ ceiling = GlobalCapacity
    /\ level = [k \in Key |-> KeyCapacity]
    /\ last = [who |-> {}, ok |-> TRUE]

Filled(x, rate, capacity) == IF x + rate > capacity THEN capacity ELSE x + rate

\* Time passes.
Fill ==
    /\ ceiling' = Filled(ceiling, GlobalRate, GlobalCapacity)
    /\ level' = [k \in Key |-> Filled(level[k], KeyRate, KeyCapacity)]
    /\ UNCHANGED last

DrawCeiling ==
    /\ ceiling' = IF ceiling >= Unit THEN ceiling - Unit ELSE ceiling
    /\ last' = [who |-> {}, ok |-> ceiling >= Unit]
    /\ UNCHANGED level

Draw(k) ==
    /\ level' = [level EXCEPT ![k] = IF @ >= Unit THEN @ - Unit ELSE @]
    /\ last' = [who |-> {k}, ok |-> level[k] >= Unit]
    /\ UNCHANGED ceiling

MeteringNext == Fill \/ DrawCeiling \/ \E k \in Key : Draw(k)

MeteringSpec == MeteringInit /\ [][MeteringNext]_meterVars
=============================================================================
