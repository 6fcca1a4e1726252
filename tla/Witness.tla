------------------------------ MODULE Witness -------------------------------
(***************************************************************************)
(* What the audit export promises its receiver, whatever happens to the    *)
(* process that sends: the receiver holds a prefix of the log, and the     *)
(* prefix only grows.  Repeated deliveries are not steps of it.            *)
(***************************************************************************)
EXTENDS Integers

VARIABLES
    written,    \* entries in the local log, numbered along the chain
    witnessed   \* entries the receiver holds

witnessVars == <<written, witnessed>>

WitnessInit == written = 0 /\ witnessed = {}

\* The local log grows.
WriteEntry == written' = written + 1 /\ UNCHANGED witnessed

\* The receiver takes everything up to some entry it did not hold.
TakePrefix ==
    /\ \E n \in 1..written : n \notin witnessed /\ witnessed' = 1..n
    /\ UNCHANGED written

WitnessNext == WriteEntry \/ TakePrefix

WitnessSpec == WitnessInit /\ [][WitnessNext]_witnessVars
=============================================================================
